--------------------------- MODULE DocumentHistory ---------------------------
(* One document on shared storage and the clients that work on replicas of   *)
(* it: each prepares candidates (container.cpp) from the replica it holds,   *)
(* publishes one when the target is still that replica, and otherwise merges *)
(* it with the target it finds. Publication itself is one step here; module  *)
(* Publication says what it takes. Leases are left out: they add no record.  *)
EXTENDS DocumentEnvelope

CONSTANTS
  Owner, Guest,     \* the clients, and the slots they use
  Recovery,         \* the slot and the password of the recovery, if any
  Passwords,        \* the passwords each client knows
  Texts,            \* the texts they save
  Grants,           \* the rights an invitation or an update grants
  Retained,         \* the numbers of deltas a compaction may keep
  MaxMinted         \* how many candidates the clients prepare

\* Members and, at first, their passwords differ; a grant is a set of rights.
ASSUME MembersDiffer ==
  /\ Owner # Guest /\ Recovery \notin {Owner, Guest}
  /\ \A c \in {Owner, Guest} : Passwords[c] # {} /\ Recovery \notin Passwords[c]
  /\ Passwords[Owner] \cap Passwords[Guest] = {}
  /\ Grants \subseteq SUBSET Rights
\* There is a text, and a text is not what an absent one is.
ASSUME TextsAreTexts == Texts # {} /\ None \notin Texts
ASSUME BoundsAreNaturals ==
  MaxEntries \in Nat /\ MaxEntries >= 4 /\ MaxMinted \in Nat

VARIABLES
  target,   \* the document on shared storage
  held,     \* the replica each client has open
  pending,  \* the candidate each client has not published
  minted,   \* the digests each client has minted
  refusal   \* why the last operation's own result did not decode

vars == <<target, held, pending, minted, refusal>>
Clients == {Owner, Guest}
Initial == CHOOSE text \in Texts : TRUE
Sole(c) == CHOOSE p \in Passwords[c] : TRUE

\* A document as it is created; one with a recovery whose guest has claimed
\* the invitation; and that one grown to one record short of the limit.
Fresh == Create(Owner, Sole(Owner), Recovery, None, Owner, <<Owner, 0>>, Initial)
Amend(doc, change, who, id) ==
  ReplaceSlots(doc, AppendEvent(doc.graph, change.slots, who, id, change.event),
               change, Sole(Guest))
Shared ==
  LET created == Create(Owner, Sole(Owner), Recovery, Recovery, Owner, <<Owner, 0>>,
                        Initial)
      invited == Amend(created, Invite(created.graph.slots, Guest, Rights),
                       Owner, <<Owner, -1>>)
  IN Amend(invited, Claim(invited.graph.slots, invited.graph.slots[2]),
           Guest, <<Guest, 0>>)
Long ==
  LET before == Shared.graph
      count == MaxEntries - 1 - Len(before.records)
      id(n) == IF n = 0 THEN before.head ELSE <<Owner, -1 - n>>
      reconciled(n) ==
        Record(id(n), "event", None,
               Immutable("event", id(n - 1), None, {}, Owner, Initial, None,
                         [type |-> "identity-reconciled", slot |-> Owner]))
  IN [Shared EXCEPT !.graph.head = id(count),
                    !.graph.records = @ \o [n \in 1..count |-> reconciled(n)]]

ASSUME NoDocument == None \notin {Fresh, Shared, Long} \cup (Clients \X Int)

Init ==
  /\ target \in {Fresh, Shared, Long}
  /\ held = [c \in Clients |-> None]
  /\ pending = [c \in Clients |-> None]
  /\ minted = [c \in Clients |-> 0]
  /\ refusal = None

-----------------------------------------------------------------------------
(* Sessions and candidates *)

Unlocks(c, doc) == (\E p \in Passwords[c] : Admits(doc, p)) /\ Decodes(doc)
SessionOf(c, doc) == Session(doc, CHOOSE p \in Passwords[c] : Admits(doc, p))
Digest(c) == <<c, minted[c] + 1>>

\* Container::prepare_*: a candidate is kept once it decodes and opens again.
Minting == minted[Owner] + minted[Guest] < MaxMinted
Idle(c) == held[c] # None /\ pending[c] = None /\ Minting
Keep(c, doc, reopened) ==
  /\ UNCHANGED <<target, held>>
  /\ IF ~Fits(doc.graph)
     THEN refusal' = "limit_exceeded" /\ UNCHANGED <<pending, minted>>
     ELSE IF ~Consistent(doc.graph) \/ (reopened /\ ~Unlocks(c, doc))
     THEN refusal' = "malformed_container" /\ UNCHANGED <<pending, minted>>
     ELSE /\ pending' = [pending EXCEPT ![c] = doc]
          /\ minted' = [minted EXCEPT ![c] = @ + 1]
          /\ refusal' = None

\* What a client holds it has opened.
Open(c) ==
  /\ pending[c] = None /\ (held[c] # target => Unlocks(c, target))
  /\ held' = [held EXCEPT ![c] = target]
  /\ UNCHANGED <<target, pending, minted, refusal>>

Editing(c) ==
  LET session == SessionOf(c, held[c])
  IN "edit" \in session.rights /\ ~session.mustChange

Save(c, text, regular) ==
  /\ Idle(c) /\ Editing(c)
  /\ Keep(c, ReplaceGraph(held[c],
                 Saved(held[c].graph, c, Digest(c), text, regular)), TRUE)
Reseal(c, text) ==
  /\ Idle(c) /\ Editing(c) /\ Resealable(held[c].graph, c, text)
  /\ Keep(c, ReplaceGraph(held[c], Resealed(held[c].graph)), TRUE)
Discard(c) ==
  /\ Idle(c) /\ Editing(c) /\ MayDiscard(held[c].graph)
  /\ Keep(c, ReplaceGraph(held[c], Discarded(held[c].graph)), TRUE)
Compact(c, retain) ==
  /\ Idle(c) /\ MayCompact(held[c].graph, SessionOf(c, held[c]).id)
  /\ Keep(c, ReplaceGraph(held[c],
                 Compacted(held[c].graph, retain, c, Digest(c))), TRUE)

ChangeSlots(c, change, password, reopened) ==
  LET graph == AppendEvent(held[c].graph, change.slots, c, Digest(c), change.event)
  IN Keep(c, ReplaceSlots(held[c], graph, change, password), reopened)
AdministerSlots(c) ==
  LET doc == held[c]
      slots == held[c].graph.slots
      session == SessionOf(c, held[c])
  IN
  /\ Idle(c) /\ MayAppendEvent(doc.graph)
  /\ \/ \E p \in Passwords[c] :
          \/ /\ MayChangePassword(doc, session, p)
             /\ ChangeSlots(c, ChangePassword(slots, session), p, TRUE)
          \/ /\ MayClaim(doc, session, p)
             /\ ChangeSlots(c, Claim(slots, session), p, TRUE)
     \/ \E rights \in Grants :
          \/ \E p \in Passwords[Guest] :
               /\ MayInvite(doc, session, Guest, rights, p)
               /\ ChangeSlots(c, Invite(slots, Guest, rights), p, TRUE)
          \/ /\ MayUpdate(doc, session, Guest, rights)
             /\ ChangeSlots(c, UpdatePermissions(slots, Guest, rights), None, TRUE)
     \/ /\ MayRemove(doc, session, Guest)
        /\ ChangeSlots(c, RemoveSlot(slots, Guest), None, session.id # Guest)
     \/ /\ MayReconcile(session)
        /\ ChangeSlots(c, Reconcile(slots, session), None, TRUE)

-----------------------------------------------------------------------------
(* Publication *)

\* Mutant: a candidate replaces whatever target there is.
PublishBlindly(c) ==
  /\ pending[c] # None
  /\ target' = pending[c]
  /\ held' = [held EXCEPT ![c] = IF Unlocks(c, pending[c]) THEN pending[c] ELSE None]
  /\ pending' = [pending EXCEPT ![c] = None]
  /\ UNCHANGED <<minted, refusal>>
\* Mutant: a published candidate that removed its own member is kept.
PublishKeepsCandidate(c) ==
  /\ pending[c] # None /\ target = held[c]
  /\ target' = pending[c]
  /\ IF Unlocks(c, pending[c])
     THEN held' = [held EXCEPT ![c] = pending[c]]
          /\ pending' = [pending EXCEPT ![c] = None]
     ELSE held' = [held EXCEPT ![c] = None] /\ UNCHANGED pending
  /\ UNCHANGED <<minted, refusal>>
Publish(c) ==
  /\ pending[c] # None /\ target = held[c]
  /\ target' = pending[c]
  /\ held' = [held EXCEPT ![c] = IF Unlocks(c, pending[c]) THEN pending[c] ELSE None]
  /\ pending' = [pending EXCEPT ![c] = None]
  /\ UNCHANGED <<minted, refusal>>

\* The target is no longer the candidate's base.
Conflict(c) == pending[c] # None /\ target # held[c]
MayResolve(c) ==
  /\ Unlocks(c, target) /\ Unlocks(c, pending[c])
  /\ MayMergeSave(target, pending[c], SessionOf(c, target), SessionOf(c, pending[c]))
Merge(c, text) ==
  LET doc == MergeSave(target, pending[c], c, Digest(c), text) IN
  /\ Conflict(c) /\ Minting /\ MayResolve(c)
  /\ UNCHANGED target
  /\ IF Valid(doc.graph) /\ Unlocks(c, doc)
     THEN /\ held' = [held EXCEPT ![c] = target]
          /\ pending' = [pending EXCEPT ![c] = doc]
          /\ minted' = [minted EXCEPT ![c] = @ + 1]
          /\ refusal' = None
     ELSE /\ refusal' = IF Fits(doc.graph) THEN "malformed_container"
                        ELSE "limit_exceeded"
          /\ UNCHANGED <<held, pending, minted>>

\* Dropping a candidate earlier is as if it had not been prepared.
Abandon(c) ==
  /\ Conflict(c)
  /\ pending' = [pending EXCEPT ![c] = None]
  /\ UNCHANGED <<target, held, minted, refusal>>

Next ==
  \E c \in Clients :
    \/ Open(c) \/ Publish(c) \/ Abandon(c)
    \/ Discard(c) \/ AdministerSlots(c)
    \/ \E retain \in Retained : Compact(c, retain)
    \/ \E text \in Texts :
         \/ Reseal(c, text) \/ Merge(c, text)
         \/ \E regular \in BOOLEAN : Save(c, text, regular)

Spec == Init /\ [][Next]_vars

-----------------------------------------------------------------------------
(* Properties *)

Documents ==
  ({target} \cup {held[c] : c \in Clients} \cup {pending[c] : c \in Clients})
  \ {None}

TypeOK ==
  /\ minted \in [Clients -> 0..MaxMinted]
  /\ refusal \in {None, "limit_exceeded", "malformed_container"}
  /\ \A c \in Clients : pending[c] # None => held[c] # None
  /\ \A doc \in Documents : \A id \in Ids(doc.graph.records) :
       id[1] \in Clients /\ id[2] \in -MaxEntries..minted[id[1]]

\* No legal sequence of operations reaches a document one of them makes
\* unreadable: what an operation computes decodes and opens again.
ResultsDecode == refusal # "malformed_container"

\* Every member's password opens the member's own slot, through every change
\* of the list and every merge.
MembersOpen ==
  \A doc \in Documents :
    /\ Len(doc.graph.slots) = Len(doc.wrappers)
    /\ \A i \in DOMAIN doc.wrappers :
         /\ Admits(doc, doc.wrappers[i].password)
         /\ Session(doc, doc.wrappers[i].password) = doc.graph.slots[i]

\* A sealed record, once on the target, stays there with what it says.
SealedHistoryKept ==
  [][\A r \in ToSet(target.graph.records) : ~r.provisional =>
       \E s \in ToSet(target'.graph.records) :
         s.id = r.id /\ s.imm = r.imm /\ ~s.provisional]_target

\* The text of a sealed revision never changes, and is lost only to a merge
\* that takes the revision in or to a compaction with a later cutoff.
TextsKept ==
  [][LET now == target'.graph.records
         Kept(r) == r.id \in Ids(now) /\ now[Position(now, r.id)].storage # "pruned"
         Cut(r) == \E e \in ToSet(now) :
           /\ IsCompaction(e) /\ r.id \in Ids(now)
           /\ Position(now, r.id) < Position(now, e.imm.event.cutoff)
         MergedIn(r) == r.id \in Ids(now) /\ Foreign(now[Position(now, r.id)])
     IN \A r \in ToSet(CanonicalContent(target.graph.records)) :
          LET before == Reconstruct(target.graph, r.id) IN
          ~r.provisional /\ before # None =>
            \/ Kept(r) /\ Reconstruct(target'.graph, r.id) = before
            \/ Cut(r) \/ MergedIn(r)]_target

\* What assess_target says of a replica is so: an advanced target has all of
\* it, and a sealed replica is behind on the line or was merged into it.
LineageSound ==
  \A c \in Clients : held[c] # None =>
    LET own == held[c].graph
        there == target.graph.records
    IN CASE Assess(own, target.graph) = "unchanged" -> Ids(own.records) = Ids(there)
         [] Assess(own, target.graph) = "advanced" -> Ids(own.records) \subseteq Ids(there)
         [] Assess(own, target.graph) = "rollback" -> Provisional(own)
         [] Assess(own, target.graph) = "divergent" ->
              Provisional(own) \/ own.head \in Ids(there) \ Ids(Canonical(there))
         [] OTHER -> FALSE

=============================================================================
