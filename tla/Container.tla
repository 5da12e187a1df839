----------------------------- MODULE Container -----------------------------
(***************************************************************************)
(* One native container (container.cpp) and the host that obeys it.  The   *)
(* container authenticates images, builds at most one candidate, and       *)
(* installs the transitions of ContainerState.  The host journals the      *)
(* candidate, writes it to the target, reports what became of it, and does *)
(* what each transition's effects ask: it runs the lease heartbeat, shows  *)
(* and clears the text, and keeps the outcome of an external action.       *)
(*                                                                         *)
(* An image is what its password slots may do, which of them are unclaimed *)
(* invitations, whose editing lease it holds, its text, whether its last   *)
(* record is a provisional text, and the attempt its sealed history ends   *)
(* with, if its outcome is not recorded.  An operation the code refuses is *)
(* no step.                                                                *)
(***************************************************************************)
EXTENDS ContainerState

CONSTANTS
  Owner,         \* the slot that always has every right
  Grants,        \* the rights asked for an ordinary slot
  Texts,         \* document texts
  OwnSessions,   \* lease sessions of this host
  Theirs,        \* the lease session of another client
  MaxOperation,  \* bound on operations of one container
  MaxGeneration  \* bound on submitted texts of one container

ASSUME OwnerIsASlot == Owner \in Slots
ASSUME GrantsArePermissions == Grants \subseteq Permissions
ASSUME NoneIsNoRights == \A p \in Permissions : p # None
ASSUME NoneIsNoSession == None \notin OwnSessions \cup {Theirs}
ASSUME TheirsIsNotOurs == Theirs \notin OwnSessions
ASSUME TextsExist == Texts # {} /\ None \notin Texts
ASSUME BoundsAreNaturals == MaxOperation \in Nat /\ MaxGeneration \in Nat

VARIABLES
  state,       \* the installed ContainerState
  committed,   \* the confirmed image, or None
  target,      \* an observed target's image, or None
  unlocked,    \* the authenticated slot: its rights, whether it is unclaimed
  text,        \* the submitted clear text
  generation,  \* how many texts were submitted
  candidate,   \* the retained candidate
  activity,    \* the published attempt whose outcome is not recorded
  session,     \* the lease session this container holds
  wedged,      \* did a throw leave transitioning_ set?
  \* the host
  disk,        \* the target file
  written,     \* has the candidate reached the target?
  journal,     \* what the host's journal holds: nothing, the candidate, an outcome
  heartbeat,   \* does the lease heartbeat run?
  display,     \* is the clear text shown?
  raised       \* has a decision been raised since the container was opened?

document == <<committed, target, unlocked, text, generation>>
operations == <<candidate, activity, session, wedged>>
outside == <<disk, written>>
duties == <<journal, heartbeat, display>>
vars == <<state, document, operations, outside, duties, raised>>

Rights == {p \in Permissions : WellFormed(p)}
\* What the slots of a document may do; None is the right of no slot.
SlotRights ==
  {r \in [Slots -> (Grants \cap Rights) \cup {AllRights, None}] :
     r[Owner] = AllRights /\ \A s \in Slots \ {Owner} : r[s] \in Grants \cup {None}}
Sessions == OwnSessions \cup {Theirs}

\* sealed is the text of the last sealed record: what a discard restores.
Attempted == [kind: Attempts, slot: Slots]
Images ==
  [rights: [Slots -> Rights \cup {None}], invited: SUBSET Slots,
   lease: Sessions \cup {None}, provisional: BOOLEAN, text: Texts, sealed: Texts,
   attempt: Attempted \cup {None}]
Present(image) == {s \in Slots : image.rights[s] # None}

\* UnlockedContainerData: what unlocking an image with a slot's password yields.
Decodings == [slot: Slots, rights: Permissions, invited: BOOLEAN]
Decoded(image, slot) ==
  [slot |-> slot, rights |-> image.rights[slot], invited |-> slot \in image.invited]

Changes == {"save", "discard", "slot", "lease", "attempt", "outcome", "compaction"}
Candidates ==
  [operation: Nat, change: Changes, image: Images, generation: Nat,
   removes: BOOLEAN, session: OwnSessions \cup {None}]
Activities == [operation: Nat, kind: Attempts, done: {"unknown", "yes", "no"}]
ASSUME NoneIsNoRecord ==
  /\ None \notin Overlays /\ None \notin Images /\ None \notin Attempted
  /\ None \notin Decodings /\ None \notin Candidates /\ None \notin Activities

TypeOK ==
  /\ state \in ContainerStates
  /\ committed \in Images \cup {None} /\ target \in Images \cup {None}
  /\ unlocked \in Decodings \cup {None}
  /\ text \in Texts \cup {None} /\ generation \in Nat
  /\ candidate \in Candidates \cup {None} /\ activity \in Activities \cup {None}
  /\ session \in OwnSessions \cup {None} /\ wedged \in BOOLEAN
  /\ disk \in Images /\ written \in BOOLEAN
  /\ journal \in {"nothing", "candidate", "outcome"}
  /\ heartbeat \in BOOLEAN /\ display \in BOOLEAN /\ raised \in BOOLEAN

Init ==
  /\ \E rights \in SlotRights, lease \in {None, Theirs}, t \in Texts :
       \E invited \in SUBSET {s \in Slots \ {Owner} : rights[s] # None} :
         disk = [rights |-> rights, invited |-> invited, lease |-> lease,
                 provisional |-> FALSE, text |-> t, sealed |-> t, attempt |-> None]
  /\ state = ClosedState /\ committed = None /\ target = None
  /\ unlocked = None /\ text = None /\ generation = 0
  /\ candidate = None /\ activity = None /\ session = None /\ wedged = FALSE
  /\ written = FALSE /\ journal = "nothing" /\ heartbeat = FALSE
  /\ display = FALSE /\ raised = FALSE

-----------------------------------------------------------------------------
(* The host's part of a transition: what its effects ask for. *)

HostDoes(effects) ==
  /\ heartbeat' = IF "start_heartbeat" \in effects THEN TRUE
                  ELSE heartbeat /\ "stop_heartbeat" \notin effects
  /\ display' = (display /\ "clear_display" \notin effects)
  /\ journal' = IF "journal_candidate" \in effects THEN "candidate"
                ELSE IF "journal_activity_outcome" \in effects THEN "outcome"
                ELSE IF "clear_journal" \in effects THEN "nothing" ELSE journal

\* The host shows the text the container lets it read.
CanReadClear == state.open /\ state.unlocked /\ unlocked # None /\ ~unlocked.invited
ShowText ==
  /\ CanReadClear /\ ~display /\ display' = TRUE
  /\ UNCHANGED <<state, document, operations, outside, journal, heartbeat, raised>>

-----------------------------------------------------------------------------
(* Opening, unlocking, locking and closing *)

OpenDocument ==
  /\ ~wedged /\ MayOpen(state)
  /\ committed' = disk
  /\ state' = Open(state)
  /\ UNCHANGED <<target, unlocked, text, generation, operations, outside, duties,
                 raised>>

\* The password opens slot in the observed target's image if there is one.
\* The slot that was unlocked before keeps its submitted text.
UnlockDocument(slot) ==
  LET source == IF target # None THEN target ELSE committed
      retained == unlocked # None /\ unlocked.slot = slot
      lease == IF source.lease = None THEN "none"
               ELSE IF source.lease = session THEN "held" ELSE "other_holder"
      after == Unlock(state, slot, source.rights[slot], lease)
  IN /\ ~wedged /\ state.open /\ committed # None
     /\ state.attention = "reauthenticate" => target # None
     /\ slot \in Present(source)
     /\ target # None /\ state.overlay # None =>
          slot = state.overlay.slot /\ source.rights[slot] = state.overlay.rights
     /\ MayUnlock(state, slot, source.rights[slot], target # None)
     /\ state' = after
     /\ unlocked' = [(IF retained THEN unlocked ELSE Decoded(source, slot))
                       EXCEPT !.rights = after.rights]
     /\ text' = IF retained THEN text ELSE source.text
     /\ UNCHANGED <<committed, target, generation, operations, outside, duties,
                    raised>>

LockContainer ==
  /\ ~wedged /\ MayLock(state)
  /\ state' = Lock(state) /\ HostDoes(LockEffects(state))
  /\ UNCHANGED <<document, operations, outside, raised>>

\* The handle is released with the container, so the next one starts afresh.
CloseContainer ==
  /\ ~wedged /\ MayClose(state)
  /\ HostDoes(CloseEffects(state))
  /\ state' = ClosedState /\ committed' = None /\ target' = None
  /\ unlocked' = None /\ text' = None /\ generation' = 0
  /\ candidate' = None /\ activity' = None /\ session' = None
  /\ written' = FALSE /\ raised' = FALSE
  /\ UNCHANGED <<wedged, disk>>

\* The host has seen other bytes in the target: another client changed the
\* ordinary slots.  password opens a slot there, and sameWrapper tells whether
\* it also opens the confirmed image with the same wrapper bytes.
ForeignImages ==
  {[committed EXCEPT !.rights = r, !.invited = {s \in @ : r[s] # None}] :
     r \in SlotRights}
ApplyTargetDocument(image, slot, sameWrapper) ==
  LET matched == slot = state.slot
      rights == IF matched THEN image.rights[slot] ELSE {}
      changed == ~(matched /\ sameWrapper)
      after == ApplyTarget(state, rights, changed)
  IN /\ ~wedged /\ Shown(state) /\ state.slot # None /\ state.overlay = None
     /\ target = None /\ slot \in Present(image)
     /\ MayApplyTarget(state, rights)
     /\ target' = image /\ disk' = image
     /\ state' = after /\ HostDoes(ApplyTargetEffects(state, rights, changed))
     /\ unlocked' = [unlocked EXCEPT !.rights = after.rights]
     /\ UNCHANGED <<committed, text, generation, operations, written, raised>>

\* A decision the user must take.  Nothing but closing takes it back:
\* transition() refuses ClearAttention.
RaiseAttention(reason) ==
  /\ ~wedged /\ MayRaise(state)
  /\ state' = Raise(state, reason) /\ raised' = TRUE
  /\ UNCHANGED <<document, operations, outside, duties>>

-----------------------------------------------------------------------------
(* Editing and preparing candidates *)

ReleaseEdit ==
  /\ ~wedged /\ MayRelease(state)
  /\ state' = Release(state) /\ HostDoes(ReleaseEffects)
  /\ UNCHANGED <<document, operations, outside, raised>>

ConfirmEditLease ==
  /\ ~wedged /\ ~(unlocked # None /\ unlocked.invited) /\ MayAcquire(state)
  /\ state' = Acquire(state) /\ HostDoes(AcquireEffects(state))
  /\ UNCHANGED <<document, operations, outside, raised>>

SubmitContent(t) ==
  /\ ~wedged /\ state.open /\ state.unlocked /\ state.editing
  /\ "edit" \in state.rights /\ state.attention = "none"
  /\ activity = None
  /\ candidate # None => candidate.change # "attempt"
  /\ generation < MaxGeneration
  /\ text' = t /\ generation' = generation + 1
  /\ UNCHANGED <<state, committed, target, unlocked, operations, outside, duties,
                 raised>>

\* Callers number their operations in order.
NextOperation == state.last + 1

\* Retain a candidate and begin its publication: journal it, then write it.
Propose(change, kind, image, removes, after) ==
  /\ NextOperation <= MaxOperation
  /\ MayBegin(state, NextOperation, kind)
  /\ candidate' = [operation |-> NextOperation, change |-> change, image |-> image,
                   generation |-> generation', removes |-> removes, session |-> after]
  /\ state' = Begin(state, NextOperation, kind) /\ HostDoes(BeginEffects)
  /\ written' = FALSE
  /\ UNCHANGED <<committed, target, unlocked, activity, session, wedged, disk,
                 raised>>
Retain(change, kind, image, removes, after) ==
  UNCHANGED <<text, generation>> /\ Propose(change, kind, image, removes, after)

\* What every prepare operation checks of the container.
Ready == ~wedged /\ candidate = None /\ unlocked # None /\ Idle(state)
           /\ state.attention = "none" /\ state.overlay = None
MayEdit == Ready /\ state.unlocked /\ state.editing /\ state.lease = "held"
             /\ "edit" \in state.rights
Clean == ~committed.provisional /\ text = committed.text

\* A manual save seals its text; a regular one stays provisional and keeps the
\* sealed record it would be discarded to.
SaveImage(t, regular) ==
  IF regular THEN [committed EXCEPT !.provisional = TRUE, !.text = t]
  ELSE [committed EXCEPT !.provisional = FALSE, !.text = t, !.sealed = t,
                         !.attempt = None]
PrepareSave(regular) ==
  /\ MayEdit /\ ~unlocked.invited
  /\ Retain("save", "save", SaveImage(text, regular), FALSE, None)

\* A merge submits its resolved text and saves it over the confirmed target.
PrepareMerge(t) ==
  /\ MayEdit /\ ~unlocked.invited /\ ~committed.provisional
  /\ generation < MaxGeneration /\ text' = t /\ generation' = generation + 1
  /\ Propose("save", "save", SaveImage(t, FALSE), FALSE, None)

\* A discard drops the provisional record and restores the one it replaced.
PrepareDiscard ==
  /\ MayEdit /\ ~unlocked.invited /\ committed.provisional
  /\ Retain("discard", "save",
       [committed EXCEPT !.provisional = FALSE, !.text = committed.sealed], FALSE,
       None)

\* An event is appended to a sealed document and leaves its text.
Appended(image) == [image EXCEPT !.attempt = None]

PrepareCompaction ==
  /\ MayEdit /\ {"add", "remove"} \subseteq state.rights /\ target = None
  /\ session # None /\ committed.lease = session
  /\ Clean /\ committed.rights[unlocked.slot] = AllRights /\ ~unlocked.invited
  /\ Retain("compaction", "compaction", Appended(committed), FALSE, None)

PrepareLease(image, after) ==
  /\ Ready
  /\ state.unlocked => "edit" \in state.rights
  /\ "edit" \in unlocked.rights /\ ~unlocked.invited
  /\ Retain("lease", "lease_change", image, FALSE, after)
AcquireLease(s) ==
  /\ state.unlocked /\ committed.lease = None
  /\ PrepareLease([committed EXCEPT !.lease = s], s)
\* Mutant: a locked session may resume its lease.
RenewAnyLease ==
  /\ session # None /\ committed # None /\ committed.lease = session
  /\ PrepareLease(committed, session)
\* A refresh while editing, a resumption after a lock: the lease stays ours.
RenewLease ==
  /\ state.unlocked /\ session # None /\ committed.lease = session
  /\ PrepareLease(committed, session)
\* The evidence of a stale lease is the host's; an owner may go without it.
TakeOverLease(s, stale) ==
  /\ state.unlocked /\ committed.lease \notin {None, s}
  /\ stale \/ (unlocked # None /\ unlocked.slot = Owner)
  /\ PrepareLease([committed EXCEPT !.lease = s], s)
ReleaseLease ==
  /\ session # None /\ committed.lease = session
  /\ PrepareLease([committed EXCEPT !.lease = None], None)

-----------------------------------------------------------------------------
(* Slot changes and external activities *)

PrepareSlots(image, removes) ==
  /\ Ready /\ state.unlocked /\ ~committed.provisional
  /\ removes => text = committed.text
  /\ Retain("slot", "slot_change", Appended(image), removes, None)

\* A new password, or a reconciled identity, leaves what the model keeps alone.
ChangeOwnSlot == unlocked # None /\ ~unlocked.invited /\ PrepareSlots(committed, FALSE)
ClaimInvitation ==
  /\ unlocked # None /\ unlocked.invited
  /\ PrepareSlots([committed EXCEPT !.invited = @ \ {unlocked.slot}], FALSE)
\* Mutant: the permission bits of an invitation are not validated.
AddAnyInvitation(slot, rights) ==
  /\ unlocked # None /\ ~unlocked.invited /\ "add" \in unlocked.rights
  /\ committed # None /\ slot \notin Present(committed)
  /\ PrepareSlots(
       [committed EXCEPT !.invited = @ \cup {slot}, !.rights[slot] = rights], FALSE)
AddInvitation(slot, rights) ==
  /\ unlocked # None /\ ~unlocked.invited /\ WellFormed(rights)
  /\ "add" \in unlocked.rights /\ rights \subseteq unlocked.rights
  /\ committed # None /\ slot \notin Present(committed)
  /\ PrepareSlots(
       [committed EXCEPT !.invited = @ \cup {slot}, !.rights[slot] = rights], FALSE)
UpdatePermissions(slot, rights) ==
  /\ unlocked # None /\ ~unlocked.invited /\ {"add", "remove"} \subseteq unlocked.rights
  /\ WellFormed(rights) /\ committed # None
  /\ slot \in Present(committed) \ (committed.invited \cup {Owner})
  /\ PrepareSlots([committed EXCEPT !.rights[slot] = rights], FALSE)
RemoveSlot(slot) ==
  /\ unlocked # None /\ ~unlocked.invited /\ "remove" \in unlocked.rights
  /\ committed # None /\ slot \in Present(committed) \ {Owner}
  /\ PrepareSlots(
       [committed EXCEPT !.invited = @ \ {slot}, !.rights[slot] = None],
       slot = unlocked.slot)

\* An attempt is published before the external action; a backup needs the
\* submitted text to be the confirmed one.
PrepareAttempt(kind) ==
  /\ Ready /\ state.unlocked /\ activity = None /\ ~unlocked.invited
  /\ disk = committed /\ ~committed.provisional
  /\ kind = "backup_attempt" => Clean
  /\ Retain("attempt", kind,
       [committed EXCEPT !.attempt = [kind |-> kind, slot |-> unlocked.slot]], FALSE,
       None)

CompleteActivity(succeeded) ==
  /\ ~wedged /\ activity # None /\ activity.done = "unknown"
  /\ MayComplete(state, activity.operation)
  /\ state' = Complete(state) /\ HostDoes(CompleteEffects(succeeded))
  /\ activity' = [activity EXCEPT !.done = IF succeeded THEN "yes" ELSE "no"]
  /\ UNCHANGED <<document, candidate, session, wedged, outside, raised>>

\* After reopening, the outcome in the host's journal is taken up again if the
\* attempt is still the last record and this slot wrote it.
RestoreActivity(kind, succeeded) ==
  /\ Ready /\ state.unlocked /\ activity = None /\ ~unlocked.invited
  /\ disk = committed /\ journal = "outcome"
  /\ ~committed.provisional
  /\ committed.attempt = [kind |-> kind, slot |-> unlocked.slot]
  /\ NextOperation <= MaxOperation /\ MayRestore(state, NextOperation, kind)
  /\ state' = Restore(state, NextOperation, kind)
  /\ activity' = [operation |-> NextOperation, kind |-> kind,
                  done |-> IF succeeded THEN "yes" ELSE "no"]
  /\ UNCHANGED <<document, candidate, session, wedged, outside, duties, raised>>

PrepareOutcome ==
  /\ ~wedged /\ candidate = None /\ unlocked # None /\ ~unlocked.invited
  /\ activity # None /\ activity.done # "unknown"
  /\ state.unlocked /\ state.phase = "outcome_pending"
  /\ state.attention = "none" /\ state.overlay = None /\ disk = committed
  /\ committed.attempt # None
  /\ Retain("outcome", "activity_outcome", Appended(committed), FALSE, None)

-----------------------------------------------------------------------------
(* Publication and its result *)

\* The host writes the candidate it has journaled, at once or when it recovers.
WriteCandidate ==
  /\ candidate # None /\ journal = "candidate" /\ ~written
  /\ disk' = candidate.image /\ written' = TRUE
  /\ UNCHANGED <<state, document, operations, duties, raised>>

\* A verified candidate is followed up by a nested transition: removing the
\* active slot locks, a slot change refreshes the rights, a lease change
\* installs the lease.
FollowUp(settled) ==
  LET slot == Decoded(candidate.image, unlocked.slot)
      held == candidate.session # None
  IN CASE candidate.removes ->
            [may |-> MayLock(settled), state |-> Lock(settled),
             effects |-> LockEffects(settled)]
       [] candidate.change = "slot" /\ ~candidate.removes ->
            [may |-> MayRefreshRights(settled, slot.rights),
             state |-> RefreshRights(settled, slot.rights, ~slot.invited),
             effects |-> RefreshEffects(settled, slot.rights, ~slot.invited)]
       [] candidate.change = "lease" ->
            [may |-> MayPublishLease(settled, held),
             state |-> PublishLease(settled, held),
             effects |-> PublishLeaseEffects(settled, held)]
       [] OTHER -> [may |-> TRUE, state |-> settled, effects |-> {}]

\* Mutant: it restores it in any case.
DiscardAnyText == IF candidate.change = "discard" THEN candidate.image.text ELSE text
\* A discard restores the sealed text unless newer text was submitted.
AdoptedText ==
  IF candidate.change = "discard" /\ generation = candidate.generation
  THEN candidate.image.text ELSE text

\* Only a verified candidate is adopted.  Were the nested transition refused,
\* the exception would leave transitioning_ set for good.
Adopt ==
  LET settled == Verified(state)
      next == FollowUp(settled)
  IN /\ committed' = candidate.image /\ candidate' = None
     /\ unlocked' = IF candidate.removes THEN None
                    ELSE Decoded(candidate.image, unlocked.slot)
     /\ text' = AdoptedText
     /\ activity' = IF candidate.change = "attempt"
                    THEN [operation |-> state.operation, kind |-> state.kind,
                          done |-> "unknown"]
                    ELSE IF state.kind = "activity_outcome" THEN None ELSE activity
     /\ session' = IF candidate.change = "lease" THEN candidate.session ELSE session
     /\ IF next.may
        THEN /\ state' = next.state /\ wedged' = FALSE
             /\ HostDoes(VerifiedEffects(state) \cup next.effects)
        ELSE state' = settled /\ wedged' = TRUE /\ UNCHANGED duties
     /\ UNCHANGED <<target, generation, outside, raised>>

Reject ==
  /\ state' = Rejected(state) /\ HostDoes(RejectedEffects(state))
  /\ candidate' = None
  /\ UNCHANGED <<document, activity, session, wedged, outside, raised>>

\* The host reports what it knows of the candidate it published.
AcknowledgeVerified ==
  ~wedged /\ candidate # None /\ state.phase = "publishing" /\ written /\ Adopt
AcknowledgeFailure ==
  ~wedged /\ candidate # None /\ state.phase = "publishing" /\ ~written /\ Reject
\* Mutant: an ambiguous result counts as a failure.
AmbiguousIsFailure ==
  ~wedged /\ candidate # None /\ state.phase = "publishing" /\ Reject
AcknowledgeAmbiguous ==
  /\ ~wedged /\ candidate # None /\ state.phase = "publishing"
  /\ state' = Ambiguous(state) /\ HostDoes(AmbiguousEffects)
  /\ UNCHANGED <<document, operations, outside, raised>>
ResolvePublished ==
  ~wedged /\ candidate # None /\ state.phase = "recovery_required" /\ written /\ Adopt
ResolveUnpublished ==
  ~wedged /\ candidate # None /\ state.phase = "recovery_required" /\ ~written /\ Reject

Access ==
  \/ OpenDocument \/ \E s \in Slots : UnlockDocument(s)
  \/ LockContainer \/ CloseContainer \/ ShowText
  \/ /\ committed # None
     /\ \E i \in ForeignImages, s \in Slots, same \in BOOLEAN :
          ApplyTargetDocument(i, s, same)
  \/ \E r \in {"conflict", "target_replaced"} : RaiseAttention(r)
Prepare ==
  \/ ReleaseEdit \/ ConfirmEditLease \/ \E t \in Texts : SubmitContent(t)
  \/ \E r \in BOOLEAN : PrepareSave(r)
  \/ \E t \in Texts : PrepareMerge(t)
  \/ PrepareDiscard \/ PrepareCompaction
  \/ \E s \in OwnSessions : AcquireLease(s)
  \/ RenewLease \/ ReleaseLease
  \/ \E s \in OwnSessions, stale \in BOOLEAN : TakeOverLease(s, stale)
PrepareEvents ==
  \/ ChangeOwnSlot \/ ClaimInvitation
  \/ \E s \in Slots, r \in Grants : AddInvitation(s, r) \/ UpdatePermissions(s, r)
  \/ \E s \in Slots : RemoveSlot(s)
  \/ \E k \in Attempts : PrepareAttempt(k)
  \/ \E b \in BOOLEAN : CompleteActivity(b)
  \/ \E k \in Attempts, b \in BOOLEAN : RestoreActivity(k, b)
  \/ PrepareOutcome
Report ==
  \/ WriteCandidate \/ AcknowledgeVerified \/ AcknowledgeFailure
  \/ AcknowledgeAmbiguous \/ ResolvePublished \/ ResolveUnpublished

Next == Access \/ Prepare \/ PrepareEvents \/ Report
Spec == Init /\ [][Next]_vars

-----------------------------------------------------------------------------
(* Properties *)

\* Editing always has its authority: the container is open and unlocked, the
\* slot may edit and has claimed its invitation, and the lease is held; and a
\* save or compaction in flight is still that session's (container_state.cpp).
EditingAuthorized ==
  /\ state.editing =>
       /\ state.open /\ state.unlocked /\ "edit" \in state.rights
       /\ state.lease = "held" /\ unlocked # None /\ ~unlocked.invited
  /\ candidate # None /\ candidate.change \in {"save", "discard", "compaction"} =>
       state.editing

\* The retained candidate, the phase and the pending activity agree: exactly
\* one publication, its operation the candidate's, no undecided attention over
\* it, and an attempt is remembered until its outcome is recorded.
OnePublication ==
  /\ candidate # None <=> state.phase \in {"publishing", "recovery_required"}
  /\ candidate # None => candidate.operation = state.operation
  /\ state.phase # "idle" => state.attention = "none" /\ state.overlay = None
  /\ activity # None <=>
       \/ state.phase \in {"awaiting_host_action", "outcome_pending"}
       \/ state.phase # "idle" /\ state.kind = "activity_outcome"

\* The transition that follows an adopted candidate is never refused, so the
\* container is never left in the middle of a transition (install_transition).
NeverWedged == ~wedged

\* A host that does exactly what the effects ask runs the heartbeat just while
\* the session edits, and shows no text of a locked or closed container.
HostInStep == heartbeat = state.editing /\ (display => state.open /\ state.unlocked)

\* Without an unresolved candidate the confirmed image is the target's, unless
\* another client's target was observed; with one, the host still journals it.
ConfirmedIsTarget ==
  /\ state.open /\ candidate = None /\ target = None => committed = disk
  /\ candidate # None => journal = "candidate" /\ (~written => committed = disk)

\* Once a decision has been raised nothing is published before the container
\* is closed, whatever a later target or password changes (RaiseAttention).
RaisedBlocks == raised => candidate = None /\ activity = None

\* A known outcome of an external action stays in the host's journal until its
\* event is confirmed, and closing the container leaves it there by itself.
OutcomeJournaled ==
  [][activity # None /\ activity.done # "unknown" =>
       IF state'.open
       THEN journal' # "nothing" \/ committed'.attempt = None
       ELSE journal' = "outcome"]_vars

\* Adopting a candidate, a discard included, keeps text submitted after it.
NewerTextSurvives ==
  [][candidate # None /\ candidate' = None /\ state'.open
       /\ generation # candidate.generation => text' = text]_vars
=============================================================================
