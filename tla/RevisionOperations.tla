------------------------- MODULE RevisionOperations -------------------------
(* The operations of RevisionGraph: each computes the graph it will encode;  *)
(* the caller decodes it (Valid). `who` is the session that signs a record   *)
(* and `id` the digest it mints.                                             *)
EXTENDS RevisionGraph

Slot(id, role, rights, mustChange) ==
  [id |-> id, role |-> role, rights |-> rights, mustChange |-> mustChange]
HasSlot(slots, id) == \E i \in DOMAIN slots : slots[i].id = id
SlotIndex(slots, id) == CHOOSE i \in DOMAIN slots : slots[i].id = id

Immutable(kind, previous, parent, sources, who, text, body, event) ==
  [kind |-> kind, previous |-> previous, parent |-> parent, sources |-> sources,
   who |-> who, text |-> text, body |-> body, event |-> event]

\* create_baseline
Baseline(slots, who, id, text) ==
  [slots |-> slots, head |-> id, contentHead |-> id,
   records |-> <<Record(id, "full", text,
     Immutable("baseline", None, None, {}, who, text, text, None))>>]

-----------------------------------------------------------------------------
(* Questions *)

\* The text of a revision; an event has the text of the content before it.
Reconstruct(graph, id) ==
  LET i == Position(graph.records, id) IN
  IF id \notin Ids(graph.records) \/ Foreign(graph.records[i]) THEN None
  ELSE TextAfter(graph.records)[i]
HeadText(graph) == Reconstruct(graph, graph.contentHead)

\* Mutant: only content counts as a head of the target's past.
AssessByContent(own, target) ==
  IF own.head = target.head THEN "unchanged"
  ELSE IF own.head \in Ids(CanonicalContent(target.records)) THEN "advanced"
  ELSE IF target.head \in Ids(own.records) THEN "rollback"
  ELSE IF Ids(Canonical(own.records)) \cap Ids(Canonical(target.records)) # {}
  THEN "divergent" ELSE "unrelated"
\* assess_target: how a target stands to one's own head.
Assess(own, target) ==
  IF own.head = target.head THEN "unchanged"
  ELSE IF own.head \in Ids(Canonical(target.records)) THEN "advanced"
  ELSE IF target.head \in Ids(own.records) THEN "rollback"
  ELSE IF Ids(Canonical(own.records)) \cap Ids(Canonical(target.records)) # {}
  THEN "divergent" ELSE "unrelated"

-----------------------------------------------------------------------------
(* Saving *)

\* Mutant: saved content at the tail is replaced whether provisional or not.
AlwaysReplaced(graph) ==
  IF Last(graph.records).imm.parent # None
  THEN [graph EXCEPT !.records = Front(@),
                     !.head = Last(graph.records).imm.previous,
                     !.contentHead = Last(graph.records).imm.parent]
  ELSE graph
\* A provisional tail is replaced, never built upon.
Sealed(graph) ==
  IF Provisional(graph)
  THEN [graph EXCEPT !.records = Front(@),
                     !.head = Last(graph.records).imm.previous,
                     !.contentHead = Last(graph.records).imm.parent]
  ELSE graph
AppendRecord(graph, r) ==
  [graph EXCEPT !.records = Append(@, r), !.head = r.id,
                !.contentHead = IF IsContent(r) THEN r.id ELSE @]

MayDiscard(graph) == Provisional(graph)
Discarded(graph) == Sealed(graph)

\* A seal of the same text by the same session in the same millisecond keeps
\* the provisional record itself.
Resealable(graph, who, text) ==
  /\ Provisional(graph)
  /\ Last(graph.records).imm.text = text /\ Last(graph.records).imm.who = who
Resealed(graph) ==
  [graph EXCEPT !.records[Len(graph.records)].provisional = FALSE]

Saved(graph, who, id, text, regular) ==
  LET base == Sealed(graph)
      body == FullInsert(text)
      imm == Immutable("content", base.head, base.contentHead, {}, who, text,
                       body, None)
  IN AppendRecord(base, [Record(id, "delta", body, imm)
                           EXCEPT !.provisional = regular])

-----------------------------------------------------------------------------
(* Merging one's own graph with the target's *)

\* The last content both lines hold.
MergeBase(own, target) ==
  LET line == Ids(Canonical(own.records))
      shared == Only(target.records, {r \in ToSet(target.records) :
                                        ~Foreign(r) /\ IsContent(r) /\ r.id \in line})
  IN IF shared = <<>> THEN None ELSE Last(shared).id

BaseAvailable(own, target) ==
  LET base == MergeBase(own, target) IN
  /\ base # None
  /\ Reconstruct(own, base) # None \/ Reconstruct(target, base) # None

MayMerge(own, target, slot) ==
  /\ ~Provisional(own) /\ ~Provisional(target)
  /\ HasSlot(target.slots, slot)
  /\ LET actor == target.slots[SlotIndex(target.slots, slot)]
     IN "edit" \in actor.rights /\ ~actor.mustChange
  /\ Assess(own, target) = "divergent"
  /\ BaseAvailable(own, target) /\ HeadText(own) # None

\* The resolved text continues one's own line; what only the target knows is
\* kept without its bodies; the target's members prevail.
Merged(own, target, who, id, text) ==
  LET unknown == Only(target.records,
                      {r \in ToSet(target.records) : r.id \notin Ids(own.records)})
      import(r) == [Record(r.id, "foreign", None, r.imm) EXCEPT !.resolvedBy = id]
      body == Splice(HeadText(own), text)
      imm == Immutable("content", own.head, own.contentHead, {target.head}, who,
                       text, body, None)
  IN AppendRecord(
       [own EXCEPT !.slots = target.slots,
                   !.records = @ \o [i \in DOMAIN unknown |-> import(unknown[i])]],
       Record(id, "delta", body, imm))

-----------------------------------------------------------------------------
(* Events *)

AppendEvent(graph, slots, who, id, event) ==
  AppendRecord([graph EXCEPT !.slots = slots],
    Record(id, "event", None,
      Immutable("event", graph.head, None, {}, who,
                Last(graph.records).imm.text, None, event)))
MayAppendEvent(graph) == ~Provisional(graph)

\* Mutant: the cutoff may lie before the texts there are.
NominalCutoff(graph, retain) ==
  LET content == CanonicalContent(graph.records)
  IN IF retain >= Len(content) - 1 THEN 1 ELSE Len(content) - retain
\* The content revision a compaction keeps in full: all but the last `retain`
\* deltas go, but never further back than there is text.
CompactionCutoff(graph, retain) ==
  LET content == CanonicalContent(graph.records)
      available == {k \in DOMAIN content : Reconstruct(graph, content[k].id) # None}
      nominal == IF retain >= Len(content) - 1 THEN 1 ELSE Len(content) - retain
  IN Max({nominal, Min(available)})

MayCompact(graph, slot) ==
  /\ ~Provisional(graph) /\ HasSlot(graph.slots, slot)
  /\ LET actor == graph.slots[SlotIndex(graph.slots, slot)]
     IN actor.rights = Rights /\ ~actor.mustChange
Compacted(graph, retain, who, id) ==
  LET content == CanonicalContent(graph.records)
      k == CompactionCutoff(graph, retain)
      cutoff == Position(graph.records, content[k].id)
      stored(i) ==
        LET r == graph.records[i] IN
        IF Foreign(r) \/ ~IsContent(r) \/ i > cutoff THEN r
        ELSE IF i = cutoff
        THEN [r EXCEPT !.storage = "checkpoint", !.body = Reconstruct(graph, r.id)]
        ELSE [r EXCEPT !.storage = "pruned", !.body = None]
  IN AppendEvent(
       [graph EXCEPT !.records = [i \in DOMAIN @ |-> stored(i)]],
       graph.slots, who, id,
       [type |-> "compaction", cutoff |-> content[k].id,
        retained |-> Len(content) - k])
=============================================================================
