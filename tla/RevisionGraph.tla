--------------------------- MODULE RevisionGraph ---------------------------
(* The decrypted history of a document (revision_graph.cpp): one canonical   *)
(* line of content and events, and the metadata of the records that merges   *)
(* brought in. An operation computes a new graph from an old one and decodes *)
(* it again; Valid is what decoding requires.                                *)
(*                                                                           *)
(* A digest is a name only its author mints, so equal names mean equal       *)
(* immutable parts; a content hash is the text itself; a text is a sequence. *)
EXTENDS Integers, SequencesExt, FiniteSetsExt

CONSTANTS
  None,        \* an absent optional
  Broken,      \* a text no delta can produce
  MaxEntries   \* RevisionLimits::max_collection_entries, 1024 in the code

Rights == {"edit", "add", "remove"}

-----------------------------------------------------------------------------
(* Records *)

Insert(text) == [insert |-> TRUE, text |-> text]
Copy(start, count) == [insert |-> FALSE, start |-> start, count |-> count]
FullInsert(text) == IF text = <<>> THEN <<>> ELSE <<Insert(text)>>

CommonPrefix(s, t) ==
  Max({n \in 0..Min({Len(s), Len(t)}) : SubSeq(s, 1, n) = SubSeq(t, 1, n)})
\* The delta of a merge: what both texts share at either end is copied.
Splice(from, to) ==
  LET prefix == CommonPrefix(from, to)
      rest(s) == SubSeq(s, prefix + 1, Len(s))
      suffix == CommonPrefix(Reverse(rest(from)), Reverse(rest(to)))
      middle == SubSeq(to, prefix + 1, Len(to) - suffix)
  IN (IF prefix = 0 THEN <<>> ELSE <<Copy(0, prefix)>>)
     \o FullInsert(middle)
     \o (IF suffix = 0 THEN <<>> ELSE <<Copy(Len(from) - suffix, suffix)>>)

InRange(segment, source) ==
  segment.insert \/ segment.start + segment.count <= Len(source)
ApplyDelta(delta, source) ==
  IF \A i \in DOMAIN delta : InRange(delta[i], source)
  THEN FlattenSeq([i \in DOMAIN delta |->
         IF delta[i].insert THEN delta[i].text
         ELSE SubSeq(source, delta[i].start + 1, delta[i].start + delta[i].count)])
  ELSE Broken

\* storage says what is left of the body; imm is what the digest covers.
Record(id, storage, body, imm) ==
  [id |-> id, storage |-> storage, body |-> body, imm |-> imm,
   provisional |-> FALSE, resolvedBy |-> None]

Foreign(r) == r.storage = "foreign"
IsContent(r) == r.imm.kind # "event"
Ids(records) == {records[i].id : i \in DOMAIN records}
Links(r) == ({r.imm.previous, r.imm.parent} \ {None}) \cup r.imm.sources
Position(records, id) == CHOOSE i \in DOMAIN records : records[i].id = id
\* Those of the records that are in S, in their order.
Only(records, S) ==
  LET kept[n \in 0..Len(records)] ==
        IF n = 0 THEN <<>>
        ELSE IF records[n] \in S THEN Append(kept[n - 1], records[n])
        ELSE kept[n - 1]
  IN kept[Len(records)]
Canonical(records) == Only(records, {r \in ToSet(records) : ~Foreign(r)})
CanonicalContent(records) ==
  Only(records, {r \in ToSet(records) : ~Foreign(r) /\ IsContent(r)})
Provisional(graph) == Last(graph.records).provisional

\* What the immutable part of each kind holds, and which bodies it may have.
WellFormed(r) ==
  /\ r.imm.kind \in {"baseline", "content", "event"}
  /\ CASE r.imm.kind = "baseline" ->
            /\ r.imm.previous = None /\ r.imm.parent = None /\ r.imm.sources = {}
            /\ r.imm.body # None /\ r.imm.event = None
            /\ r.storage \in {"full", "checkpoint", "pruned", "foreign"}
       [] r.imm.kind = "content" ->
            /\ r.imm.previous # None /\ r.imm.parent # None
            /\ r.imm.body # None /\ r.imm.event = None
            /\ r.storage \in {"delta", "checkpoint", "pruned", "foreign"}
       [] r.imm.kind = "event" ->
            /\ r.imm.previous # None /\ r.imm.parent = None /\ r.imm.sources = {}
            /\ r.imm.body = None /\ r.imm.event # None
            /\ r.storage \in {"event", "foreign"}
  /\ (r.body # None) = (r.storage \in {"full", "delta", "checkpoint"})
  /\ r.storage \in {"full", "delta"} => r.body = r.imm.body
  /\ Foreign(r) = (r.resolvedBy # None)
  /\ r.provisional => r.imm.kind = "content" /\ ~Foreign(r)

ValidSlots(slots) ==
  /\ Len(slots) \in 1..9
  /\ \A i, j \in DOMAIN slots : slots[i].id = slots[j].id => i = j
  /\ \A i \in DOMAIN slots :
       /\ (i = 1) = (slots[i].role = "owner")
       /\ slots[i].role = "recovery" => i = Len(slots)
       /\ slots[i].role # "ordinary" =>
            slots[i].rights = Rights /\ ~slots[i].mustChange

-----------------------------------------------------------------------------
(* Validation *)

\* Every link names an earlier record, and no record appears twice.
LinksBackward(records) ==
  \A i \in DOMAIN records :
    LET earlier == Ids(SubSeq(records, 1, i - 1))
    IN Links(records[i]) \subseteq earlier /\ records[i].id \notin earlier

\* The canonical records form one line, each naming the last; content names
\* the content before it, an event repeats its text.
OneLine(graph) ==
  LET line == Canonical(graph.records)
      record(id) == graph.records[Position(graph.records, id)]
  IN
  /\ line # <<>> /\ line[1].imm.kind = "baseline"
  /\ \A k \in 2..Len(line) :
       LET r == line[k]
           content == Last(CanonicalContent(SubSeq(line, 1, k - 1)))
       IN
       /\ r.imm.kind # "baseline" /\ r.imm.previous = line[k - 1].id
       /\ IF IsContent(r)
          THEN /\ r.imm.parent = content.id
               /\ \A s \in r.imm.sources : record(s).resolvedBy = r.id
          ELSE r.imm.text = content.imm.text
       /\ r.provisional => r = Last(graph.records)
  /\ graph.head = Last(line).id
  /\ graph.contentHead = Last(CanonicalContent(line)).id

\* A foreign record belongs to a later canonical merge.
MergesResolve(records) ==
  \A i \in DOMAIN records : Foreign(records[i]) =>
    /\ records[i].imm.kind # "baseline"
    /\ \E j \in i + 1..Len(records) :
         /\ records[j].id = records[i].resolvedBy
         /\ ~Foreign(records[j]) /\ records[j].imm.sources # {}

\* What a merge imported is a closed path from its sources back to the
\* records it shares with the line.
ImportsClosed(records) ==
  \A m \in {i \in DOMAIN records :
              ~Foreign(records[i]) /\ records[i].imm.sources # {}} :
    LET merge == records[m]
        own == {records[i] : i \in {j \in DOMAIN records :
                                      records[j].resolvedBy = merge.id}}
        reached[n \in 0..Cardinality(own)] ==
          IF n = 0 THEN merge.imm.sources
          ELSE reached[n - 1]
               \cup UNION {Links(r) : r \in {o \in own : o.id \in reached[n - 1]}}
        all == reached[Cardinality(own)]
        owned == {r.id : r \in own}
    IN
    /\ owned \subseteq all /\ all \ owned # {}
    /\ \A r \in own : merge.imm.sources \cap {r.imm.previous, r.imm.parent} = {}

\* The text after each record: carried by events and foreign records, lost at
\* a pruned one, restored by a checkpoint.
TextAfter(records) ==
  LET text[i \in 0..Len(records)] ==
        IF i = 0 THEN None
        ELSE LET r == records[i] IN
             CASE Foreign(r) \/ ~IsContent(r) -> text[i - 1]
               [] r.storage = "pruned" -> None
               [] r.storage \in {"full", "checkpoint"} -> r.body
               [] OTHER -> IF text[i - 1] \in {None, Broken} THEN Broken
                           ELSE ApplyDelta(r.body, text[i - 1])
  IN text

TextsAgree(records) ==
  LET text == TextAfter(records) IN
  /\ text[Len(records)] # None
  /\ \A i \in DOMAIN records :
       ~Foreign(records[i]) /\ IsContent(records[i]) /\ text[i] # None =>
         text[i] = records[i].imm.text

IsCompaction(r) == ~Foreign(r) /\ r.imm.kind = "event" /\ r.imm.event.type = "compaction"
\* Cutoffs never move back, count the content kept, and the last one is a
\* checkpoint with nothing before it.
CompactionsAgree(records) ==
  LET events == {i \in DOMAIN records : IsCompaction(records[i])}
      cut(e) == Position(records, records[e].imm.event.cutoff)
      kept(i) == ~Foreign(records[i]) /\ records[i].imm.kind = "content"
  IN
  /\ \A e \in events :
       /\ records[e].imm.event.cutoff \in Ids(SubSeq(records, 1, e - 1))
       /\ ~Foreign(records[cut(e)]) /\ IsContent(records[cut(e)])
       /\ records[e].imm.event.retained
            = Cardinality({i \in cut(e) + 1..e - 1 : kept(i)})
  /\ \A d, e \in events : d < e => cut(d) <= cut(e)
  /\ events # {} =>
       LET last == cut(Max(events)) IN
       /\ records[last].storage = "checkpoint"
       /\ \A i \in 1..last - 1 : ~Foreign(records[i]) /\ IsContent(records[i]) =>
            records[i].storage = "pruned"

Fits(graph) == Len(graph.records) <= MaxEntries
Consistent(graph) ==
  /\ ValidSlots(graph.slots)
  /\ \A i \in DOMAIN graph.records : WellFormed(graph.records[i])
  /\ LinksBackward(graph.records) /\ OneLine(graph)
  /\ MergesResolve(graph.records) /\ ImportsClosed(graph.records)
  /\ TextsAgree(graph.records) /\ CompactionsAgree(graph.records)
\* RevisionGraph::decode succeeds.
Valid(graph) == Fits(graph) /\ Consistent(graph)
=============================================================================
