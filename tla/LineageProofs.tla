--------------------------- MODULE LineageProofs ---------------------------
(***************************************************************************)
(* What assess_target says of a replica is so (LineageSound), and no text  *)
(* is lost (TextsKept), for all members, texts, limits and candidates.     *)
(*                                                                         *)
(* Beside IInv stands LineageInv: every document is Lineal (its links lead *)
(* back, its head is its last record, and its records are exactly what the *)
(* head reaches) and Rooted (it keeps the sealed baseline), and the target *)
(* Continues every replica held (it has all the replica's sealed parts).   *)
(* Then a head found in the target brings all it reaches (HeadBringsAll),  *)
(* the same records have the same head since nothing links to the last     *)
(* (SameRecordsSameHead), and no replica is unrelated.                     *)
(*                                                                         *)
(* The second half is about the texts (TextsKept): TextsInv says that only *)
(* a pruned revision lacks its text (Worded) and that every candidate      *)
(* keeps the texts of the replica it was made over (KeepsTexts).           *)
(***************************************************************************)
EXTENDS DocumentHistoryProofs, FiniteSetTheorems

(* The links of a history lead back, from records with names of their own. *)
Backward(records) ==
  /\ \A i, j \in 1 .. Len(records) : records[i].id = records[j].id => i = j
  /\ \A i \in 1 .. Len(records) : \A l \in Links(records[i]) :
       \E j \in 1 .. i - 1 : records[j].id = l

(* A set of names that has the head's and those its records link to. *)
Absorbs(S, graph) ==
  /\ graph.head \in S
  /\ \A r \in ToSet(graph.records) : r.id \in S => Links(r) \subseteq S

(* A history is what its head reaches. *)
Lineal(graph) ==
  /\ Backward(graph.records)
  /\ graph.head = Last(graph.records).id
  /\ \A r \in ToSet(graph.records) : Foreign(r) => r.imm.kind # "baseline"
  /\ \A S \in SUBSET Ids(graph.records) :
       Absorbs(S, graph) => Ids(graph.records) \subseteq S

-----------------------------------------------------------------------------
(* A history that decodes *)

(* The names of records are those of the elements of their list. *)
LEMMA IdsAre ==
  ASSUME NEW records, records \in Seq(ToSet(records))
  PROVE  /\ Ids(records) = {r.id : r \in ToSet(records)}
         /\ \A i \in 1 .. Len(records) :
              records[i] \in ToSet(records) /\ records[i].id \in Ids(records)
<1>1. DOMAIN records = 1 .. Len(records)
  OBVIOUS
<1>. QED BY <1>1 DEF Ids, ToSet

(* The names before a place. *)
LEMMA EarlierIds ==
  ASSUME NEW V, NEW records \in Seq(V), NEW i \in 1 .. Len(records)
  PROVE  Ids(SubSeq(records, 1, i - 1)) = {records[j].id : j \in 1 .. i - 1}
<1>. DEFINE n == Len(records)
            before == SubSeq(records, 1, i - 1)
<1>1. /\ n \in Nat /\ i - 1 \in 0 .. n /\ i \in 1 .. n
      /\ \A j \in 1 .. i - 1 : j \in 1 .. n /\ records[j] \in V
  OBVIOUS
<1>. HIDE DEF n
<1>2. /\ before \in Seq(V) /\ Len(before) = i - 1
      /\ \A j \in 1 .. i - 1 : before[j] = records[j]
  <2>. DEFINE m == i - 1
  <2>1. m \in Nat /\ 1 \in Nat /\ \A j \in 1 .. m : records[j] \in V
    BY <1>1
  <2>. HIDE DEF m
  <2>2. /\ SubSeq(records, 1, m) \in Seq(V)
        /\ Len(SubSeq(records, 1, m)) = IF 1 <= m THEN m - 1 + 1 ELSE 0
        /\ \A k \in 1 .. m - 1 + 1 : SubSeq(records, 1, m)[k] = records[1 + k - 1]
    BY <2>1, SubSeqProperties
  <2>3. /\ (IF 1 <= m THEN m - 1 + 1 ELSE 0) = m /\ m - 1 + 1 = m
        /\ \A k \in 1 .. m : 1 + k - 1 = k
    BY <2>1
  <2>. QED BY <2>2, <2>3 DEF m
<1>3. DOMAIN before = 1 .. i - 1
  BY <1>2
<1>. HIDE DEF before
<1>. QED BY <1>2, <1>3 DEF Ids, before

(* What LinksBackward checks. *)
LEMMA LinksLeadBack ==
  ASSUME NEW records, records \in Seq(ToSet(records)), LinksBackward(records)
  PROVE  Backward(records)
<1>. DEFINE n == Len(records)
            earlier(i) == {records[j].id : j \in 1 .. i - 1}
<1>1. n \in Nat /\ DOMAIN records = 1 .. n
  OBVIOUS
<1>2. \A i \in 1 .. n : Ids(SubSeq(records, 1, i - 1)) = earlier(i)
  BY EarlierIds
<1>3. \A i \in 1 .. n : Links(records[i]) \subseteq earlier(i) /\ records[i].id \notin earlier(i)
  BY <1>1, <1>2 DEF LinksBackward
<1>4. ASSUME NEW i \in 1 .. n, NEW j \in 1 .. n, records[i].id = records[j].id
      PROVE  i = j
  <2>1. CASE i < j
    <3>1. i \in 1 .. j - 1
      BY <1>1, <2>1
    <3>. QED BY <1>3, <1>4, <3>1
  <2>2. CASE j < i
    <3>1. j \in 1 .. i - 1
      BY <1>1, <2>2
    <3>. QED BY <1>3, <1>4, <3>1
  <2>3. i < j \/ j < i \/ i = j
    BY <1>1
  <2>. QED BY <2>1, <2>2, <2>3
<1>5. ASSUME NEW i \in 1 .. n, NEW l \in Links(records[i])
      PROVE  \E j \in 1 .. i - 1 : records[j].id = l
  <2>1. l \in earlier(i)
    BY <1>3
  <2>. QED BY <2>1
<1>. QED BY <1>4, <1>5 DEF Backward

(* The end of a line is the last of what it was selected from, if that is *)
(* selected.                                                              *)
LEMMA LineEnds ==
  ASSUME NEW records, records \in Seq(ToSet(records)), records # <<>>,
         NEW S, records[Len(records)] \in S
  PROVE  LET line == Only(records, S)
         IN line # <<>> /\ Last(line) = records[Len(records)]
<1>. DEFINE line == Only(records, S)
            n == Len(records)
<1>1. line \in Seq(ToSet(records) \cap S)
  BY OnlySelects
<1>2. PICK at : Selects(line, records, S, n, at)
  BY OnlySelects
<1>3. n \in Nat \ {0} /\ n \in 1 .. n
  BY LastOfRecords
<1>4. PICK k \in 1 .. Len(line) : at[k] = n
  BY <1>2, <1>3 DEF Selects
<1>. HIDE DEF line
<1>. DEFINE m == Len(line)
<1>5. m \in Nat /\ m \in 1 .. m
  BY <1>1, <1>4
<1>6. at[m] \in 1 .. n
  BY <1>2, <1>5 DEF Selects
<1>7. k = m
  <2>1. k < m => at[k] < at[m]
    BY <1>2, <1>5 DEF Selects
  <2>. HIDE DEF m, n
  <2>. QED BY <1>3, <1>4, <1>5, <1>6, <2>1 DEF m
<1>8. line[m] = records[n]
  BY <1>2, <1>4, <1>5, <1>7 DEF Selects
<1>9. line # <<>>
  BY <1>1, <1>5
<1>. QED BY <1>8, <1>9 DEF Last, line

(* A list whose last element is in a set, like the one before each that is. *)
LEMMA Descends ==
  ASSUME NEW n \in Nat \ {0}, NEW line, NEW S, line[n].id \in S,
         \A k \in 2 .. n : line[k].id \in S => line[k - 1].id \in S
  PROVE  \A k \in 1 .. n : line[k].id \in S
<1>. DEFINE P == {k \in Nat : k < n => line[n - k].id \in S}
<1>1. 0 \in P
  OBVIOUS
<1>2. ASSUME NEW k \in Nat, k \in P PROVE k + 1 \in P
  <2>. SUFFICES ASSUME k + 1 < n PROVE line[n - (k + 1)].id \in S
    OBVIOUS
  <2>1. n - k \in 2 .. n /\ (n - k) - 1 = n - (k + 1) /\ line[n - k].id \in S
    BY <1>2
  <2>. QED BY <2>1
<1>3. Nat \subseteq P
  <2>. HIDE DEF P
  <2>. QED BY <1>1, <1>2, Induction
<1>4. ASSUME NEW k \in 1 .. n PROVE line[k].id \in S
  <2>1. n - k \in Nat /\ n - k < n /\ n - (n - k) = k
    OBVIOUS
  <2>. QED BY <1>3, <2>1
<1>. QED BY <1>4

(* A record that is no baseline names the one before it. *)
LEMMA FollowsAnother ==
  ASSUME NEW r, WellFormed(r), r.imm.kind # "baseline"
  PROVE  r.imm.previous \in Links(r)
<1>1. r.imm.previous # None
  BY DEF WellFormed
<1>. QED BY <1>1 DEF Links

(* The records of the line are reached from the head, ... *)
LEMMA LineIsReached ==
  ASSUME NEW graph, graph.records \in Seq(ToSet(graph.records)),
         \A r \in ToSet(graph.records) : WellFormed(r),
         OneLine(graph), NEW S, Absorbs(S, graph)
  PROVE  \A r \in ToSet(graph.records) : ~Foreign(r) => r.id \in S
<1>. DEFINE records == graph.records
            own == {r \in ToSet(records) : ~Foreign(r)}
            line == Canonical(records)
            n == Len(line)
<1>1. line \in Seq(ToSet(records) \cap own) /\ ToSet(line) = ToSet(records) \cap own
  BY OnlyRange DEF Canonical
<1>2. /\ line # <<>> /\ graph.head = Last(line).id
      /\ \A k \in 2 .. n : line[k].imm.kind # "baseline"
                           /\ line[k].imm.previous = line[k - 1].id
  BY DEF OneLine
<1>. HIDE DEF line
<1>3. n \in Nat \ {0} /\ line[n].id \in S
      /\ \A k \in 1 .. n : line[k] \in ToSet(records)
  BY <1>1, <1>2 DEF Last, Absorbs
<1>4. ASSUME NEW k \in 2 .. n, line[k].id \in S PROVE line[k - 1].id \in S
  <2>1. k \in 1 .. n
    OBVIOUS
  <2>2. line[k].imm.previous \in Links(line[k])
    BY <1>2, <1>3, <2>1, FollowsAnother
  <2>3. Links(line[k]) \subseteq S
    BY <1>3, <1>4, <2>1 DEF Absorbs
  <2>. QED BY <1>2, <2>2, <2>3
<1>. HIDE DEF n
<1>5. \A k \in 1 .. n : line[k].id \in S
  BY <1>3, <1>4, Descends
<1>6. ASSUME NEW r \in ToSet(records), ~Foreign(r) PROVE r.id \in S
  <2>1. r \in ToSet(line)
    BY <1>1, <1>6
  <2>2. PICK k \in 1 .. n : r = line[k]
    BY <1>1, <2>1 DEF ToSet, n
  <2>. QED BY <1>5, <2>2
<1>. QED BY <1>6

(* What a merge reaches through the records it took in. *)
Reaching(sources, own, n) ==
  LET reached[i \in 0 .. n] ==
        IF i = 0 THEN sources
        ELSE reached[i - 1]
             \cup UNION {Links(r) : r \in {o \in own : o.id \in reached[i - 1]}}
  IN reached[n]

(* ... from a set that has its sources and the links of its records. *)
LEMMA ReachingStays ==
  ASSUME NEW n \in Nat, NEW own, NEW S, NEW sources \in SUBSET S,
         \A o \in own : o.id \in S => Links(o) \subseteq S
  PROVE  Reaching(sources, own, n) \subseteq S
<1>. DEFINE V == SUBSET S
            More(v) == v \cup UNION {Links(r) : r \in {o \in own : o.id \in v}}
            step == [p \in (1 .. n) \X V |-> More(p[2])]
            Body(g) == [i \in 0 .. n |-> IF i = 0 THEN sources ELSE More(g[i - 1])]
<1>1. \A v \in V : More(v) \in V
  OBVIOUS
<1>2. \A i \in 1 .. n, v \in V : step[<<i, v>>] = More(v)
  OBVIOUS
<1>. HIDE DEF More
<1>3. PICK g \in [0 .. n -> V] : Follows(g, sources, step, n)
  <2>1. sources \in V /\ \A i \in 1 .. n, v \in V : step[<<i, v>>] \in V
    BY <1>1, <1>2
  <2>. HIDE DEF V, step
  <2>. QED BY <2>1, Recursion
<1>4. g[0] = sources /\ \A i \in 1 .. n : g[i] = More(g[i - 1])
  <2>. HIDE DEF step
  <2>1. ASSUME NEW i \in 1 .. n PROVE g[i] = More(g[i - 1])
    <3>1. i - 1 \in 0 .. n /\ g[i - 1] \in V
      OBVIOUS
    <3>. QED BY <1>2, <1>3, <3>1 DEF Follows
  <2>. QED BY <1>3, <2>1 DEF Follows
<1>5. g = Body(g)
  <2>1. g = [i \in 0 .. n |-> g[i]]
    OBVIOUS
  <2>2. ASSUME NEW i \in 0 .. n PROVE g[i] = Body(g)[i]
    <3>1. i = 0 \/ i \in 1 .. n
      OBVIOUS
    <3>. QED BY <1>4, <3>1
  <2>. QED BY <2>1, <2>2
<1>. DEFINE reached == CHOOSE f : f = Body(f)
<1>6. reached = Body(reached)
  <2>. HIDE DEF Body
  <2>. QED BY <1>5
<1>7. Reaching(sources, own, n) = reached[n]
  BY DEF Reaching, More
<1>8. reached[0] = sources /\ \A i \in 1 .. n : reached[i] = More(reached[i - 1])
  <2>. HIDE DEF reached
  <2>1. ASSUME NEW i \in 0 .. n PROVE reached[i] = Body(reached)[i]
    BY <1>6, Zenon
  <2>2. 0 \in 0 .. n /\ \A i \in 1 .. n : i \in 0 .. n /\ i # 0
    OBVIOUS
  <2>. QED BY <2>1, <2>2
<1>9. reached[n] \in V
  <2>. HIDE DEF reached
  <2>. DEFINE P == {i \in Nat : i <= n => reached[i] \in V}
  <2>1. 0 \in P
    BY <1>8
  <2>2. ASSUME NEW i \in Nat, i \in P PROVE i + 1 \in P
    <3>. SUFFICES ASSUME i + 1 <= n PROVE reached[i + 1] \in V
      OBVIOUS
    <3>1. i + 1 \in 1 .. n /\ (i + 1) - 1 = i /\ reached[i] \in V
      BY <2>2
    <3>2. reached[i + 1] = More(reached[i])
      BY <1>8, <3>1
    <3>. QED BY <1>1, <3>1, <3>2
  <2>3. Nat \subseteq P
    <3>. HIDE DEF P
    <3>. QED BY <2>1, <2>2, Induction
  <2>. QED BY <2>3
<1>. QED BY <1>7, <1>9

(* The records of a list are finitely many. *)
LEMMA ListsAreFinite ==
  ASSUME NEW records, records \in Seq(ToSet(records)), NEW own \in SUBSET ToSet(records)
  PROVE  Cardinality(own) \in Nat
<1>1. IsFiniteSet(ToSet(records))
  <2>1. \A r \in ToSet(records) : \E i \in 1 .. Len(records) : records[i] = r
    BY DEF ToSet
  <2>. QED BY <2>1 DEF IsFiniteSet
<1>. QED BY <1>1, FS_Subset, FS_CardinalityType

(* ... and the records merges took in are reached through the merges. *)
LEMMA ImportsAreReached ==
  ASSUME NEW graph, graph.records \in Seq(ToSet(graph.records)),
         MergesResolve(graph.records), ImportsClosed(graph.records),
         NEW S, Absorbs(S, graph),
         \A r \in ToSet(graph.records) : ~Foreign(r) => r.id \in S
  PROVE  \A r \in ToSet(graph.records) : Foreign(r) => r.id \in S
<1>. DEFINE records == graph.records
<1>. SUFFICES ASSUME NEW r \in ToSet(records), Foreign(r) PROVE r.id \in S
  OBVIOUS
<1>1. /\ DOMAIN records = 1 .. Len(records) /\ Len(records) \in Nat
      /\ \A i \in 1 .. Len(records) : records[i] \in ToSet(records)
  BY DEF ToSet
<1>2. PICK i \in 1 .. Len(records) : r = records[i]
  BY <1>1 DEF ToSet
<1>3. PICK m \in i + 1 .. Len(records) :
        /\ records[m].id = r.resolvedBy /\ ~Foreign(records[m])
        /\ records[m].imm.sources # {}
  BY <1>1, <1>2 DEF MergesResolve
<1>4. m \in 1 .. Len(records)
  BY <1>1
<1>. DEFINE merge == records[m]
            own == {records[k] : k \in {j \in DOMAIN records :
                                          records[j].resolvedBy = merge.id}}
            owned == {o.id : o \in own}
<1>5. owned \subseteq Reaching(merge.imm.sources, own, Cardinality(own))
  BY <1>1, <1>3, <1>4 DEF ImportsClosed, Reaching
<1>6. own \in SUBSET ToSet(records) /\ r \in own
  BY <1>1, <1>2, <1>3
<1>. HIDE DEF own
<1>7. Cardinality(own) \in Nat
  BY <1>6, ListsAreFinite
<1>8. merge.imm.sources \subseteq S
  <2>1. merge.id \in S /\ merge \in ToSet(records)
    BY <1>1, <1>3, <1>4
  <2>. QED BY <2>1 DEF Absorbs, Links
<1>9. \A o \in own : o.id \in S => Links(o) \subseteq S
  BY <1>6 DEF Absorbs
<1>. HIDE DEF merge
<1>. DEFINE n == Cardinality(own)
            sources == merge.imm.sources
<1>10. Reaching(sources, own, n) \subseteq S
  <2>1. n \in Nat /\ sources \in SUBSET S
    BY <1>7, <1>8
  <2>. HIDE DEF n, sources
  <2>. QED BY <1>9, <2>1, ReachingStays
<1>. QED BY <1>5, <1>6, <1>10

(* A history that decodes is what its head reaches. *)
LEMMA DecodedIsLineal ==
  ASSUME NEW graph, graph.records \in Seq(ToSet(graph.records)), graph.records # <<>>,
         Consistent(graph)
  PROVE  Lineal(graph)
<1>. DEFINE records == graph.records
            n == Len(records)
<1>1. /\ n \in Nat \ {0} /\ DOMAIN records = 1 .. n
      /\ Last(records) = records[n]
      /\ \A i \in 1 .. n : records[i] \in ToSet(records)
      /\ \A r \in ToSet(records) : \E i \in 1 .. n : r = records[i]
  BY LastOfRecords
<1>2. /\ \A r \in ToSet(records) : WellFormed(r)
      /\ LinksBackward(records) /\ OneLine(graph)
      /\ MergesResolve(records) /\ ImportsClosed(records)
  BY <1>1 DEF Consistent
<1>3. Backward(records)
  BY <1>2, LinksLeadBack
<1>4. \A r \in ToSet(records) : Foreign(r) => r.imm.kind # "baseline"
  BY <1>1, <1>2 DEF MergesResolve
<1>5. ~Foreign(records[n])
  <2>1. n \in 1 .. n /\ (n + 1) .. n = {}
    <3>. HIDE DEF n
    <3>. QED BY <1>1
  <2>2. Foreign(records[n]) => \E j \in n + 1 .. n : TRUE
    BY <1>1, <1>2, <2>1 DEF MergesResolve
  <2>. QED BY <2>1, <2>2
<1>6. graph.head = Last(records).id
  <2>. DEFINE own == {r \in ToSet(records) : ~Foreign(r)}
  <2>1. n \in 1 .. n
    BY <1>1
  <2>2. records[n] \in own
    BY <1>1, <1>5, <2>1
  <2>. HIDE DEF own
  <2>3. Last(Only(records, own)) = records[n]
    BY <2>2, LineEnds
  <2>4. graph.head = Last(Canonical(records)).id
    BY <1>2 DEF OneLine
  <2>. QED BY <1>1, <2>3, <2>4 DEF Canonical, own
<1>7. ASSUME NEW S \in SUBSET Ids(records), Absorbs(S, graph)
      PROVE  Ids(records) \subseteq S
  <2>1. \A r \in ToSet(records) : ~Foreign(r) => r.id \in S
    BY <1>2, <1>7, LineIsReached
  <2>2. \A r \in ToSet(records) : Foreign(r) => r.id \in S
    BY <1>2, <1>7, <2>1, ImportsAreReached
  <2>. QED BY <2>1, <2>2, IdsAre
<1>. QED BY <1>3, <1>4, <1>6, <1>7 DEF Lineal

-----------------------------------------------------------------------------
(* The initial documents *)

(* A list in which each record names the one before it and nothing else. *)
Chain(records, head) ==
  /\ records \in Seq(ToSet(records)) /\ records # <<>>
  /\ \A i \in 1 .. Len(records) : ~Foreign(records[i])
  /\ \A i, j \in 1 .. Len(records) : records[i].id = records[j].id => i = j
  /\ Links(records[1]) = {}
  /\ \A i \in 2 .. Len(records) : Links(records[i]) = {records[i - 1].id}
  /\ head = Last(records).id

(* The record the document was created with. *)
Rooted(graph) ==
  \E r \in ToSet(graph.records) :
    r.id = <<Owner, 0>> /\ r.imm.kind = "baseline" /\ ~r.provisional

(* A chain is what its head reaches. *)
LEMMA ChainIsLineal ==
  ASSUME NEW graph, Chain(graph.records, graph.head)
  PROVE  Lineal(graph)
<1>. DEFINE records == graph.records
            n == Len(records)
<1>1. /\ n \in Nat \ {0} /\ Last(records) = records[n]
      /\ \A i \in 1 .. n : records[i] \in ToSet(records)
      /\ \A r \in ToSet(records) : \E i \in 1 .. n : r = records[i]
  BY LastOfRecords DEF Chain
<1>2. Backward(records)
  <2>1. ASSUME NEW i \in 1 .. n, NEW l \in Links(records[i])
        PROVE  \E j \in 1 .. i - 1 : records[j].id = l
    <3>1. i # 1
      BY <2>1 DEF Chain
    <3>2. i \in 2 .. n /\ i - 1 \in 1 .. i - 1
      <4>. HIDE DEF n
      <4>. QED BY <1>1, <3>1
    <3>3. l = records[i - 1].id
      BY <2>1, <3>2 DEF Chain
    <3>. QED BY <3>2, <3>3
  <2>. QED BY <2>1 DEF Backward, Chain
<1>3. \A r \in ToSet(records) : ~Foreign(r)
  <2>1. \A i \in 1 .. n : ~Foreign(records[i])
    BY DEF Chain
  <2>. HIDE DEF n, records
  <2>. QED BY <1>1, <2>1
<1>4. ASSUME NEW S \in SUBSET Ids(records), Absorbs(S, graph)
      PROVE  Ids(records) \subseteq S
  <2>1. ASSUME NEW k \in 2 .. n, records[k].id \in S PROVE records[k - 1].id \in S
    <3>1. k \in 1 .. n
      OBVIOUS
    <3>2. Links(records[k]) \subseteq S
      BY <1>1, <1>4, <2>1, <3>1 DEF Absorbs
    <3>. QED BY <3>2 DEF Chain
  <2>2. records[n].id \in S
    BY <1>1, <1>4 DEF Absorbs, Chain
  <2>. HIDE DEF n, records
  <2>3. \A k \in 1 .. n : records[k].id \in S
    BY <1>1, <2>1, <2>2, Descends
  <2>4. records \in Seq(ToSet(records))
    BY DEF Chain, records
  <2>. QED BY <1>1, <2>3, <2>4, IdsAre
<1>. QED BY <1>2, <1>3, <1>4 DEF Lineal, Chain

(* A record at the end of a chain. *)
LEMMA ChainGrows ==
  ASSUME NEW records, NEW head, Chain(records, head),
         NEW r, Links(r) = {head}, ~Foreign(r), r.id \notin Ids(records)
  PROVE  /\ Chain(Append(records, r), r.id) /\ Len(Append(records, r)) = Len(records) + 1
         /\ Ids(Append(records, r)) = Ids(records) \cup {r.id}
<1>. DEFINE n == Len(records)
            after == Append(records, r)
<1>1. /\ n \in Nat \ {0} /\ Last(records) = records[n]
      /\ \A i \in 1 .. n : records[i] \in ToSet(records)
  BY LastOfRecords DEF Chain
<1>2. /\ records \in Seq(ToSet(records))
      /\ Ids(records) = {s.id : s \in ToSet(records)}
      /\ \A i \in 1 .. n : records[i].id \in Ids(records)
  BY IdsAre DEF Chain
<1>3. /\ after \in Seq(ToSet(after)) /\ after # <<>> /\ Len(after) = n + 1
      /\ after[n + 1] = r
      /\ \A i \in 1 .. n : after[i] = records[i]
      /\ ToSet(after) = ToSet(records) \cup {r}
  BY <1>2, OneMoreRecord
<1>4. Ids(after) = Ids(records) \cup {r.id}
  BY <1>2, <1>3, IdsAre
<1>. HIDE DEF after
<1>5. \A i \in 1 .. n + 1 : i \in 1 .. n \/ i = n + 1
  BY <1>1
<1>6. 1 \in 1 .. n /\ n \in 1 .. n /\ (n + 1) - 1 = n
  BY <1>1
<1>7. Last(after) = r
  BY <1>3 DEF Last
<1>8. \A i \in 1 .. n + 1 : ~Foreign(after[i])
  BY <1>3, <1>5 DEF Chain
<1>9. \A i, j \in 1 .. n + 1 : after[i].id = after[j].id => i = j
  BY <1>2, <1>3, <1>5 DEF Chain
<1>10. Links(after[1]) = {}
  BY <1>3, <1>6 DEF Chain
<1>11. ASSUME NEW i \in 2 .. n + 1 PROVE Links(after[i]) = {after[i - 1].id}
  <2>1. CASE i = n + 1
    BY <1>1, <1>3, <1>6, <2>1 DEF Chain
  <2>2. CASE i \in 2 .. n
    <3>1. i \in 1 .. n /\ i - 1 \in 1 .. n
      BY <1>1, <2>2
    <3>. QED BY <1>3, <2>2, <3>1 DEF Chain
  <2>3. i = n + 1 \/ i \in 2 .. n
    BY <1>1
  <2>. QED BY <2>1, <2>2, <2>3
<1>12. Chain(after, r.id)
  BY <1>3, <1>7, <1>8, <1>9, <1>10, <1>11 DEF Chain
<1>. QED BY <1>3, <1>4, <1>12 DEF after

(* An event links to the head it was made over. *)
LEMMA EventLinks ==
  ASSUME NEW id, NEW previous, previous # None, NEW who, NEW text, NEW event
  PROVE  LET r == Record(id, "event", None, Immutable("event", previous, None, {}, who,
                                                      text, None, event))
         IN r.id = id /\ Links(r) = {previous} /\ ~Foreign(r)
BY DEF Record, Immutable, Links, Foreign

(* The document as it is created has one record, the baseline. *)
LEMMA CreatedChain ==
  ASSUME NEW recovery
  PROVE  LET graph == Create(Owner, Sole(Owner), Recovery, recovery, Owner,
                             <<Owner, 0>>, Initial).graph
         IN /\ Chain(graph.records, graph.head) /\ Ids(graph.records) = {<<Owner, 0>>}
            /\ Len(graph.records) = 1 /\ graph.head = <<Owner, 0>> /\ Rooted(graph)
<1>. DEFINE graph == Create(Owner, Sole(Owner), Recovery, recovery, Owner, <<Owner, 0>>,
                            Initial).graph
            imm == Immutable("baseline", None, None, {}, Owner, Initial, Initial, None)
            r == Record(<<Owner, 0>>, "full", Initial, imm)
<1>1. graph.records = <<r>> /\ graph.head = <<Owner, 0>>
  BY DEF Create, Baseline
<1>2. /\ r.id = <<Owner, 0>> /\ Links(r) = {} /\ ~Foreign(r) /\ ~r.provisional
      /\ r.imm.kind = "baseline"
  BY DEF Record, Immutable, Links, Foreign
<1>. HIDE DEF graph, r
<1>3. /\ <<r>> \in Seq({r}) /\ Len(<<r>>) = 1 /\ <<r>>[1] = r /\ <<r>> # <<>>
      /\ ToSet(<<r>>) = {r} /\ Ids(<<r>>) = {r.id} /\ Last(<<r>>) = r
  BY DEF ToSet, Ids, Last
<1>4. Chain(<<r>>, <<Owner, 0>>)
  BY <1>2, <1>3 DEF Chain
<1>5. Rooted(graph)
  BY <1>1, <1>2, <1>3 DEF Rooted
<1>. QED BY <1>1, <1>2, <1>3, <1>4, <1>5 DEF graph

(* A change of the members of a first document adds to its chain. *)
LEMMA AmendedChain ==
  ASSUME NEW doc, IsSealed(doc.graph), Chain(doc.graph.records, doc.graph.head),
         Rooted(doc.graph), doc.graph.head # None,
         NEW change, NEW who, NEW id, id \notin Ids(doc.graph.records)
  PROVE  LET graph == Amend(doc, change, who, id).graph
         IN /\ Chain(graph.records, graph.head) /\ graph.head = id
            /\ Len(graph.records) = Len(doc.graph.records) + 1
            /\ Ids(graph.records) = Ids(doc.graph.records) \cup {id} /\ Rooted(graph)
<1>. DEFINE graph == Amend(doc, change, who, id).graph
            records == doc.graph.records
            imm == Immutable("event", doc.graph.head, None, {}, who,
                             Last(records).imm.text, None, change.event)
            r == Record(id, "event", None, imm)
<1>1. graph.records = Append(records, r) /\ graph.head = r.id
  <2>1. graph = AppendEvent(doc.graph, change.slots, who, id, change.event)
    BY DEF Amend, ReplaceSlots
  <2>. DEFINE over == [doc.graph EXCEPT !.slots = change.slots]
  <2>2. over.records = records /\ over.head = doc.graph.head /\ IsGraph(over)
    BY DEF IsSealed, IsGraph
  <2>3. graph = AppendRecord(over, r)
    BY <2>1, <2>2 DEF AppendEvent
  <2>. HIDE DEF over, r, graph
  <2>4. /\ graph.records = Append(over.records, r)
        /\ graph.head = r.id
    BY <2>2, <2>3 DEF AppendRecord, IsGraph
  <2>. QED BY <2>2, <2>4
<1>2. r.id = id /\ Links(r) = {doc.graph.head} /\ ~Foreign(r)
  BY EventLinks
<1>. HIDE DEF graph, r
<1>3. /\ Chain(Append(records, r), r.id) /\ Len(Append(records, r)) = Len(records) + 1
      /\ Ids(Append(records, r)) = Ids(records) \cup {r.id}
  BY <1>2, ChainGrows
<1>4. Rooted(graph)
  <2>1. ToSet(Append(records, r)) = ToSet(records) \cup {r}
    BY OneMoreRecord DEF Chain
  <2>. QED BY <1>1, <2>1 DEF Rooted
<1>. QED BY <1>1, <1>2, <1>3, <1>4 DEF graph

(* The document a guest shares is a chain of three records. *)
LEMMA SharedChain ==
  /\ Chain(Shared.graph.records, Shared.graph.head) /\ Rooted(Shared.graph)
  /\ Shared.graph.head = <<Guest, 0>> /\ Len(Shared.graph.records) = 3
  /\ Ids(Shared.graph.records) = {<<Owner, 0>>, <<Owner, -1>>, <<Guest, 0>>}
<1>. DEFINE created == Create(Owner, Sole(Owner), Recovery, Recovery, Owner, <<Owner, 0>>,
                              Initial)
            invite == Invite(created.graph.slots, Guest, Rights)
            invited == Amend(created, invite, Owner, <<Owner, -1>>)
            claim == Claim(invited.graph.slots, invited.graph.slots[2])
<1>1. Shared = Amend(invited, claim, Guest, <<Guest, 0>>)
  BY DEF Shared
<1>2. /\ <<Owner, -1>> # None /\ <<Owner, 0>> # None
      /\ <<Owner, 0>> # <<Owner, -1>> /\ <<Guest, 0>> # <<Owner, -1>>
      /\ <<Guest, 0>> # <<Owner, 0>>
  BY NoDocument, MembersDiffer DEF Clients
<1>3. /\ Chain(created.graph.records, created.graph.head)
      /\ Ids(created.graph.records) = {<<Owner, 0>>}
      /\ created.graph.head = <<Owner, 0>> /\ Rooted(created.graph)
      /\ Len(created.graph.records) = 1
  BY CreatedChain
<1>4. IsSealed(created.graph)
  BY CreatedIs
<1>. HIDE DEF created, invite
<1>5. IsSealed(invited.graph)
  BY <1>4, AmendedIs
<1>6. /\ Chain(invited.graph.records, invited.graph.head)
      /\ invited.graph.head = <<Owner, -1>> /\ Rooted(invited.graph)
      /\ Ids(invited.graph.records) = {<<Owner, 0>>} \cup {<<Owner, -1>>}
      /\ Len(invited.graph.records) = 2
  <2>. DEFINE id == <<Owner, -1>>
  <2>1. id \notin Ids(created.graph.records) /\ created.graph.head # None
    BY <1>2, <1>3
  <2>2. invited = Amend(created, invite, Owner, id)
    OBVIOUS
  <2>. HIDE DEF id, invited
  <2>3. LET graph == Amend(created, invite, Owner, id).graph
        IN /\ Chain(graph.records, graph.head) /\ graph.head = id
           /\ Len(graph.records) = Len(created.graph.records) + 1
           /\ Ids(graph.records) = Ids(created.graph.records) \cup {id} /\ Rooted(graph)
    BY <1>3, <1>4, <2>1, AmendedChain, Zenon
  <2>. QED BY <1>3, <2>2, <2>3 DEF id
<1>. HIDE DEF invited, claim
<1>7. <<Guest, 0>> \notin Ids(invited.graph.records) /\ invited.graph.head # None
  BY <1>2, <1>6
<1>8. /\ Chain(Shared.graph.records, Shared.graph.head)
      /\ Shared.graph.head = <<Guest, 0>> /\ Rooted(Shared.graph)
      /\ Len(Shared.graph.records) = 3
      /\ Ids(Shared.graph.records) = Ids(invited.graph.records) \cup {<<Guest, 0>>}
  <2>. DEFINE id == <<Guest, 0>>
  <2>1. id \notin Ids(invited.graph.records) /\ Shared = Amend(invited, claim, Guest, id)
    BY <1>1, <1>7
  <2>. HIDE DEF id
  <2>2. LET graph == Amend(invited, claim, Guest, id).graph
        IN /\ Chain(graph.records, graph.head) /\ graph.head = id
           /\ Len(graph.records) = Len(invited.graph.records) + 1
           /\ Ids(graph.records) = Ids(invited.graph.records) \cup {id} /\ Rooted(graph)
    BY <1>5, <1>6, <1>7, <2>1, AmendedChain, Zenon
  <2>. QED BY <1>6, <2>1, <2>2 DEF id
<1>. QED BY <1>6, <1>8

(* One list after another. *)
LEMMA Concatenated ==
  ASSUME NEW V, NEW s \in Seq(V), NEW t \in Seq(V)
  PROVE  /\ s \o t \in Seq(V) /\ Len(s \o t) = Len(s) + Len(t)
         /\ \A i \in 1 .. Len(s) : (s \o t)[i] = s[i]
         /\ \A k \in 1 .. Len(t) : (s \o t)[Len(s) + k] = t[k]
<1>1. Len(s) \in Nat /\ Len(t) \in Nat
  OBVIOUS
<1>2. /\ s \o t \in Seq(V) /\ Len(s \o t) = Len(s) + Len(t)
      /\ \A i \in 1 .. Len(s) + Len(t) :
           (s \o t)[i] = IF i <= Len(s) THEN s[i] ELSE t[i - Len(s)]
  BY ConcatProperties
<1>. DEFINE m == Len(s)
            n == Len(t)
            both == s \o t
<1>3. /\ m \in Nat /\ n \in Nat
      /\ \A i \in 1 .. m + n : both[i] = IF i <= m THEN s[i] ELSE t[i - m]
  BY <1>1, <1>2
<1>. HIDE DEF m, n, both
<1>4. \A i \in 1 .. m : both[i] = s[i]
  BY <1>3
<1>5. ASSUME NEW k \in 1 .. n PROVE both[m + k] = t[k]
  <2>1. m + k \in 1 .. m + n /\ ~(m + k <= m) /\ (m + k) - m = k
    BY <1>3
  <2>. QED BY <1>3, <2>1
<1>. QED BY <1>2, <1>4, <1>5 DEF m, n, both

(* A chain after another, the first of which names the other's head. *)
LEMMA ChainsJoin ==
  ASSUME NEW first, NEW head, Chain(first, head),
         NEW V, ToSet(first) \subseteq V, NEW more \in Seq(V), more # <<>>,
         \A k \in 1 .. Len(more) :
           /\ ~Foreign(more[k]) /\ more[k].id \notin Ids(first)
           /\ Links(more[k]) = {IF k = 1 THEN head ELSE more[k - 1].id},
         \A j, k \in 1 .. Len(more) : more[j].id = more[k].id => j = k
  PROVE  Chain(first \o more, Last(more).id)
<1>. DEFINE m == Len(first)
            n == Len(more)
            both == first \o more
<1>1. /\ m \in Nat \ {0} /\ Last(first) = first[m] /\ first # <<>>
      /\ first \in Seq(V)
      /\ \A i \in 1 .. m : first[i].id \in Ids(first)
  <2>1. first \in Seq(ToSet(first)) /\ first # <<>>
    BY DEF Chain
  <2>2. first \in Seq(V)
    BY <2>1
  <2>. QED BY <2>1, <2>2, LastOfRecords, IdsAre
<1>2. n \in Nat \ {0} /\ Last(more) = more[n]
  BY DEF Last
<1>3. /\ both \in Seq(V) /\ Len(both) = m + n
      /\ \A i \in 1 .. m : both[i] = first[i]
      /\ \A k \in 1 .. n : both[m + k] = more[k]
  BY <1>1, Concatenated
<1>. HIDE DEF both
<1>4. \A i \in 1 .. m + n : i \in 1 .. m \/ \E k \in 1 .. n : i = m + k
  <2>. HIDE DEF m, n
  <2>. SUFFICES ASSUME NEW i \in 1 .. m + n, i \notin 1 .. m
                PROVE  \E k \in 1 .. n : i = m + k
    OBVIOUS
  <2>1. i - m \in 1 .. n /\ i = m + (i - m)
    BY <1>1, <1>2
  <2>. QED BY <2>1
<1>5. \A k \in 1 .. n : m + k \in 1 .. m + n
  BY <1>1, <1>2
<1>. HIDE DEF m, n
<1>6. both \in Seq(ToSet(both)) /\ both # <<>>
  <2>1. DOMAIN both = 1 .. m + n /\ m + n \in Nat \ {0}
    BY <1>1, <1>2, <1>3
  <2>2. \A i \in 1 .. Len(both) : both[i] \in ToSet(both)
    BY <1>3, <2>1 DEF ToSet
  <2>. QED BY <1>3, <2>1, <2>2
<1>7. Last(both).id = Last(more).id
  <2>1. n \in 1 .. n
    BY <1>2
  <2>. QED BY <1>2, <1>3, <2>1 DEF Last
<1>8. \A i \in 1 .. m + n : ~Foreign(both[i])
  <2>1. \A i \in 1 .. m : ~Foreign(first[i])
    BY DEF Chain, m
  <2>2. \A k \in 1 .. n : ~Foreign(more[k])
    BY DEF n
  <2>. QED BY <1>3, <1>4, <2>1, <2>2
<1>9. ASSUME NEW i \in 1 .. m + n, NEW j \in 1 .. m + n, both[i].id = both[j].id
      PROVE  i = j
  <2>1. CASE i \in 1 .. m /\ j \in 1 .. m
    BY <1>3, <1>9, <2>1 DEF Chain, m
  <2>2. CASE i \in 1 .. m /\ \E k \in 1 .. n : j = m + k
    <3>1. PICK k \in 1 .. n : j = m + k
      BY <2>2
    <3>2. both[j].id \notin Ids(first) /\ both[i].id \in Ids(first)
      BY <1>1, <1>3, <2>2, <3>1 DEF m, n
    <3>. QED BY <1>9, <3>2
  <2>3. CASE j \in 1 .. m /\ \E k \in 1 .. n : i = m + k
    <3>1. PICK k \in 1 .. n : i = m + k
      BY <2>3
    <3>2. both[i].id \notin Ids(first) /\ both[j].id \in Ids(first)
      BY <1>1, <1>3, <2>3, <3>1 DEF m, n
    <3>. QED BY <1>9, <3>2
  <2>4. ASSUME NEW k \in 1 .. n, i = m + k, NEW l \in 1 .. n, j = m + l PROVE i = j
    <3>1. more[k].id = more[l].id
      BY <1>3, <1>9, <2>4
    <3>. QED BY <2>4, <3>1 DEF n
  <2>. QED BY <1>4, <2>1, <2>2, <2>3, <2>4
<1>10. Links(both[1]) = {}
  <2>1. 1 \in 1 .. m
    BY <1>1
  <2>. QED BY <1>3, <2>1 DEF Chain
<1>11. ASSUME NEW i \in 2 .. m + n PROVE Links(both[i]) = {both[i - 1].id}
  <2>1. CASE i \in 1 .. m
    <3>1. i \in 2 .. m /\ i - 1 \in 1 .. m
      BY <1>1, <2>1
    <3>2. Links(first[i]) = {first[i - 1].id}
      BY <3>1 DEF Chain, m
    <3>. QED BY <1>3, <2>1, <3>1, <3>2
  <2>2. ASSUME NEW k \in 1 .. n, i = m + k PROVE Links(both[i]) = {both[i - 1].id}
    <3>1. Links(both[i]) = {IF k = 1 THEN head ELSE more[k - 1].id}
      BY <1>3, <2>2 DEF n
    <3>2. CASE k = 1
      <4>1. i - 1 = m /\ m \in 1 .. m
        BY <1>1, <2>2, <3>2
      <4>2. head = first[m].id
        BY <1>1 DEF Chain
      <4>. QED BY <1>3, <3>1, <3>2, <4>1, <4>2
    <3>3. CASE k # 1
      <4>1. i - 1 = m + (k - 1) /\ k - 1 \in 1 .. n
        BY <1>1, <1>2, <2>2, <3>3
      <4>. QED BY <1>3, <3>1, <3>3, <4>1
    <3>. QED BY <3>2, <3>3
  <2>3. i \in 1 .. m + n
    BY <1>1, <1>2
  <2>. QED BY <1>4, <2>1, <2>2, <2>3
<1>. QED BY <1>3, <1>6, <1>7, <1>8, <1>9, <1>10, <1>11 DEF Chain, both

(* The long document continues the chain of the shared one. *)
LEMMA LongChain == Chain(Long.graph.records, Long.graph.head) /\ Rooted(Long.graph)
<1>. DEFINE before == Shared.graph
            m == Len(before.records)
            count == MaxEntries - 1 - m
            id(n) == IF n = 0 THEN before.head ELSE <<Owner, -1 - n>>
            imm(n) == Immutable("event", id(n - 1), None, {}, Owner, Initial, None,
                                [type |-> "identity-reconciled", slot |-> Owner])
            reconciled(n) == Record(id(n), "event", None, imm(n))
            tail == [n \in 1 .. count |-> reconciled(n)]
            head == id(count)
            records == before.records \o tail
<1>1. Long = [Shared EXCEPT !.graph.head = head, !.graph.records = @ \o tail]
  BY DEF Long
<1>2. /\ before.records \in Seq(ToSet(before.records)) /\ before.records # <<>>
      /\ IsGraph(before)
      /\ Shared \in [wrappers: {Shared.wrappers}, graph: {Shared.graph}]
  BY SharedIs DEF IsSealed
<1>3. /\ Chain(before.records, before.head) /\ Rooted(before)
      /\ before.head = <<Guest, 0>> /\ m = 3
      /\ Ids(before.records) = {<<Owner, 0>>, <<Owner, -1>>, <<Guest, 0>>}
  BY SharedChain
<1>4. Long.graph.records = records /\ Long.graph.head = head
  <2>. HIDE DEF head, tail
  <2>. QED BY <1>1, <1>2 DEF IsGraph
<1>5. count \in Nat
  <2>. HIDE DEF m
  <2>. QED BY <1>3, BoundsAreNaturals
<1>6. id(0) = before.head /\ \A n \in Nat \ {0} : id(n) = <<Owner, -1 - n>>
  OBVIOUS
<1>. HIDE DEF count, id, head
<1>7. \A n \in Nat : id(n) # None
  <2>1. id(0) # None
    BY <1>3, <1>6, NoDocument DEF Clients
  <2>2. ASSUME NEW n \in Nat \ {0} PROVE id(n) # None
    <3>1. <<Owner, -1 - n>> \in Clients \X Int
      BY DEF Clients
    <3>. QED BY <1>6, <3>1, NoDocument
  <2>. QED BY <2>1, <2>2
<1>8. ASSUME NEW n \in Nat \ {0}
      PROVE  /\ reconciled(n).id = id(n) /\ Links(reconciled(n)) = {id(n - 1)}
             /\ ~Foreign(reconciled(n))
  <2>1. id(n - 1) # None
    BY <1>7
  <2>. QED BY <2>1, EventLinks
<1>9. /\ \A n \in Nat \ {0} : id(n) \notin Ids(before.records)
      /\ \A n, k \in Nat \ {0} : id(n) = id(k) => n = k
  <2>1. ASSUME NEW n \in Nat \ {0}
        PROVE  id(n)[2] = -1 - n /\ \A e \in Ids(before.records) : e[2] >= -1
    BY <1>3, <1>6
  <2>. QED BY <2>1
<1>. HIDE DEF reconciled
<1>10. CASE count = 0
  <2>1. 1 .. count = {}
    BY <1>10
  <2>2. tail = <<>>
    BY <2>1
  <2>3. records = before.records
    <3>. DEFINE V == ToSet(before.records)
                s == before.records
    <3>1. s \in Seq(V)
      BY <1>2
    <3>. HIDE DEF V, s, tail
    <3>2. s \o <<>> = s
      BY <3>1
    <3>. QED BY <2>2, <3>2 DEF s
  <2>. HIDE DEF records
  <2>4. head = before.head
    BY <1>6, <1>10 DEF head
  <2>. QED BY <1>3, <1>4, <2>3, <2>4 DEF Rooted
<1>11. CASE count # 0
  <2>. DEFINE V == ToSet(before.records) \cup {reconciled(n) : n \in 1 .. count}
  <2>1. count \in Nat \ {0} /\ \A n \in 1 .. count : n \in Nat \ {0}
    BY <1>5, <1>11
  <2>2. tail \in Seq(V) /\ Len(tail) = count /\ tail # <<>>
        /\ \A n \in 1 .. count : tail[n] = reconciled(n)
    BY <2>1
  <2>. HIDE DEF tail, V
  <2>3. ASSUME NEW k \in 1 .. count
        PROVE  /\ ~Foreign(tail[k]) /\ tail[k].id \notin Ids(before.records)
               /\ Links(tail[k]) = {IF k = 1 THEN before.head ELSE tail[k - 1].id}
    <3>1. tail[k] = reconciled(k) /\ k \in Nat \ {0}
      BY <2>1, <2>2
    <3>2. tail[k].id \notin Ids(before.records) /\ ~Foreign(tail[k])
      BY <1>8, <1>9, <3>1
    <3>3. CASE k = 1
      <4>1. Links(reconciled(k)) = {id(k - 1)} /\ k - 1 = 0
        BY <1>8, <3>1, <3>3
      <4>. QED BY <1>6, <3>1, <3>2, <3>3, <4>1
    <3>4. CASE k # 1
      <4>1. k - 1 \in 1 .. count
        BY <3>4, <1>5
      <4>2. tail[k - 1].id = id(k - 1)
        BY <1>8, <2>1, <2>2, <4>1
      <4>3. Links(tail[k]) = {id(k - 1)}
        BY <1>8, <3>1
      <4>. QED BY <3>2, <3>4, <4>2, <4>3
    <3>. QED BY <3>2, <3>3, <3>4
  <2>4. \A j, k \in 1 .. count : tail[j].id = tail[k].id => j = k
    BY <1>8, <1>9, <2>1, <2>2
  <2>5. ToSet(before.records) \subseteq V
    BY DEF V
  <2>6. Chain(records, Last(tail).id)
    BY <1>3, <2>2, <2>3, <2>4, <2>5, ChainsJoin
  <2>7. Last(tail).id = head
    <3>1. count \in 1 .. count
      BY <2>1
    <3>. QED BY <1>8, <2>1, <2>2, <3>1 DEF Last, head
  <2>8. ToSet(records) = ToSet(before.records) \cup ToSet(tail)
    BY <1>2, <2>2, Joined
  <2>9. Rooted(Long.graph)
    BY <1>3, <1>4, <2>8 DEF Rooted
  <2>. QED BY <1>4, <2>6, <2>7, <2>9
<1>. QED BY <1>10, <1>11

-----------------------------------------------------------------------------
(* The invariant *)

(* Every document is what its head reaches from the record it was created  *)
(* with, and the target continues whatever a client holds.                 *)
LineageInv ==
  /\ \A doc \in Documents : Lineal(doc.graph) /\ Rooted(doc.graph)
  /\ \A c \in Clients : held[c] # None => Continues(held[c], target)

(* What continues a document has the record it was created with. *)
LEMMA RootStays ==
  ASSUME NEW before, NEW after, Rooted(before.graph), Continues(before, after)
  PROVE  Rooted(after.graph)
BY DEF Rooted, Continues, RecordsOf

(* A document continues itself, and what it continues. *)
LEMMA ContinuesOn ==
  ASSUME NEW a, NEW b, NEW c
  PROVE  /\ Continues(a, a)
         /\ Continues(a, b) /\ Continues(b, c) => Continues(a, c)
BY DEF Continues

(* A candidate as it is made: it decodes, and it continues what the client  *)
(* holds from now on.                                                       *)
Makes(c, doc, base) ==
  /\ target' = target /\ base \in Documents /\ Consistent(doc.graph)
  /\ held' = [held EXCEPT ![c] = base]
  /\ pending' = [pending EXCEPT ![c] = doc]

(* A client that made a candidate over what the target continues. *)
LEMMA MadeIsLineal ==
  ASSUME IInv, IInv', LineageInv, NEW c \in Clients, NEW doc, NEW base,
         Makes(c, doc, base), Continues(base, target)
  PROVE  LineageInv'
<1>1. /\ held = [d \in Clients |-> held[d]] /\ pending = [d \in Clients |-> pending[d]]
  BY DEF IInv, Replicas
<1>2. /\ \A d \in Clients : held'[d] = IF d = c THEN base ELSE held[d]
      /\ \A d \in Clients : pending'[d] = IF d = c THEN doc ELSE pending[d]
      /\ target' = target /\ base \in Documents
  BY <1>1 DEF Makes
<1>3. Documents' \subseteq Documents \cup {doc}
  BY <1>2 DEF Documents
<1>4. ASSUME doc \in Documents' PROVE Lineal(doc.graph) /\ Rooted(doc.graph)
  <2>1. Lineal(doc.graph)
    BY <1>4, DecodedIsLineal DEF IInv, IsDocument, IsHistory, Makes
  <2>2. doc # None
    BY <1>4 DEF Documents
  <2>3. Continues(base, doc)
    BY <1>2, <2>2 DEF IInv, Replicas
  <2>4. Rooted(base.graph)
    BY <1>2 DEF LineageInv
  <2>. QED BY <2>1, <2>3, <2>4, RootStays
<1>5. \A d \in Clients : held'[d] # None => Continues(held'[d], target')
  BY <1>2 DEF LineageInv
<1>. QED BY <1>3, <1>4, <1>5 DEF LineageInv

(* A step that makes no document and moves neither target nor replicas. *)
LEMMA NothingMade ==
  ASSUME IInv, LineageInv, target' = target, held' = held, Documents' \subseteq Documents
  PROVE  LineageInv'
BY DEF LineageInv

(* What a client prepares from the replica it holds. *)
LEMMA KeepIsLineal ==
  ASSUME IInv, IInv', LineageInv, NEW c \in Clients, Idle(c), NEW doc, NEW reopened,
         Keep(c, doc, reopened)
  PROVE  LineageInv'
<1>1. /\ held = [d \in Clients |-> held[d]] /\ held[c] # None
      /\ target' = target /\ held' = held
  BY DEF IInv, Replicas, Idle, Keep
<1>2. CASE pending' = pending
  <2>1. Documents' = Documents
    BY <1>1, <1>2 DEF Documents
  <2>. QED BY <1>1, <2>1, NothingMade
<1>3. CASE pending' = [pending EXCEPT ![c] = doc] /\ Consistent(doc.graph)
  <2>1. Makes(c, doc, held[c])
    BY <1>1, <1>3 DEF Makes, Documents
  <2>2. Continues(held[c], target)
    BY <1>1 DEF LineageInv
  <2>. QED BY <2>1, <2>2, MadeIsLineal
<1>. QED BY <1>2, <1>3 DEF Keep

(* Every change of the members prepares a candidate. *)
LEMMA AdministerIsLineal ==
  ASSUME IInv, IInv', LineageInv, NEW c \in Clients, AdministerSlots(c)
  PROVE  LineageInv'
<1>1. ASSUME NEW change, NEW p, NEW reopened, ChangeSlots(c, change, p, reopened)
      PROVE  LineageInv'
  <2>1. Idle(c)
    BY DEF AdministerSlots
  <2>2. \E doc : Keep(c, doc, reopened)
    BY <1>1 DEF ChangeSlots
  <2>. QED BY <2>1, <2>2, KeepIsLineal
<1>2. \E change, p, reopened : ChangeSlots(c, change, p, reopened)
  BY Zenon DEF AdministerSlots
<1>. QED BY <1>1, <1>2

(* A client that opens the target holds what it continues. *)
LEMMA OpenIsLineal ==
  ASSUME IInv, LineageInv, NEW c \in Clients, Open(c)
  PROVE  LineageInv'
<1>1. /\ held = [d \in Clients |-> held[d]] /\ target # None
      /\ target' = target /\ pending' = pending
      /\ held' = [held EXCEPT ![c] = target]
  BY DEF IInv, Replicas, Open
<1>2. \A d \in Clients : held'[d] = IF d = c THEN target ELSE held[d]
  BY <1>1
<1>3. Documents' \subseteq Documents
  BY <1>1, <1>2 DEF Documents
<1>4. \A d \in Clients : held'[d] # None => Continues(held'[d], target')
  BY <1>1, <1>2, ContinuesOn DEF LineageInv
<1>. QED BY <1>3, <1>4 DEF LineageInv

(* A candidate that is published continues what the target was, and so what *)
(* every client holds.                                                      *)
LEMMA PublishIsLineal ==
  ASSUME IInv, LineageInv, NEW c \in Clients, Publish(c)
  PROVE  LineageInv'
<1>1. /\ held = [d \in Clients |-> held[d]] /\ pending = [d \in Clients |-> pending[d]]
      /\ target = held[c] /\ pending[c] # None /\ target' = pending[c]
      /\ Continues(held[c], pending[c])
  BY DEF IInv, Replicas, Publish
<1>2. /\ \A d \in Clients : d # c => held'[d] = held[d] /\ pending'[d] = pending[d]
      /\ held'[c] \in {pending[c], None} /\ pending'[c] = None
  BY <1>1 DEF Publish
<1>3. Documents' \subseteq Documents
  BY <1>1, <1>2 DEF Documents
<1>4. ASSUME NEW d \in Clients, held'[d] # None PROVE Continues(held'[d], target')
  <2>1. CASE d = c
    BY <1>1, <1>2, <1>4, <2>1, ContinuesOn
  <2>2. CASE d # c
    <3>1. held'[d] = held[d] /\ Continues(held[d], target)
      BY <1>2, <1>4, <2>2 DEF LineageInv
    <3>. QED BY <1>1, <3>1, ContinuesOn
  <2>. QED BY <2>1, <2>2
<1>. QED BY <1>3, <1>4 DEF LineageInv

(* A merge continues the target, which is what the client then holds. *)
LEMMA MergeIsLineal ==
  ASSUME IInv, IInv', LineageInv, NEW c \in Clients, NEW text, Merge(c, text)
  PROVE  LineageInv'
<1>. DEFINE doc == MergeSave(target, pending[c], c, Digest(c), text)
<1>1. target # None /\ target \in Documents
  BY DEF IInv, Replicas, Documents
<1>2. CASE UNCHANGED <<held, pending, minted>> /\ target' = target
  <2>1. Documents' = Documents
    BY <1>2 DEF Documents
  <2>. QED BY <1>2, <2>1, NothingMade
<1>3. CASE /\ Valid(doc.graph) /\ target' = target
           /\ held' = [held EXCEPT ![c] = target]
           /\ pending' = [pending EXCEPT ![c] = doc]
  <2>. HIDE DEF doc
  <2>1. Makes(c, doc, target)
    BY <1>1, <1>3 DEF Makes, Valid
  <2>. QED BY <2>1, ContinuesOn, MadeIsLineal
<1>. QED BY <1>2, <1>3 DEF Merge

(* A candidate that is dropped leaves the others. *)
LEMMA AbandonIsLineal ==
  ASSUME IInv, LineageInv, NEW c \in Clients, Abandon(c)
  PROVE  LineageInv'
<1>1. /\ pending = [d \in Clients |-> pending[d]]
      /\ target' = target /\ held' = held
      /\ pending' = [pending EXCEPT ![c] = None]
  BY DEF IInv, Replicas, Abandon
<1>2. \A d \in Clients : pending'[d] \in {pending[d], None}
  BY <1>1
<1>3. Documents' \subseteq Documents
  BY <1>1, <1>2 DEF Documents
<1>. QED BY <1>1, <1>3, NothingMade

(* The invariant is inductive beside IInv. *)
LEMMA NextIsLineal == IInv /\ IInv' /\ LineageInv /\ [Next]_vars => LineageInv'
<1>. SUFFICES ASSUME IInv, IInv', LineageInv, [Next]_vars PROVE LineageInv'
  OBVIOUS
<1>1. CASE UNCHANGED vars
  <2>1. target' = target /\ held' = held /\ Documents' = Documents
    BY <1>1 DEF vars, Documents
  <2>. QED BY <2>1, NothingMade
<1>2. ASSUME NEW c \in Clients, Open(c) PROVE LineageInv'
  BY <1>2, OpenIsLineal
<1>3. ASSUME NEW c \in Clients, Publish(c) PROVE LineageInv'
  BY <1>3, PublishIsLineal
<1>4. ASSUME NEW c \in Clients, Abandon(c) PROVE LineageInv'
  BY <1>4, AbandonIsLineal
<1>5. ASSUME NEW c \in Clients, Discard(c) PROVE LineageInv'
  BY <1>5, KeepIsLineal DEF Discard
<1>6. ASSUME NEW c \in Clients, AdministerSlots(c) PROVE LineageInv'
  BY <1>6, AdministerIsLineal
<1>7. ASSUME NEW c \in Clients, NEW retain \in Retained, Compact(c, retain)
      PROVE  LineageInv'
  BY <1>7, KeepIsLineal DEF Compact
<1>8. ASSUME NEW c \in Clients, NEW text \in Texts, Reseal(c, text) PROVE LineageInv'
  BY <1>8, KeepIsLineal DEF Reseal
<1>9. ASSUME NEW c \in Clients, NEW text \in Texts, Merge(c, text) PROVE LineageInv'
  BY <1>9, MergeIsLineal
<1>10. ASSUME NEW c \in Clients, NEW text \in Texts, NEW regular \in BOOLEAN,
              Save(c, text, regular)
       PROVE  LineageInv'
  BY <1>10, KeepIsLineal DEF Save
<1>. QED BY <1>1, <1>2, <1>3, <1>4, <1>5, <1>6, <1>7, <1>8, <1>9, <1>10 DEF Next

(* The initial documents satisfy it. *)
LEMMA InitIsLineal == Init => LineageInv
<1>. SUFFICES ASSUME Init PROVE LineageInv
  OBVIOUS
<1>1. \A doc \in {Fresh, Shared, Long} : Lineal(doc.graph) /\ Rooted(doc.graph)
  <2>1. Chain(Fresh.graph.records, Fresh.graph.head) /\ Rooted(Fresh.graph)
    BY CreatedChain DEF Fresh
  <2>. QED BY <2>1, SharedChain, LongChain, ChainIsLineal
<1>2. Documents \subseteq {target} /\ target \in {Fresh, Shared, Long}
      /\ \A c \in Clients : held[c] = None
  BY DEF Init, Documents
<1>. QED BY <1>1, <1>2 DEF LineageInv

-----------------------------------------------------------------------------
(* What is in which history *)

(* One document names the parts of another as it does. *)
Agree(own, there) ==
  \A r \in ToSet(own.records), s \in ToSet(there.records) : r.id = s.id => r.imm = s.imm

(* The facts about a history the following lemmas use. *)
Histories(own, there) ==
  /\ own.records \in Seq(ToSet(own.records)) /\ own.records # <<>>
  /\ there.records \in Seq(ToSet(there.records)) /\ there.records # <<>>
  /\ Lineal(own) /\ Lineal(there) /\ Agree(own, there)

(* A record's links are to records of its history, ... *)
LEMMA LinksStay ==
  ASSUME NEW graph, graph.records \in Seq(ToSet(graph.records)), Backward(graph.records),
         NEW r \in ToSet(graph.records)
  PROVE  Links(r) \subseteq Ids(graph.records)
<1>. DEFINE records == graph.records
            n == Len(records)
<1>1. PICK i \in 1 .. n : r = records[i]
  BY DEF ToSet
<1>2. ASSUME NEW l \in Links(r) PROVE l \in Ids(records)
  <2>1. PICK j \in 1 .. i - 1 : records[j].id = l
    BY <1>1 DEF Backward
  <2>2. j \in 1 .. n
    OBVIOUS
  <2>. QED BY <2>1, <2>2, IdsAre
<1>. QED BY <1>2

(* ... but none to the last. *)
LEMMA LastIsNoLink ==
  ASSUME NEW graph, graph.records \in Seq(ToSet(graph.records)), graph.records # <<>>,
         Backward(graph.records), NEW r \in ToSet(graph.records)
  PROVE  Last(graph.records).id \notin Links(r)
<1>. DEFINE records == graph.records
            n == Len(records)
<1>1. n \in Nat \ {0} /\ Last(records) = records[n]
  BY LastOfRecords
<1>2. PICK i \in 1 .. n : r = records[i]
  BY DEF ToSet
<1>. HIDE DEF n
<1>3. SUFFICES ASSUME records[n].id \in Links(r) PROVE FALSE
  BY <1>1
<1>4. PICK j \in 1 .. i - 1 : records[j].id = records[n].id
  BY <1>2, <1>3 DEF Backward, n
<1>5. j \in 1 .. n /\ n \in 1 .. n /\ j # n
  BY <1>1
<1>. QED BY <1>4, <1>5 DEF Backward, n

(* A history ends in its head, which is the name of one of its records. *)
LEMMA HeadIsLast ==
  ASSUME NEW own, NEW there, Histories(own, there)
  PROVE  /\ own.head = Last(own.records).id
         /\ Last(own.records) \in ToSet(own.records)
         /\ own.head \in Ids(own.records)
<1>. DEFINE list == own.records
            n == Len(list)
<1>1. list \in Seq(ToSet(list)) /\ list # <<>> /\ own.head = Last(list).id
  BY DEF Histories, Lineal
<1>2. \A i \in 1 .. Len(list) : list[i] \in ToSet(list) /\ list[i].id \in Ids(list)
  BY IdsAre DEF Histories
<1>. HIDE DEF list
<1>3. n \in Nat \ {0} /\ Last(list) = list[n]
  BY <1>1, LastOfRecords
<1>. HIDE DEF n
<1>4. n \in 1 .. n
  BY <1>3
<1>5. list[n] \in ToSet(list) /\ list[n].id \in Ids(list)
  BY <1>2, <1>4 DEF n
<1>. QED BY <1>1, <1>3, <1>5 DEF list

(* A history whose head another has is all in the other. *)
LEMMA HeadBringsAll ==
  ASSUME NEW own, NEW there, Histories(own, there), own.head \in Ids(there.records)
  PROVE  Ids(own.records) \subseteq Ids(there.records)
<1>. DEFINE S == Ids(own.records) \cap Ids(there.records)
<1>1. /\ Ids(own.records) = {r.id : r \in ToSet(own.records)}
      /\ Ids(there.records) = {r.id : r \in ToSet(there.records)}
  BY IdsAre DEF Histories
<1>2. own.head \in Ids(own.records)
  BY HeadIsLast
<1>3. ASSUME NEW r \in ToSet(own.records), r.id \in S PROVE Links(r) \subseteq S
  <2>1. PICK s \in ToSet(there.records) : r.id = s.id
    BY <1>1, <1>3
  <2>2. Links(r) = Links(s)
    BY <2>1 DEF Histories, Agree, Links
  <2>3. Links(r) \subseteq Ids(own.records) /\ Links(s) \subseteq Ids(there.records)
    BY LinksStay DEF Histories, Lineal
  <2>. QED BY <2>2, <2>3
<1>4. Absorbs(S, own)
  BY <1>2, <1>3 DEF Absorbs
<1>. QED BY <1>4 DEF Histories, Lineal

(* Two histories with the same records end in the same one. *)
LEMMA SameRecordsSameHead ==
  ASSUME NEW own, NEW there, Histories(own, there),
         Ids(own.records) = Ids(there.records)
  PROVE  own.head = there.head
<1>. SUFFICES ASSUME own.head # there.head PROVE FALSE
  OBVIOUS
<1>. DEFINE S == Ids(own.records) \ {there.head}
<1>1. /\ Ids(own.records) = {r.id : r \in ToSet(own.records)}
      /\ Ids(there.records) = {r.id : r \in ToSet(there.records)}
  BY IdsAre DEF Histories
<1>2. /\ own.head \in Ids(own.records) /\ there.head \in Ids(there.records)
      /\ there.head = Last(there.records).id
  <2>1. Histories(there, own)
    BY DEF Histories, Agree
  <2>. QED BY <2>1, HeadIsLast
<1>3. ASSUME NEW r \in ToSet(own.records) PROVE Links(r) \subseteq S
  <2>1. PICK s \in ToSet(there.records) : r.id = s.id
    BY <1>1
  <2>2. Links(r) = Links(s)
    BY <2>1 DEF Histories, Agree, Links
  <2>3. Links(r) \subseteq Ids(own.records)
    BY LinksStay DEF Histories, Lineal
  <2>4. there.head \notin Links(s)
    BY <1>2, LastIsNoLink DEF Histories, Lineal
  <2>. QED BY <2>2, <2>3, <2>4
<1>4. Absorbs(S, own)
  BY <1>2, <1>3 DEF Absorbs
<1>5. Ids(own.records) \subseteq S
  BY <1>4 DEF Histories, Lineal
<1>. QED BY <1>2, <1>5

(* What the five answers of assess_target rest on. *)
LEMMA AssessmentHolds ==
  ASSUME IInv, LineageInv, NEW c \in Clients, held[c] # None
  PROVE  LET own == held[c].graph
             there == target.graph
         IN /\ Histories(own, there) /\ Histories(there, own)
            /\ ~Provisional(own) => own.head \in Ids(there.records)
            /\ Ids(Canonical(own.records)) \cap Ids(Canonical(there.records)) # {}
<1>. DEFINE own == held[c].graph
            there == target.graph
<1>1. held[c] \in Documents /\ target \in Documents
  BY DocumentsAre
<1>2. Histories(own, there) /\ Histories(there, own)
  <2>1. Lineal(own) /\ Lineal(there)
    BY <1>1 DEF LineageInv
  <2>2. /\ own.records \in Seq(ToSet(own.records)) /\ own.records # <<>>
        /\ there.records \in Seq(ToSet(there.records)) /\ there.records # <<>>
    BY <1>1, DocumentsAre DEF IsDocument, IsHistory
  <2>3. Agree(own, there) /\ Agree(there, own)
    BY <1>1 DEF IInv, DigestsName, RecordsOf, Agree
  <2>. QED BY <2>1, <2>2, <2>3 DEF Histories
<1>3. Continues(held[c], target)
  BY DEF LineageInv
<1>4. ASSUME ~Provisional(own) PROVE own.head \in Ids(there.records)
  <2>1. Last(own.records) \in ToSet(own.records) /\ own.head = Last(own.records).id
    BY <1>2, HeadIsLast
  <2>2. PICK s \in ToSet(there.records) : s.id = own.head
    BY <1>3, <1>4, <2>1 DEF Continues, RecordsOf, Provisional
  <2>. QED BY <1>2, <2>2, IdsAre DEF Histories
<1>5. ASSUME NEW graph, graph.records \in Seq(ToSet(graph.records)), Lineal(graph),
             Rooted(graph)
      PROVE  <<Owner, 0>> \in Ids(Canonical(graph.records))
  <2>. DEFINE line == Canonical(graph.records)
              S == {r \in ToSet(graph.records) : ~Foreign(r)}
  <2>1. PICK r \in ToSet(graph.records) : r.id = <<Owner, 0>> /\ r.imm.kind = "baseline"
    BY <1>5 DEF Rooted
  <2>2. r \in S
    BY <1>5, <2>1 DEF Lineal
  <2>3. ToSet(line) = ToSet(graph.records) \cap S /\ line \in Seq(ToSet(line))
    BY <1>5, OnlyRange DEF Canonical
  <2>. HIDE DEF line, S
  <2>. QED BY <2>1, <2>2, <2>3, IdsAre DEF line
<1>6. Ids(Canonical(own.records)) \cap Ids(Canonical(there.records)) # {}
  <2>1. Rooted(own) /\ Rooted(there)
    BY <1>1 DEF LineageInv
  <2>. QED BY <1>2, <1>5, <2>1 DEF Histories
<1>. QED BY <1>2, <1>4, <1>6

-----------------------------------------------------------------------------
(* The theorem *)

(* However replicas and target came about, an advanced target has all of the *)
(* replica, a replica the target is behind of is provisional, one beside it  *)
(* is provisional or was merged in, and no replica is unrelated.             *)
THEOREM LineageStaysSound == Spec => []LineageSound
<1>1. IInv /\ LineageInv => LineageSound
  <2>. SUFFICES ASSUME IInv, LineageInv, NEW c \in Clients, held[c] # None
                PROVE  LET own == held[c].graph
                           there == target.graph.records
                       IN CASE Assess(own, target.graph) = "unchanged" ->
                                 Ids(own.records) = Ids(there)
                            [] Assess(own, target.graph) = "advanced" ->
                                 Ids(own.records) \subseteq Ids(there)
                            [] Assess(own, target.graph) = "rollback" -> Provisional(own)
                            [] Assess(own, target.graph) = "divergent" ->
                                 \/ Provisional(own)
                                 \/ own.head \in Ids(there) \ Ids(Canonical(there))
                            [] OTHER -> FALSE
    BY DEF LineageSound
  <2>. DEFINE own == held[c].graph
              there == target.graph
  <2>1. /\ Histories(own, there) /\ Histories(there, own)
        /\ ~Provisional(own) => own.head \in Ids(there.records)
        /\ Ids(Canonical(own.records)) \cap Ids(Canonical(there.records)) # {}
    BY AssessmentHolds
  <2>. HIDE DEF own, there
  <2>2. own.head \in Ids(own.records) /\ there.head \in Ids(there.records)
    BY <2>1, HeadIsLast
  <2>3. own.head \in Ids(there.records) => Ids(own.records) \subseteq Ids(there.records)
    BY <2>1, HeadBringsAll
  <2>4. there.head \in Ids(own.records) => Ids(there.records) \subseteq Ids(own.records)
    BY <2>1, HeadBringsAll
  <2>5. Ids(Canonical(there.records)) \subseteq Ids(there.records)
    <3>. DEFINE S == {r \in ToSet(there.records) : ~Foreign(r)}
                line == Canonical(there.records)
    <3>1. ToSet(line) = ToSet(there.records) \cap S /\ line \in Seq(ToSet(line))
      BY <2>1, OnlyRange DEF Canonical, Histories
    <3>. HIDE DEF S, line
    <3>2. /\ Ids(line) = {r.id : r \in ToSet(line)}
          /\ Ids(there.records) = {r.id : r \in ToSet(there.records)}
      BY <2>1, <3>1, IdsAre DEF Histories
    <3>. QED BY <3>1, <3>2 DEF line
  <2>6. CASE own.head = there.head
    <3>1. Ids(own.records) = Ids(there.records)
      BY <2>2, <2>3, <2>4, <2>6
    <3>. QED BY <2>6, <3>1 DEF Assess, own, there
  <2>7. CASE own.head # there.head /\ own.head \in Ids(Canonical(there.records))
    <3>1. Ids(own.records) \subseteq Ids(there.records)
      BY <2>3, <2>5, <2>7
    <3>. QED BY <2>7, <3>1 DEF Assess, own, there
  <2>8. CASE /\ own.head # there.head /\ own.head \notin Ids(Canonical(there.records))
             /\ there.head \in Ids(own.records)
    <3>1. Provisional(own)
      <4>. SUFFICES ASSUME ~Provisional(own) PROVE FALSE
        OBVIOUS
      <4>1. Ids(own.records) = Ids(there.records)
        BY <2>1, <2>3, <2>4, <2>8
      <4>. QED BY <2>1, <2>8, <4>1, SameRecordsSameHead
    <3>. QED BY <2>8, <3>1 DEF Assess, own, there
  <2>9. CASE /\ own.head # there.head /\ own.head \notin Ids(Canonical(there.records))
             /\ there.head \notin Ids(own.records)
    BY <2>1, <2>9 DEF Assess, own, there
  <2>. QED BY <2>6, <2>7, <2>8, <2>9
<1>2. Init => IInv /\ LineageInv
  BY InitEstablishes, InitIsLineal
<1>3. IInv /\ LineageInv /\ [Next]_vars => (IInv /\ LineageInv)'
  BY NextKeeps, NextIsLineal
<1>. QED BY <1>1, <1>2, <1>3, PTL DEF Spec

-----------------------------------------------------------------------------
(* What becomes of the texts *)

(* A revision of the line. *)
OnLine(r) == ~Foreign(r) /\ IsContent(r)

(* A revision that is not pruned has a text, and one that is pruned lies before *)
(* the cutoff of a compaction.                                                  *)
Worded(records) ==
  \A i \in 1 .. Len(records) : OnLine(records[i]) =>
    IF records[i].storage # "pruned" THEN TextAfter(records)[i] # None
    ELSE \E e \in 1 .. Len(records) :
           /\ IsCompaction(records[e])
           /\ i < Position(records, records[e].imm.event.cutoff)

(* What TextsKept says of one history and the next. *)
KeepsTexts(before, after) ==
  LET now == after.records
      Kept(r) == r.id \in Ids(now) /\ now[Position(now, r.id)].storage # "pruned"
      Cut(r) == \E e \in ToSet(now) :
        /\ IsCompaction(e) /\ r.id \in Ids(now)
        /\ Position(now, r.id) < Position(now, e.imm.event.cutoff)
      MergedIn(r) == r.id \in Ids(now) /\ Foreign(now[Position(now, r.id)])
  IN \A r \in ToSet(CanonicalContent(before.records)) :
       LET text == Reconstruct(before, r.id) IN
       ~r.provisional /\ text # None =>
         \/ Kept(r) /\ Reconstruct(after, r.id) = text
         \/ Cut(r) \/ MergedIn(r)

(* A history as the decoder has accepted it. *)
IsDecoded(graph) ==
  /\ graph.records \in Seq(ToSet(graph.records)) /\ graph.records # <<>>
  /\ Consistent(graph)

(* What the decoder has made sure of. *)
LEMMA DecodedFacts ==
  ASSUME NEW graph, IsDecoded(graph)
  PROVE  LET records == graph.records
             n == Len(records)
         IN /\ n \in Nat \ {0} /\ DOMAIN records = 1 .. n
            /\ Backward(records)
            /\ \A i \in 1 .. n : records[i] \in ToSet(records) /\ WellFormed(records[i])
            /\ \A r \in ToSet(records) : \E i \in 1 .. n : r = records[i]
            /\ TextsFollow(TextAfter(records), records, n)
            /\ TextAfter(records)[n] # None
            /\ \A i \in 1 .. n : OnLine(records[i]) /\ TextAfter(records)[i] # None =>
                 TextAfter(records)[i] = records[i].imm.text
<1>. DEFINE records == graph.records
            n == Len(records)
<1>1. /\ n \in Nat \ {0} /\ DOMAIN records = 1 .. n
      /\ \A i \in 1 .. n : records[i] \in ToSet(records)
      /\ \A r \in ToSet(records) : \E i \in 1 .. n : r = records[i]
  BY LastOfRecords DEF IsDecoded
<1>2. Backward(records)
  BY LinksLeadBack DEF IsDecoded, Consistent
<1>3. \A i \in 1 .. n : WellFormed(records[i])
  BY <1>1 DEF IsDecoded, Consistent
<1>4. TextsFollow(TextAfter(records), records, n)
  BY <1>1, TextByRecursion
<1>5. /\ TextAfter(records)[n] # None
      /\ \A i \in 1 .. n : OnLine(records[i]) /\ TextAfter(records)[i] # None =>
           TextAfter(records)[i] = records[i].imm.text
  BY <1>1 DEF IsDecoded, Consistent, TextsAgree, OnLine
<1>. QED BY <1>1, <1>2, <1>3, <1>4, <1>5

(* A record is found at its place. *)
LEMMA FoundAtItsPlace ==
  ASSUME NEW records, records \in Seq(ToSet(records)), Backward(records),
         NEW i \in 1 .. Len(records), NEW id, records[i].id = id
  PROVE  Position(records, id) = i /\ id \in Ids(records)
<1>1. DOMAIN records = 1 .. Len(records)
  OBVIOUS
<1>2. \A j \in DOMAIN records : records[j].id = id => j = i
  BY <1>1 DEF Backward
<1>3. i \in DOMAIN records
  BY <1>1
<1>4. Position(records, id) \in DOMAIN records /\ records[Position(records, id)].id = id
  BY <1>3 DEF Position
<1>. QED BY <1>2, <1>3, <1>4 DEF Ids

(* The text of a revision is the text after it. *)
LEMMA TextAtItsPlace ==
  ASSUME NEW graph, graph.records \in Seq(ToSet(graph.records)), Backward(graph.records),
         NEW i \in 1 .. Len(graph.records), ~Foreign(graph.records[i])
  PROVE  Reconstruct(graph, graph.records[i].id) = TextAfter(graph.records)[i]
<1>1. /\ Position(graph.records, graph.records[i].id) = i
      /\ graph.records[i].id \in Ids(graph.records)
  BY FoundAtItsPlace
<1>. QED BY <1>1 DEF Reconstruct

(* The revisions of the line. *)
LEMMA LineOf ==
  ASSUME NEW records, records \in Seq(ToSet(records))
  PROVE  \A r \in ToSet(CanonicalContent(records)) :
           OnLine(r) /\ \E i \in 1 .. Len(records) : r = records[i]
<1>. DEFINE S == {r \in ToSet(records) : ~Foreign(r) /\ IsContent(r)}
<1>1. ToSet(CanonicalContent(records)) = ToSet(records) \cap S
  <2>. HIDE DEF S
  <2>1. ToSet(Only(records, S)) = ToSet(records) \cap S
    BY OnlyRange
  <2>. QED BY <2>1 DEF CanonicalContent, S
<1>2. \A r \in ToSet(records) : \E i \in 1 .. Len(records) : r = records[i]
  BY DEF ToSet
<1>. QED BY <1>1, <1>2 DEF OnLine

(* A compaction has its cutoff before it. *)
LEMMA CutoffStands ==
  ASSUME NEW graph, IsDecoded(graph),
         NEW e \in 1 .. Len(graph.records), IsCompaction(graph.records[e])
  PROVE  \E j \in 1 .. e - 1 :
           /\ graph.records[j].id = graph.records[e].imm.event.cutoff
           /\ Position(graph.records, graph.records[e].imm.event.cutoff) = j
<1>. DEFINE records == graph.records
            cutoff == records[e].imm.event.cutoff
<1>1. /\ records \in Seq(ToSet(records)) /\ DOMAIN records = 1 .. Len(records)
      /\ Backward(records)
  BY DecodedFacts DEF IsDecoded
<1>2. cutoff \in Ids(SubSeq(records, 1, e - 1))
  BY <1>1 DEF IsDecoded, Consistent, CompactionsAgree
<1>3. Ids(SubSeq(records, 1, e - 1)) = {records[j].id : j \in 1 .. e - 1}
  BY <1>1, EarlierIds
<1>4. PICK j \in 1 .. e - 1 : records[j].id = cutoff
  BY <1>2, <1>3
<1>5. j \in 1 .. Len(records)
  OBVIOUS
<1>6. Position(records, cutoff) = j
  BY <1>1, <1>4, <1>5, FoundAtItsPlace
<1>. QED BY <1>4, <1>6

(* A history that keeps another up to a place, beyond which the other is *)
(* provisional and it has no revision but its last, with its body.       *)
BuiltOn(before, after, n) ==
  /\ n \in 0 .. Len(before) /\ n <= Len(after)
  /\ \A i \in 1 .. n : SaysSame(before[i], after[i])
  /\ \A i \in n + 1 .. Len(before) : before[i].provisional
  /\ \A i \in n + 1 .. Len(after) :
       OnLine(after[i]) => i = Len(after) /\ after[i].storage # "pruned"

(* It has the same texts there. *)
LEMMA BuiltHasTexts ==
  ASSUME NEW before, NEW after, IsDecoded(before), IsDecoded(after),
         NEW n, BuiltOn(before.records, after.records, n)
  PROVE  \A i \in 1 .. n : TextAfter(after.records)[i] = TextAfter(before.records)[i]
<1>. DEFINE a == before.records
            b == after.records
<1>1. Len(a) \in Nat /\ Len(b) \in Nat /\ n \in Nat /\ n <= Len(a) /\ n <= Len(b)
  BY DecodedFacts DEF BuiltOn
<1>2. TextAfter(a)[0] = TextAfter(b)[0]
  BY DecodedFacts DEF TextsFollow
<1>3. \A i \in 0 + 1 .. n : SaysSame(a[i], b[i])
  BY DEF BuiltOn
<1>. HIDE DEF a, b
<1>4. \A i \in 0 .. n : TextAfter(a)[i] = TextAfter(b)[i]
  BY <1>1, <1>2, <1>3, TextsCoincide
<1>. QED BY <1>1, <1>4 DEF a, b

(* What is built on a history is worded as it is, ... *)
LEMMA BuiltIsWorded ==
  ASSUME NEW before, NEW after, IsDecoded(before), IsDecoded(after),
         NEW n, BuiltOn(before.records, after.records, n), Worded(before.records)
  PROVE  Worded(after.records)
<1>. DEFINE a == before.records
            b == after.records
<1>1. /\ Len(a) \in Nat \ {0} /\ Len(b) \in Nat \ {0} /\ n \in Nat
      /\ n <= Len(a) /\ n <= Len(b)
      /\ \A i \in 1 .. n : i \in 1 .. Len(a) /\ i \in 1 .. Len(b)
      /\ \A i \in 1 .. Len(a) : WellFormed(a[i])
      /\ b \in Seq(ToSet(b)) /\ Backward(b) /\ TextAfter(b)[Len(b)] # None
  <2>1. Len(a) \in Nat \ {0} /\ Len(b) \in Nat \ {0} /\ n \in 0 .. Len(a) /\ n <= Len(b)
    BY DecodedFacts DEF BuiltOn
  <2>. HIDE DEF a, b
  <2>2. \A i \in 1 .. n : i \in 1 .. Len(a) /\ i \in 1 .. Len(b)
    BY <2>1
  <2>. QED BY <2>1, <2>2, DecodedFacts DEF IsDecoded, a, b
<1>2. \A i \in 1 .. n : SaysSame(a[i], b[i]) /\ TextAfter(b)[i] = TextAfter(a)[i]
  <2>1. \A i \in 1 .. n : TextAfter(b)[i] = TextAfter(a)[i]
    BY BuiltHasTexts
  <2>2. \A i \in 1 .. n : SaysSame(a[i], b[i])
    BY DEF BuiltOn
  <2>. QED BY <2>1, <2>2
<1>3. ASSUME NEW i \in 1 .. Len(b), OnLine(b[i])
      PROVE  IF b[i].storage # "pruned" THEN TextAfter(b)[i] # None
             ELSE \E e \in 1 .. Len(b) :
                    IsCompaction(b[e]) /\ i < Position(b, b[e].imm.event.cutoff)
  <2>1. CASE i > n
    <3>1. i \in n + 1 .. Len(b)
      BY <1>1, <2>1
    <3>2. i = Len(b) /\ b[i].storage # "pruned"
      BY <1>3, <3>1 DEF BuiltOn
    <3>. QED BY <1>1, <3>2
  <2>2. CASE i \in 1 .. n
    <3>1. SaysSame(a[i], b[i]) /\ i \in 1 .. Len(a) /\ TextAfter(b)[i] = TextAfter(a)[i]
      BY <1>1, <1>2, <2>2
    <3>2. OnLine(a[i]) /\ a[i].storage = b[i].storage
      BY <1>3, <3>1 DEF SaysSame, OnLine, Foreign, IsContent
    <3>3. CASE b[i].storage # "pruned"
      BY <3>1, <3>2, <3>3 DEF Worded
    <3>4. CASE b[i].storage = "pruned"
      <4>1. PICK e \in 1 .. Len(a) :
              IsCompaction(a[e]) /\ i < Position(a, a[e].imm.event.cutoff)
        BY <3>1, <3>2, <3>4 DEF Worded
      <4>2. PICK j \in 1 .. e - 1 : /\ a[j].id = a[e].imm.event.cutoff
                                    /\ Position(a, a[e].imm.event.cutoff) = j
        BY <4>1, CutoffStands
      <4>3. e <= n
        <5>1. ~a[e].provisional
          BY <1>1, <4>1 DEF IsCompaction, WellFormed
        <5>2. e > n => e \in n + 1 .. Len(a)
          BY <1>1
        <5>. QED BY <1>1, <5>1, <5>2 DEF BuiltOn
      <4>4. e \in 1 .. n /\ j \in 1 .. n
        BY <1>1, <4>3
      <4>5. SaysSame(a[e], b[e]) /\ SaysSame(a[j], b[j])
        BY <1>2, <4>4
      <4>6. IsCompaction(b[e]) /\ b[j].id = b[e].imm.event.cutoff
        BY <4>1, <4>2, <4>5 DEF SaysSame, IsCompaction, Foreign
      <4>7. Position(b, b[e].imm.event.cutoff) = j
        BY <1>1, <4>4, <4>6, FoundAtItsPlace
      <4>. QED BY <1>1, <3>4, <4>1, <4>2, <4>4, <4>6, <4>7
    <3>. QED BY <3>3, <3>4
  <2>. QED BY <1>1, <2>1, <2>2
<1>. HIDE DEF a, b
<1>4. Worded(b)
  BY <1>3 DEF Worded
<1>. QED BY <1>4 DEF b

(* ... and keeps its texts. *)
LEMMA BuiltKeepsTexts ==
  ASSUME NEW before, NEW after, IsDecoded(before), IsDecoded(after),
         NEW n, BuiltOn(before.records, after.records, n)
  PROVE  KeepsTexts(before, after)
<1>. DEFINE a == before.records
            b == after.records
<1>1. /\ a \in Seq(ToSet(a)) /\ Backward(a) /\ b \in Seq(ToSet(b)) /\ Backward(b)
      /\ Len(a) \in Nat \ {0} /\ Len(b) \in Nat \ {0} /\ n \in Nat
      /\ n <= Len(a) /\ n <= Len(b) /\ TextsFollow(TextAfter(a), a, Len(a))
  BY DecodedFacts DEF IsDecoded, BuiltOn
<1>2. ASSUME NEW r \in ToSet(CanonicalContent(a)), ~r.provisional,
             Reconstruct(before, r.id) # None
      PROVE  /\ r.id \in Ids(b) /\ b[Position(b, r.id)].storage # "pruned"
             /\ Reconstruct(after, r.id) = Reconstruct(before, r.id)
  <2>1. OnLine(r) /\ \E i \in 1 .. Len(a) : r = a[i]
    BY <1>1, <1>2, LineOf
  <2>2. PICK i \in 1 .. Len(a) : r = a[i]
    BY <2>1
  <2>3. i \in 1 .. n
    <3>1. i > n => i \in n + 1 .. Len(a)
      BY <1>1
    <3>. QED BY <1>1, <1>2, <2>2, <3>1 DEF BuiltOn
  <2>4. i \in 1 .. Len(b) /\ SaysSame(a[i], b[i]) /\ TextAfter(b)[i] = TextAfter(a)[i]
    <3>1. \A k \in 1 .. n : TextAfter(b)[k] = TextAfter(a)[k]
      BY BuiltHasTexts
    <3>2. i \in 1 .. Len(b) /\ SaysSame(a[i], b[i])
      BY <1>1, <2>3 DEF BuiltOn
    <3>. QED BY <2>3, <3>1, <3>2
  <2>5. OnLine(b[i]) /\ b[i].id = r.id
    BY <2>1, <2>2, <2>4 DEF SaysSame, OnLine, Foreign, IsContent
  <2>6. Reconstruct(before, r.id) = TextAfter(a)[i]
    BY <1>1, <2>1, <2>2, TextAtItsPlace DEF OnLine
  <2>7. Reconstruct(after, r.id) = TextAfter(b)[i]
    BY <1>1, <2>4, <2>5, TextAtItsPlace DEF OnLine
  <2>8. a[i].storage # "pruned"
    <3>1. TextAfter(a)[i] = TextOn(TextAfter(a)[i - 1], a[i])
      BY <1>1 DEF TextsFollow
    <3>2. SUFFICES ASSUME a[i].storage = "pruned" PROVE TextOn(TextAfter(a)[i - 1], a[i]) = None
      BY <1>2, <2>6, <3>1
    <3>. QED BY <2>1, <2>2, <3>2 DEF TextOn, OnLine
  <2>9. Position(b, r.id) = i /\ r.id \in Ids(b)
    BY <1>1, <2>4, <2>5, FoundAtItsPlace
  <2>. QED BY <2>4, <2>6, <2>7, <2>8, <2>9 DEF SaysSame
<1>. QED BY <1>2 DEF KeepsTexts

(* Sealing drops at most the last record, and that only if it is provisional. *)
LEMMA SealedPlaces ==
  ASSUME NEW graph, IsHistory(graph)
  PROVE  LET sealed == Sealed(graph).records
             n == Len(sealed)
         IN /\ IsGraph(Sealed(graph)) /\ sealed \in Seq(ToSet(sealed)) /\ n \in Nat
            /\ n <= Len(graph.records)
            /\ \A i \in 1 .. n : sealed[i] = graph.records[i]
            /\ \A i \in n + 1 .. Len(graph.records) : graph.records[i].provisional
<1>. DEFINE records == graph.records
            n == Len(records)
            sealed == Sealed(graph).records
<1>1. /\ n \in Nat \ {0} /\ Last(records) = records[n] /\ IsGraph(graph)
      /\ records \in Seq(ToSet(records))
  BY LastOfRecords DEF IsHistory
<1>2. IsSealed(Sealed(graph))
  BY SealedIsSealed
<1>3. CASE ~Provisional(graph)
  <2>1. sealed = records
    BY <1>3 DEF Sealed
  <2>. HIDE DEF records, sealed
  <2>2. n + 1 .. n = {}
    BY <1>1
  <2>. QED BY <1>1, <1>2, <2>1, <2>2 DEF IsSealed, records, sealed
<1>4. CASE Provisional(graph)
  <2>1. records[n].provisional
    BY <1>1, <1>4 DEF Provisional
  <2>2. n # 1
    <3>1. n \in 1 .. n
      BY <1>1
    <3>. QED BY <2>1, <3>1 DEF IsHistory
  <2>3. sealed = Front(records)
    BY <1>1, <1>4 DEF Sealed, IsGraph
  <2>4. /\ Len(Front(records)) = n - 1
        /\ \A i \in 1 .. n - 1 : Front(records)[i] = records[i]
    <3>1. n > 1
      <4>. HIDE DEF n
      <4>. QED BY <1>1, <2>2
    <3>. QED BY <1>1, <3>1, FrontOfRecords
  <2>. HIDE DEF records, sealed
  <2>5. \A i \in (n - 1) + 1 .. n : i = n
    BY <1>1
  <2>. HIDE DEF n
  <2>. QED BY <1>1, <1>2, <2>1, <2>3, <2>4, <2>5 DEF IsSealed, records, sealed, n
<1>. QED BY <1>3, <1>4

(* A record is added at the end. *)
LEMMA AppendedPlaces ==
  ASSUME NEW graph, IsGraph(graph), graph.records \in Seq(ToSet(graph.records)), NEW r
  PROVE  LET after == AppendRecord(graph, r).records
             n == Len(graph.records)
         IN /\ n \in Nat /\ Len(after) = n + 1 /\ after[n + 1] = r
            /\ \A i \in 1 .. n : after[i] = graph.records[i]
<1>1. AppendRecord(graph, r).records = Append(graph.records, r)
  BY DEF AppendRecord, IsGraph
<1>2. Len(graph.records) \in Nat
  OBVIOUS
<1>. QED BY <1>1, <1>2, OneMoreRecord

(* One more record on what is left of a history when it is sealed. *)
LEMMA OneMoreIsBuilt ==
  ASSUME NEW before, NEW after, NEW n \in Nat, n <= Len(before), Len(before) \in Nat,
         Len(after) = n + 1,
         \A i \in 1 .. n : after[i] = before[i],
         \A i \in n + 1 .. Len(before) : before[i].provisional,
         OnLine(after[n + 1]) => after[n + 1].storage # "pruned"
  PROVE  BuiltOn(before, after, n)
<1>1. n \in 0 .. Len(before) /\ n <= Len(after) /\ \A i \in n + 1 .. Len(after) : i = n + 1
  OBVIOUS
<1>. QED BY <1>1 DEF BuiltOn, SaysSame

(* A save, ... *)
LEMMA SavedIsBuilt ==
  ASSUME NEW graph, IsHistory(graph), NEW who, NEW id, NEW text, NEW regular
  PROVE  \E n : BuiltOn(graph.records, Saved(graph, who, id, text, regular).records, n)
<1>. DEFINE base == Sealed(graph)
            body == FullInsert(text)
            imm == Immutable("content", base.head, base.contentHead, {}, who, text,
                             body, None)
            r == [Record(id, "delta", body, imm) EXCEPT !.provisional = regular]
            n == Len(base.records)
            after == AppendRecord(base, r)
<1>1. after = Saved(graph, who, id, text, regular)
  BY DEF Saved
<1>2. r.storage = "delta"
  BY DEF Record
<1>3. /\ IsGraph(base) /\ base.records \in Seq(ToSet(base.records)) /\ n \in Nat
      /\ n <= Len(graph.records) /\ Len(graph.records) \in Nat
      /\ \A i \in 1 .. n : base.records[i] = graph.records[i]
      /\ \A i \in n + 1 .. Len(graph.records) : graph.records[i].provisional
  <2>1. Len(graph.records) \in Nat
    BY DEF IsHistory
  <2>. QED BY <2>1, SealedPlaces
<1>. HIDE DEF base, r
<1>4. /\ Len(after.records) = n + 1 /\ after.records[n + 1] = r
      /\ \A i \in 1 .. n : after.records[i] = base.records[i]
  BY <1>3, AppendedPlaces
<1>5. BuiltOn(graph.records, after.records, n)
  <2>. HIDE DEF n, after
  <2>. QED BY <1>2, <1>3, <1>4, OneMoreIsBuilt
<1>. QED BY <1>1, <1>5

(* ... a discard, ... *)
LEMMA DiscardedIsBuilt ==
  ASSUME NEW graph, IsHistory(graph)
  PROVE  \E n : BuiltOn(graph.records, Discarded(graph).records, n)
<1>. DEFINE after == Sealed(graph).records
            n == Len(after)
<1>1. /\ n \in Nat /\ n <= Len(graph.records)
      /\ \A i \in 1 .. n : after[i] = graph.records[i]
      /\ \A i \in n + 1 .. Len(graph.records) : graph.records[i].provisional
  BY SealedPlaces
<1>2. Len(graph.records) \in Nat
  BY DEF IsHistory
<1>3. n \in 0 .. Len(graph.records) /\ n + 1 .. n = {}
  <2>. HIDE DEF n
  <2>. QED BY <1>1, <1>2
<1>4. BuiltOn(graph.records, after, n)
  <2>. HIDE DEF after
  <2>. QED BY <1>1, <1>3 DEF BuiltOn, SaysSame
<1>. QED BY <1>4 DEF Discarded

(* ... a seal, ... *)
LEMMA ResealedIsBuilt ==
  ASSUME NEW graph, IsHistory(graph)
  PROVE  \E n : BuiltOn(graph.records, Resealed(graph).records, n)
<1>. DEFINE records == graph.records
            n == Len(records)
            after == [records EXCEPT ![n].provisional = FALSE]
<1>1. /\ n \in Nat \ {0} /\ DOMAIN records = 1 .. n /\ IsGraph(graph)
      /\ \A i \in 1 .. n : IsRecord(records[i])
      /\ records \in Seq(ToSet(records))
  BY LastOfRecords DEF IsHistory
<1>2. Resealed(graph).records = after
  BY <1>1 DEF Resealed, IsGraph
<1>3. /\ DOMAIN after = 1 .. n
      /\ \A i \in 1 .. n : after[i] = IF i = n THEN [records[n] EXCEPT !.provisional = FALSE]
                                      ELSE records[i]
  BY <1>1
<1>4. Len(after) = n
  <2>. HIDE DEF n
  <2>1. after = [i \in 1 .. n |-> after[i]]
    BY <1>1
  <2>. HIDE DEF after
  <2>2. after \in Seq({after[i] : i \in 1 .. n})
    BY <1>1, <2>1
  <2>. QED BY <1>1, <1>3, <2>2
<1>. HIDE DEF after
<1>5. \A i \in 1 .. n : SaysSame(records[i], after[i])
  <2>1. n \in 1 .. n
    BY <1>1
  <2>2. SaysSame(records[n], [records[n] EXCEPT !.provisional = FALSE])
    BY <1>1, <2>1 DEF SaysSame, IsRecord
  <2>3. \A i \in 1 .. n : SaysSame(records[i], records[i])
    BY DEF SaysSame
  <2>. HIDE DEF records, n
  <2>. QED BY <1>3, <2>2, <2>3
<1>6. n \in 0 .. n /\ n <= n /\ n + 1 .. n = {}
  <2>. HIDE DEF n
  <2>. QED BY <1>1
<1>7. BuiltOn(records, after, n)
  <2>. HIDE DEF records
  <2>. QED BY <1>4, <1>5, <1>6 DEF BuiltOn
<1>. QED BY <1>2, <1>7

(* ... and an event keep what there is. *)
LEMMA EventIsBuilt ==
  ASSUME NEW graph, IsHistory(graph), NEW slots, NEW who, NEW id, NEW event
  PROVE  \E n : BuiltOn(graph.records, AppendEvent(graph, slots, who, id, event).records, n)
<1>. DEFINE imm == Immutable("event", graph.head, None, {}, who,
                             Last(graph.records).imm.text, None, event)
            r == Record(id, "event", None, imm)
            base == [graph EXCEPT !.slots = slots]
            n == Len(graph.records)
            after == AppendRecord(base, r)
<1>1. after = AppendEvent(graph, slots, who, id, event)
  BY DEF AppendEvent
<1>2. ~OnLine(r)
  BY DEF OnLine, IsContent, Record, Immutable
<1>3. /\ IsGraph(base) /\ base.records = graph.records
      /\ graph.records \in Seq(ToSet(graph.records)) /\ n \in Nat
  BY DEF IsHistory, IsGraph
<1>. HIDE DEF base, r
<1>4. /\ Len(after.records) = n + 1 /\ after.records[n + 1] = r
      /\ \A i \in 1 .. n : after.records[i] = graph.records[i]
  BY <1>3, AppendedPlaces
<1>5. n <= n /\ n + 1 .. n = {}
  <2>. HIDE DEF n
  <2>. QED BY <1>3
<1>6. BuiltOn(graph.records, after.records, n)
  <2>. HIDE DEF after
  <2>1. \A i \in n + 1 .. Len(graph.records) : graph.records[i].provisional
    BY <1>5
  <2>. QED BY <1>2, <1>3, <1>4, <1>5, <2>1, OneMoreIsBuilt
<1>. QED BY <1>1, <1>6

(* A compaction as it stands in the history it makes: what comes after the   *)
(* cutoff is as it was, the cutoff has its text, and the rest loses its own. *)
LEMMA CompactedPlaces ==
  ASSUME NEW graph, IsHistory(graph), IsDecoded(graph), NEW retain, NEW who, NEW id,
         IsDecoded(Compacted(graph, retain, who, id))
  PROVE  LET records == graph.records
             n == Len(records)
             after == Compacted(graph, retain, who, id).records
         IN /\ Len(after) = n + 1 /\ ~OnLine(after[n + 1]) /\ IsCompaction(after[n + 1])
            /\ \A i \in 1 .. n : /\ after[i].id = records[i].id
                                 /\ OnLine(after[i]) <=> OnLine(records[i])
                                 /\ ~OnLine(records[i]) => after[i] = records[i]
            /\ \E j \in 1 .. n :
                 /\ Position(after, after[n + 1].imm.event.cutoff) = j
                 /\ OnLine(records[j]) /\ after[j].storage = "checkpoint"
                 /\ after[j].body = TextAfter(records)[j] /\ after[j].body # None
                 /\ \A i \in 1 .. j - 1 : OnLine(records[i]) => after[i].storage = "pruned"
                 /\ \A i \in j + 1 .. n : after[i] = records[i]
<1>. DEFINE records == graph.records
            n == Len(records)
            content == CanonicalContent(records)
            k == CompactionCutoff(graph, retain)
            cut == content[k].id
            cutoff == Position(records, cut)
            text(r) == Reconstruct(graph, r.id)
            stored(i) ==
              LET r == records[i] IN
              IF Foreign(r) \/ ~IsContent(r) \/ i > cutoff THEN r
              ELSE IF i = cutoff
              THEN [r EXCEPT !.storage = "checkpoint", !.body = text(r)]
              ELSE [r EXCEPT !.storage = "pruned", !.body = None]
            kept == [i \in DOMAIN records |-> stored(i)]
            base == [graph EXCEPT !.records = kept]
            event == [type |-> "compaction", cutoff |-> cut,
                      retained |-> Len(content) - k]
            imm == Immutable("event", base.head, None, {}, who,
                             Last(base.records).imm.text, None, event)
            r == Record(id, "event", None, imm)
            over == [base EXCEPT !.slots = graph.slots]
            compacted == Compacted(graph, retain, who, id)
            after == compacted.records
<1>1. compacted = AppendRecord(over, r)
  BY DEF Compacted, AppendEvent
<1>2. /\ n \in Nat \ {0} /\ DOMAIN records = 1 .. n /\ IsGraph(graph)
      /\ records \in Seq(ToSet(records)) /\ Backward(records)
      /\ \A i \in 1 .. n : IsRecord(records[i])
  BY DecodedFacts DEF IsHistory
<1>3. /\ ~OnLine(r) /\ IsCompaction(r) /\ r.imm.event.cutoff = cut
  <2>. HIDE DEF cut
  <2>1. event.type = "compaction" /\ event.cutoff = cut
    OBVIOUS
  <2>. HIDE DEF event
  <2>. QED BY <2>1 DEF OnLine, IsCompaction, IsContent, Foreign, Record, Immutable
<1>. HIDE DEF r, cut, text, compacted, cutoff
<1>4. \A i \in 1 .. n :
        /\ stored(i) = IF ~OnLine(records[i]) \/ i > cutoff THEN records[i]
                       ELSE IF i = cutoff
                       THEN [records[i] EXCEPT !.storage = "checkpoint", !.body = text(records[i])]
                       ELSE [records[i] EXCEPT !.storage = "pruned", !.body = None]
  BY DEF OnLine
<1>. HIDE DEF stored
<1>5. DOMAIN kept = 1 .. n /\ \A i \in 1 .. n : kept[i] = stored(i)
  BY <1>2
<1>6. kept \in Seq(ToSet(kept)) /\ Len(kept) = n
  <2>. DEFINE V == {stored(i) : i \in 1 .. n}
  <2>1. kept \in [1 .. n -> V]
    BY <1>2
  <2>. HIDE DEF n, V, kept
  <2>. QED BY <1>2, <2>1, ListOfElements
<1>. HIDE DEF kept
<1>7. IsGraph(over) /\ over.records = kept
  BY <1>2 DEF IsGraph
<1>. HIDE DEF over
<1>8. /\ Len(after) = n + 1 /\ after[n + 1] = r
      /\ \A i \in 1 .. n : after[i] = stored(i)
  <2>1. /\ Len(AppendRecord(over, r).records) = n + 1
        /\ AppendRecord(over, r).records[n + 1] = r
        /\ \A i \in 1 .. n : AppendRecord(over, r).records[i] = kept[i]
    BY <1>6, <1>7, AppendedPlaces
  <2>. QED BY <1>1, <1>5, <2>1
<1>. HIDE DEF n
<1>9. \A i \in 1 .. n : /\ after[i].id = records[i].id
                        /\ OnLine(after[i]) <=> OnLine(records[i])
                        /\ ~OnLine(records[i]) => after[i] = records[i]
  <2>. SUFFICES ASSUME NEW i \in 1 .. n
                PROVE  /\ stored(i).id = records[i].id
                       /\ OnLine(stored(i)) <=> OnLine(records[i])
                       /\ ~OnLine(records[i]) => stored(i) = records[i]
    BY <1>8
  <2>. DEFINE q == records[i]
  <2>1. IsRecord(q)
    BY <1>2
  <2>. HIDE DEF q, records
  <2>2. ASSUME NEW s, s # "foreign", NEW b, OnLine(q)
        PROVE  LET p == [q EXCEPT !.storage = s, !.body = b] IN p.id = q.id /\ OnLine(p)
    BY <2>1, <2>2 DEF IsRecord, OnLine, Foreign, IsContent
  <2>3. /\ OnLine(q) => /\ [q EXCEPT !.storage = "checkpoint", !.body = text(q)].id = q.id
                        /\ OnLine([q EXCEPT !.storage = "checkpoint", !.body = text(q)])
        /\ OnLine(q) => /\ [q EXCEPT !.storage = "pruned", !.body = None].id = q.id
                        /\ OnLine([q EXCEPT !.storage = "pruned", !.body = None])
    BY <2>2
  <2>. QED BY <1>4, <2>3 DEF q
<1>10. n + 1 \in 1 .. Len(after) /\ IsCompaction(after[n + 1])
  BY <1>2, <1>3, <1>8
<1>11. PICK j \in 1 .. n : after[j].id = cut /\ Position(after, cut) = j
  <2>1. (n + 1) - 1 = n
    BY <1>2
  <2>2. \E j \in 1 .. (n + 1) - 1 :
          /\ compacted.records[j].id = compacted.records[n + 1].imm.event.cutoff
          /\ Position(compacted.records, compacted.records[n + 1].imm.event.cutoff) = j
    BY <1>10, CutoffStands DEF compacted
  <2>. QED BY <1>3, <1>8, <2>1, <2>2
<1>12. j = cutoff
  <2>1. records[j].id = cut /\ j \in 1 .. Len(records)
    BY <1>9, <1>11 DEF n
  <2>. QED BY <1>2, <2>1, FoundAtItsPlace DEF cutoff
<1>13. OnLine(records[j])
  <2>1. OnLine(after[j])
    <3>1. DOMAIN after = 1 .. Len(after)
      BY DecodedFacts DEF compacted
    <3>2. CompactionsAgree(after)
      BY DEF IsDecoded, Consistent, compacted
    <3>. HIDE DEF after
    <3>3. /\ ~Foreign(after[Position(after, after[n + 1].imm.event.cutoff)])
          /\ IsContent(after[Position(after, after[n + 1].imm.event.cutoff)])
      BY <1>10, <3>1, <3>2 DEF CompactionsAgree
    <3>. QED BY <1>3, <1>8, <1>11, <3>3 DEF OnLine
  <2>. QED BY <1>9, <2>1
<1>14. /\ after[j] = [records[j] EXCEPT !.storage = "checkpoint", !.body = text(records[j])]
       /\ after[j].storage = "checkpoint" /\ after[j].body = text(records[j])
  <2>1. after[j] = [records[j] EXCEPT !.storage = "checkpoint", !.body = text(records[j])]
    <3>1. ~(j > cutoff)
      BY <1>2, <1>12
    <3>. HIDE DEF after, records
    <3>. QED BY <1>4, <1>8, <1>12, <1>13, <3>1
  <2>2. IsRecord(records[j])
    BY <1>2
  <2>. HIDE DEF after
  <2>. QED BY <2>1, <2>2 DEF IsRecord
<1>15. text(records[j]) = TextAfter(records)[j]
  <2>1. j \in 1 .. Len(records) /\ ~Foreign(records[j])
    BY <1>13 DEF n, OnLine
  <2>. QED BY <1>2, <2>1, TextAtItsPlace DEF text
<1>16. after[j].body # None
  <2>1. j \in 1 .. Len(after)
    BY <1>2, <1>8
  <2>2. WellFormed(after[j])
    BY <2>1, DecodedFacts DEF compacted
  <2>. QED BY <1>14, <2>2 DEF WellFormed
<1>17. ASSUME NEW i \in 1 .. j - 1, OnLine(records[i]) PROVE after[i].storage = "pruned"
  <2>1. i \in 1 .. n /\ ~(i > cutoff) /\ i # cutoff
    BY <1>2, <1>12
  <2>2. after[i] = [records[i] EXCEPT !.storage = "pruned", !.body = None]
    BY <1>4, <1>8, <1>17, <2>1
  <2>3. IsRecord(records[i])
    BY <1>2, <2>1
  <2>. HIDE DEF after
  <2>. QED BY <2>2, <2>3 DEF IsRecord
<1>18. ASSUME NEW i \in j + 1 .. n PROVE after[i] = records[i]
  <2>1. i \in 1 .. n /\ i > cutoff
    BY <1>2, <1>12
  <2>. QED BY <1>4, <1>8, <2>1
<1>. HIDE DEF records
<1>19. /\ Position(after, after[n + 1].imm.event.cutoff) = j
       /\ OnLine(records[j]) /\ after[j].storage = "checkpoint"
       /\ after[j].body = TextAfter(records)[j] /\ after[j].body # None
       /\ \A i \in 1 .. j - 1 : OnLine(records[i]) => after[i].storage = "pruned"
       /\ \A i \in j + 1 .. n : after[i] = records[i]
  BY <1>3, <1>8, <1>11, <1>13, <1>14, <1>15, <1>16, <1>17, <1>18
<1>. QED BY <1>3, <1>8, <1>9, <1>19 DEF records, n, compacted

(* A compaction loses the texts before its cutoff, and those only. *)
LEMMA CompactedKeepsTexts ==
  ASSUME NEW graph, IsHistory(graph), IsDecoded(graph), NEW retain, NEW who, NEW id,
         IsDecoded(Compacted(graph, retain, who, id)), Worded(graph.records)
  PROVE  /\ Worded(Compacted(graph, retain, who, id).records)
         /\ KeepsTexts(graph, Compacted(graph, retain, who, id))
<1>. DEFINE compacted == Compacted(graph, retain, who, id)
            a == graph.records
            b == compacted.records
            n == Len(a)
<1>1. /\ Len(b) = n + 1 /\ ~OnLine(b[n + 1]) /\ IsCompaction(b[n + 1])
      /\ \A i \in 1 .. n : /\ b[i].id = a[i].id
                           /\ OnLine(b[i]) <=> OnLine(a[i])
                           /\ ~OnLine(a[i]) => b[i] = a[i]
  BY CompactedPlaces
<1>2. PICK j \in 1 .. n :
        /\ Position(b, b[n + 1].imm.event.cutoff) = j
        /\ OnLine(a[j]) /\ b[j].storage = "checkpoint"
        /\ b[j].body = TextAfter(a)[j] /\ b[j].body # None
        /\ \A i \in 1 .. j - 1 : OnLine(a[i]) => b[i].storage = "pruned"
        /\ \A i \in j + 1 .. n : b[i] = a[i]
  BY CompactedPlaces
<1>. HIDE DEF compacted
<1>3. /\ n \in Nat \ {0}
      /\ a \in Seq(ToSet(a)) /\ Backward(a) /\ b \in Seq(ToSet(b)) /\ Backward(b)
      /\ TextsFollow(TextAfter(a), a, n) /\ TextsFollow(TextAfter(b), b, n + 1)
      /\ \A i \in 1 .. n + 1 : b[i] \in ToSet(b)
  BY <1>1, DecodedFacts DEF IsDecoded, compacted
<1>4. \A i \in 1 .. n : i \in 1 .. n + 1
  <2>. HIDE DEF n
  <2>. QED BY <1>3
<1>5. TextAfter(b)[j] = TextAfter(a)[j]
  <2>1. TextAfter(b)[j] = TextOn(TextAfter(b)[j - 1], b[j])
    BY <1>3, <1>4 DEF TextsFollow
  <2>2. OnLine(b[j])
    BY <1>1, <1>2
  <2>. HIDE DEF a, b
  <2>. QED BY <1>2, <2>1, <2>2 DEF TextOn, OnLine
<1>6. \A i \in j .. n : TextAfter(b)[i] = TextAfter(a)[i]
  <2>1. /\ Len(a) \in Nat /\ Len(b) \in Nat /\ j \in Nat /\ n \in Nat
        /\ n <= Len(a) /\ n <= Len(b)
    <3>. HIDE DEF b
    <3>1. n \in Nat /\ j \in Nat /\ n <= n + 1 /\ n + 1 \in Nat
      BY <1>3
    <3>. QED BY <1>1, <3>1
  <2>2. \A i \in j + 1 .. n : SaysSame(b[i], a[i])
    BY <1>2 DEF SaysSame
  <2>. HIDE DEF a, b, n
  <2>. QED BY <1>5, <2>1, <2>2, TextsCoincide
<1>. HIDE DEF a, b, n
<1>7. ASSUME NEW i \in 1 .. n + 1, OnLine(b[i])
      PROVE  IF b[i].storage # "pruned" THEN TextAfter(b)[i] # None
             ELSE \E e \in 1 .. n + 1 :
                    IsCompaction(b[e]) /\ i < Position(b, b[e].imm.event.cutoff)
  <2>1. i \in 1 .. n /\ OnLine(a[i])
    <3>1. i # n + 1
      BY <1>1, <1>7
    <3>2. i \in 1 .. n
      BY <1>3, <3>1
    <3>. QED BY <1>1, <1>7, <3>2
  <2>2. CASE i < j
    <3>1. i \in 1 .. j - 1 /\ n + 1 \in 1 .. n + 1
      BY <1>3, <2>2
    <3>. QED BY <1>1, <1>2, <2>1, <2>2, <3>1
  <2>3. CASE i = j
    BY <1>2, <1>5, <2>3
  <2>4. CASE i > j
    <3>1. i \in j + 1 .. n /\ i \in j .. n
      BY <2>1, <2>4
    <3>2. b[i] = a[i] /\ TextAfter(b)[i] = TextAfter(a)[i]
      BY <1>2, <1>6, <3>1
    <3>3. CASE b[i].storage # "pruned"
      BY <2>1, <3>2, <3>3 DEF Worded, a, n
    <3>4. CASE b[i].storage = "pruned"
      <4>1. PICK e \in 1 .. n : IsCompaction(a[e]) /\ i < Position(a, a[e].imm.event.cutoff)
        BY <2>1, <3>2, <3>4 DEF Worded, a, n
      <4>2. PICK l \in 1 .. e - 1 : /\ a[l].id = a[e].imm.event.cutoff
                                    /\ Position(a, a[e].imm.event.cutoff) = l
        BY <4>1, CutoffStands DEF a, n
      <4>3. l \in 1 .. n
        BY <1>3
      <4>4. b[e] = a[e]
        BY <1>1, <4>1 DEF OnLine, IsContent, IsCompaction
      <4>5. b[l].id = b[e].imm.event.cutoff
        BY <1>1, <4>2, <4>3, <4>4
      <4>6. l \in 1 .. Len(b)
        BY <1>1, <1>4, <4>3
      <4>7. Position(b, b[e].imm.event.cutoff) = l
        BY <1>3, <4>5, <4>6, FoundAtItsPlace
      <4>. QED BY <1>4, <3>4, <4>1, <4>2, <4>4, <4>7
    <3>. QED BY <3>3, <3>4
  <2>. QED BY <2>1, <2>2, <2>3, <2>4
<1>8. ASSUME NEW r \in ToSet(CanonicalContent(a)), Reconstruct(graph, r.id) # None
      PROVE  \/ /\ r.id \in Ids(b) /\ b[Position(b, r.id)].storage # "pruned"
                /\ Reconstruct(compacted, r.id) = Reconstruct(graph, r.id)
             \/ \E e \in ToSet(b) :
                  /\ IsCompaction(e) /\ r.id \in Ids(b)
                  /\ Position(b, r.id) < Position(b, e.imm.event.cutoff)
  <2>1. OnLine(r) /\ \E i \in 1 .. n : r = a[i]
    BY <1>3, <1>8, LineOf DEF n
  <2>2. PICK i \in 1 .. n : r = a[i]
    BY <2>1
  <2>3. /\ i \in 1 .. Len(b) /\ b[i].id = r.id /\ OnLine(b[i])
        /\ Position(b, r.id) = i /\ r.id \in Ids(b)
    <3>1. i \in 1 .. Len(b) /\ b[i].id = r.id /\ OnLine(b[i])
      BY <1>1, <1>4, <2>1, <2>2
    <3>. QED BY <1>3, <3>1, FoundAtItsPlace
  <2>4. CASE i < j
    <3>1. n + 1 \in 1 .. n + 1
      BY <1>3
    <3>. QED BY <1>1, <1>2, <1>3, <2>3, <2>4, <3>1
  <2>5. CASE i >= j
    <3>1. Reconstruct(graph, r.id) = TextAfter(a)[i]
      BY <1>3, <2>1, <2>2, TextAtItsPlace DEF OnLine, a, n
    <3>2. Reconstruct(compacted, r.id) = TextAfter(b)[i]
      BY <1>3, <2>3, TextAtItsPlace DEF OnLine, b
    <3>3. TextAfter(b)[i] = TextAfter(a)[i]
      <4>1. i \in j .. n
        BY <2>5
      <4>. QED BY <1>6, <4>1
    <3>4. b[i].storage # "pruned"
      <4>. SUFFICES ASSUME b[i].storage = "pruned" PROVE FALSE
        OBVIOUS
      <4>1. TextAfter(b)[i] = TextOn(TextAfter(b)[i - 1], b[i])
        BY <1>3, <1>4 DEF TextsFollow
      <4>2. TextOn(TextAfter(b)[i - 1], b[i]) = None
        BY <2>3 DEF TextOn, OnLine
      <4>. QED BY <1>8, <3>1, <3>3, <4>1, <4>2
    <3>. QED BY <2>3, <3>1, <3>2, <3>3, <3>4
  <2>. QED BY <2>4, <2>5
<1>9. Worded(b)
  BY <1>1, <1>7 DEF Worded
<1>10. KeepsTexts(graph, compacted)
  BY <1>8 DEF KeepsTexts, a, b
<1>. QED BY <1>9, <1>10 DEF compacted, b

(* A merge goes on from one's own history: then come the records taken in,   *)
(* without their bodies, and the merge.                                      *)
LEMMA MergedPlaces ==
  ASSUME NEW own, IsHistory(own), NEW there, IsHistory(there),
         NEW who, NEW id, NEW text
  PROVE  LET after == Merged(own, there, who, id, text).records
         IN /\ BuiltOn(own.records, after, Len(own.records))
            /\ \A r \in ToSet(there.records) : r.id \notin Ids(own.records) =>
                 \E i \in 1 .. Len(after) : after[i].id = r.id /\ Foreign(after[i])
<1>. DEFINE S == {r \in ToSet(there.records) : r.id \notin Ids(own.records)}
            unknown == Only(there.records, S)
            import(r) == [Record(r.id, "foreign", None, r.imm) EXCEPT !.resolvedBy = id]
            imports == [i \in DOMAIN unknown |-> import(unknown[i])]
            body == Splice(HeadText(own), text)
            imm == Immutable("content", own.head, own.contentHead, {there.head}, who,
                             text, body, None)
            mine == own.records
            joined == mine \o imports
            base == [own EXCEPT !.slots = there.slots, !.records = joined]
            merge == Record(id, "delta", body, imm)
            m == Len(mine)
            n == Len(unknown)
            after == Merged(own, there, who, id, text).records
<1>1. Merged(own, there, who, id, text) = AppendRecord(base, merge)
  BY DEF Merged
<1>2. /\ mine \in Seq(ToSet(mine)) /\ m \in Nat /\ IsGraph(own)
      /\ there.records \in Seq(ToSet(there.records))
  BY DEF IsHistory
<1>3. unknown \in Seq(S) /\ ToSet(unknown) = S
  <2>1. /\ unknown \in Seq(ToSet(there.records) \cap S)
        /\ ToSet(unknown) = ToSet(there.records) \cap S
    <3>. HIDE DEF S
    <3>. QED BY <1>2, OnlyRange
  <2>2. ToSet(there.records) \cap S = S
    OBVIOUS
  <2>. HIDE DEF unknown, S
  <2>. QED BY <2>1, <2>2
<1>. HIDE DEF unknown, body, imm
<1>4. \A r : import(r).id = r.id /\ Foreign(import(r)) /\ ~OnLine(import(r))
  BY DEF Record, Foreign, OnLine
<1>5. merge.storage = "delta"
  BY DEF Record
<1>. HIDE DEF import, S, merge
<1>6. /\ DOMAIN unknown = 1 .. n /\ n \in Nat /\ S = {unknown[i] : i \in 1 .. n}
  BY <1>3 DEF ToSet
<1>7. /\ imports \in Seq({import(r) : r \in S}) /\ Len(imports) = n
      /\ \A i \in 1 .. n : imports[i] = import(unknown[i])
  BY <1>3, <1>6
<1>. HIDE DEF imports
<1>8. /\ joined \in Seq(ToSet(joined)) /\ Len(joined) = m + n
      /\ \A i \in 1 .. m : joined[i] = mine[i]
      /\ \A k \in 1 .. n : joined[m + k] = import(unknown[k])
  <2>. DEFINE W == ToSet(mine) \cup {import(r) : r \in S}
  <2>1. /\ mine \in Seq(W) /\ imports \in Seq(W)
    BY <1>2, <1>7
  <2>. HIDE DEF W, joined, mine
  <2>2. /\ mine \o imports \in Seq(W) /\ Len(mine \o imports) = Len(mine) + Len(imports)
        /\ \A i \in 1 .. Len(mine) : (mine \o imports)[i] = mine[i]
        /\ \A k \in 1 .. Len(imports) : (mine \o imports)[Len(mine) + k] = imports[k]
    BY <2>1, Concatenated
  <2>3. joined \in Seq(ToSet(joined))
    <3>1. mine \o imports \in Seq(ToSet(mine \o imports))
      BY <2>1, Joined
    <3>. QED BY <3>1 DEF joined
  <2>. QED BY <1>7, <2>2, <2>3 DEF joined
<1>. HIDE DEF joined
<1>9. IsGraph(base) /\ base.records = joined
  BY <1>2 DEF IsGraph
<1>. HIDE DEF base
<1>10. /\ Len(after) = m + n + 1 /\ after[m + n + 1] = merge
       /\ \A i \in 1 .. m + n : after[i] = joined[i]
  BY <1>1, <1>8, <1>9, AppendedPlaces
<1>. HIDE DEF after, mine, m, n
<1>11. /\ \A i \in 1 .. m : i \in 1 .. m + n
       /\ \A k \in 1 .. n : m + k \in 1 .. m + n /\ m + k \in 1 .. m + n + 1
       /\ m + n \in Nat /\ m \in 0 .. m /\ m <= m + n + 1 /\ m + 1 .. m = {}
  BY <1>2, <1>6
<1>12. \A i \in 1 .. m : SaysSame(mine[i], after[i])
  BY <1>8, <1>10, <1>11 DEF SaysSame
<1>13. ASSUME NEW i \in m + 1 .. m + n + 1
       PROVE  OnLine(after[i]) => i = m + n + 1 /\ after[i].storage # "pruned"
  <2>1. CASE i = m + n + 1
    BY <1>5, <1>10, <2>1
  <2>2. CASE i # m + n + 1
    <3>1. i - m \in 1 .. n /\ m + (i - m) = i
      BY <1>2, <1>6, <2>2
    <3>2. after[i] = import(unknown[i - m])
      BY <1>8, <1>10, <1>11, <3>1
    <3>. QED BY <1>4, <3>2
  <2>. QED BY <2>1, <2>2
<1>14. BuiltOn(mine, after, m)
  <2>1. m \in 0 .. Len(mine) /\ \A i \in m + 1 .. Len(mine) : mine[i].provisional
    BY <1>11 DEF m
  <2>. QED BY <1>10, <1>11, <1>12, <1>13, <2>1 DEF BuiltOn
<1>15. ASSUME NEW r \in ToSet(there.records), r.id \notin Ids(mine)
       PROVE  \E i \in 1 .. Len(after) : after[i].id = r.id /\ Foreign(after[i])
  <2>1. r \in S
    BY <1>15 DEF S, mine
  <2>2. PICK k \in 1 .. n : r = unknown[k]
    BY <1>6, <2>1
  <2>3. after[m + k] = import(r)
    BY <1>8, <1>10, <1>11, <2>2
  <2>. QED BY <1>4, <1>10, <1>11, <2>3
<1>. QED BY <1>14, <1>15 DEF after, mine, m

(* A merge keeps the texts of the target, but for what it takes in and for   *)
(* what one's own compactions have cut.                                      *)
LEMMA MergedKeepsTexts ==
  ASSUME NEW own, IsHistory(own), IsDecoded(own), Worded(own.records),
         NEW there, IsHistory(there), IsDecoded(there),
         \A r \in ToSet(own.records), s \in ToSet(there.records) :
           r.id = s.id => r.imm = s.imm,
         NEW who, NEW id, NEW text, IsDecoded(Merged(own, there, who, id, text))
  PROVE  /\ Worded(Merged(own, there, who, id, text).records)
         /\ KeepsTexts(there, Merged(own, there, who, id, text))
<1>. DEFINE merged == Merged(own, there, who, id, text)
            a == own.records
            b == merged.records
            c == there.records
            m == Len(a)
<1>1. /\ BuiltOn(a, b, m)
      /\ \A r \in ToSet(c) : r.id \notin Ids(a) =>
           \E i \in 1 .. Len(b) : b[i].id = r.id /\ Foreign(b[i])
  BY MergedPlaces
<1>. HIDE DEF merged
<1>2. Worded(b)
  BY <1>1, BuiltIsWorded DEF merged
<1>3. \A i \in 1 .. m : TextAfter(b)[i] = TextAfter(a)[i]
  BY <1>1, BuiltHasTexts DEF merged
<1>4. /\ a \in Seq(ToSet(a)) /\ Backward(a) /\ b \in Seq(ToSet(b)) /\ Backward(b)
      /\ c \in Seq(ToSet(c)) /\ Backward(c)
      /\ m \in Nat /\ DOMAIN a = 1 .. m /\ \A i \in 1 .. m : a[i] \in ToSet(a)
      /\ \A i \in 1 .. m : OnLine(a[i]) /\ TextAfter(a)[i] # None =>
           TextAfter(a)[i] = a[i].imm.text
      /\ \A i \in 1 .. Len(c) : OnLine(c[i]) /\ TextAfter(c)[i] # None =>
           TextAfter(c)[i] = c[i].imm.text
      /\ Len(b) \in Nat /\ \A i \in 1 .. Len(b) : b[i] \in ToSet(b)
  BY DecodedFacts DEF IsDecoded, merged
<1>5. \A i \in 1 .. m : i \in 1 .. Len(b) /\ SaysSame(a[i], b[i])
  <2>. HIDE DEF a, b
  <2>1. m <= Len(b) /\ \A i \in 1 .. m : SaysSame(a[i], b[i])
    BY <1>1 DEF BuiltOn
  <2>. HIDE DEF m
  <2>. QED BY <1>4, <2>1
<1>6. ASSUME NEW r \in ToSet(CanonicalContent(c)), Reconstruct(there, r.id) # None
      PROVE  \/ /\ r.id \in Ids(b) /\ b[Position(b, r.id)].storage # "pruned"
                /\ Reconstruct(merged, r.id) = Reconstruct(there, r.id)
             \/ \E e \in ToSet(b) :
                  /\ IsCompaction(e) /\ r.id \in Ids(b)
                  /\ Position(b, r.id) < Position(b, e.imm.event.cutoff)
             \/ r.id \in Ids(b) /\ Foreign(b[Position(b, r.id)])
  <2>1. OnLine(r) /\ \E l \in 1 .. Len(c) : r = c[l]
    BY <1>4, <1>6, LineOf
  <2>2. PICK l \in 1 .. Len(c) : r = c[l]
    BY <2>1
  <2>3. ASSUME NEW i \in 1 .. Len(b), b[i].id = r.id
        PROVE  Position(b, r.id) = i /\ r.id \in Ids(b)
    BY <1>4, <2>3, FoundAtItsPlace
  <2>4. CASE r.id \notin Ids(a)
    <3>1. r \in ToSet(c)
      BY <1>4, <2>2 DEF ToSet
    <3>2. PICK i \in 1 .. Len(b) : b[i].id = r.id /\ Foreign(b[i])
      BY <1>1, <2>4, <3>1
    <3>. QED BY <2>3, <3>2
  <2>5. CASE r.id \in Ids(a)
    <3>1. PICK i \in 1 .. m : a[i].id = r.id
      BY <1>4, <2>5 DEF Ids
    <3>2. i \in 1 .. Len(b) /\ SaysSame(a[i], b[i]) /\ TextAfter(b)[i] = TextAfter(a)[i]
      BY <1>3, <1>5, <3>1
    <3>3. b[i].id = r.id /\ Position(b, r.id) = i /\ r.id \in Ids(b)
      BY <2>3, <3>1, <3>2 DEF SaysSame
    <3>4. a[i].imm = r.imm
      <4>1. r \in ToSet(c) /\ a[i] \in ToSet(a)
        BY <1>4, <2>2, <3>1 DEF ToSet
      <4>. QED BY <3>1, <4>1
    <3>5. CASE Foreign(b[i])
      BY <3>3, <3>5
    <3>6. CASE ~Foreign(b[i])
      <4>1. OnLine(a[i]) /\ OnLine(b[i]) /\ a[i].storage = b[i].storage
        BY <2>1, <3>2, <3>4, <3>6 DEF SaysSame, OnLine, Foreign, IsContent
      <4>2. CASE b[i].storage = "pruned"
        <5>1. PICK e \in 1 .. Len(b) :
                IsCompaction(b[e]) /\ i < Position(b, b[e].imm.event.cutoff)
          BY <1>2, <3>2, <4>1, <4>2 DEF Worded
        <5>. QED BY <1>4, <3>3, <5>1
      <4>3. CASE b[i].storage # "pruned"
        <5>1. TextAfter(a)[i] = a[i].imm.text
          BY <1>4, <3>1, <4>1, <4>3 DEF Worded
        <5>2. Reconstruct(merged, r.id) = TextAfter(b)[i]
          BY <1>4, <3>2, <3>3, <3>6, TextAtItsPlace
        <5>3. Reconstruct(there, r.id) = TextAfter(c)[l]
          BY <1>4, <2>1, <2>2, TextAtItsPlace DEF OnLine
        <5>4. TextAfter(c)[l] = r.imm.text
          BY <1>4, <1>6, <2>1, <2>2, <5>3
        <5>. QED BY <3>2, <3>3, <3>4, <4>3, <5>1, <5>2, <5>3, <5>4
      <4>. QED BY <4>2, <4>3
    <3>. QED BY <3>5, <3>6
  <2>. QED BY <2>4, <2>5
<1>7. KeepsTexts(there, merged)
  <2>. HIDE DEF b
  <2>. QED BY <1>6 DEF KeepsTexts, b, c
<1>. QED BY <1>2, <1>7 DEF merged

-----------------------------------------------------------------------------
(* The texts of the first documents *)

(* A revision that has its body in full. *)
InFull(r) == IsContent(r) => r.storage = "full" /\ r.body # None

(* A history of such revisions has all its texts. *)
LEMMA FullIsWorded ==
  ASSUME NEW records, records \in Seq(ToSet(records)),
         \A r \in ToSet(records) : InFull(r)
  PROVE  Worded(records)
<1>1. /\ Len(records) \in Nat
      /\ \A i \in 1 .. Len(records) : records[i] \in ToSet(records)
  BY DEF ToSet
<1>2. TextsFollow(TextAfter(records), records, Len(records))
  BY <1>1, TextByRecursion
<1>3. ASSUME NEW i \in 1 .. Len(records), OnLine(records[i])
      PROVE  records[i].storage = "full" /\ TextAfter(records)[i] # None
  <2>1. records[i].storage = "full" /\ records[i].body # None
    BY <1>1, <1>3 DEF InFull, OnLine
  <2>2. TextAfter(records)[i] = TextOn(TextAfter(records)[i - 1], records[i])
    BY <1>2 DEF TextsFollow
  <2>. QED BY <1>3, <2>1, <2>2 DEF TextOn, OnLine
<1>. QED BY <1>3 DEF Worded

(* An event has no body to keep. *)
LEMMA EventInFull ==
  ASSUME NEW id, NEW imm, imm.kind = "event"
  PROVE  InFull(Record(id, "event", None, imm))
BY DEF InFull, IsContent, Record

(* The baseline has the first text. *)
LEMMA CreatedInFull ==
  ASSUME NEW recovery
  PROVE  \A r \in ToSet(Create(Owner, Sole(Owner), Recovery, recovery, Owner,
                               <<Owner, 0>>, Initial).graph.records) : InFull(r)
<1>. DEFINE graph == Create(Owner, Sole(Owner), Recovery, recovery, Owner, <<Owner, 0>>,
                            Initial).graph
            r == Record(<<Owner, 0>>, "full", Initial,
                        Immutable("baseline", None, None, {}, Owner, Initial, Initial, None))
<1>1. graph.records = <<r>>
  BY DEF Create, Baseline
<1>2. Initial # None
  BY TextsAreTexts DEF Initial
<1>3. InFull(r)
  BY <1>2 DEF InFull, Record
<1>. HIDE DEF graph, r
<1>4. ToSet(<<r>>) = {r}
  BY DEF ToSet
<1>. QED BY <1>1, <1>3, <1>4 DEF graph

(* A change of the members adds an event. *)
LEMMA AmendedInFull ==
  ASSUME NEW doc, IsSealed(doc.graph), NEW change, NEW who, NEW id,
         \A r \in ToSet(doc.graph.records) : InFull(r)
  PROVE  \A r \in ToSet(Amend(doc, change, who, id).graph.records) : InFull(r)
<1>. DEFINE graph == Amend(doc, change, who, id).graph
            records == doc.graph.records
            imm == Immutable("event", doc.graph.head, None, {}, who,
                             Last(records).imm.text, None, change.event)
            r == Record(id, "event", None, imm)
            over == [doc.graph EXCEPT !.slots = change.slots]
<1>1. graph = AppendEvent(doc.graph, change.slots, who, id, change.event)
  BY DEF Amend, ReplaceSlots
<1>2. over.records = records /\ over.head = doc.graph.head /\ IsGraph(over)
  BY DEF IsSealed, IsGraph
<1>3. graph = AppendRecord(over, r)
  BY <1>1, <1>2 DEF AppendEvent
<1>4. InFull(r)
  BY EventInFull DEF Immutable
<1>. HIDE DEF over, r, graph
<1>5. graph.records = Append(records, r)
  BY <1>2, <1>3 DEF AppendRecord, IsGraph
<1>6. ToSet(Append(records, r)) = ToSet(records) \cup {r}
  BY OneMoreRecord DEF IsSealed
<1>. QED BY <1>4, <1>5, <1>6 DEF graph

(* So the shared document has its text in full, ... *)
LEMMA SharedInFull == \A r \in ToSet(Shared.graph.records) : InFull(r)
<1>. DEFINE created == Create(Owner, Sole(Owner), Recovery, Recovery, Owner, <<Owner, 0>>,
                              Initial)
            invite == Invite(created.graph.slots, Guest, Rights)
            invited == Amend(created, invite, Owner, <<Owner, -1>>)
            claim == Claim(invited.graph.slots, invited.graph.slots[2])
<1>1. Shared = Amend(invited, claim, Guest, <<Guest, 0>>)
  BY DEF Shared
<1>2. IsSealed(created.graph) /\ \A r \in ToSet(created.graph.records) : InFull(r)
  BY CreatedIs, CreatedInFull
<1>. HIDE DEF created, invite
<1>3. IsSealed(invited.graph) /\ \A r \in ToSet(invited.graph.records) : InFull(r)
  BY <1>2, AmendedIs, AmendedInFull
<1>. HIDE DEF invited, claim
<1>. QED BY <1>1, <1>3, AmendedInFull

(* ... the long one too, ... *)
LEMMA LongInFull == \A r \in ToSet(Long.graph.records) : InFull(r)
<1>. DEFINE before == Shared.graph
            count == MaxEntries - 1 - Len(before.records)
            id(n) == IF n = 0 THEN before.head ELSE <<Owner, -1 - n>>
            imm(n) == Immutable("event", id(n - 1), None, {}, Owner, Initial, None,
                                [type |-> "identity-reconciled", slot |-> Owner])
            reconciled(n) == Record(id(n), "event", None, imm(n))
            tail == [n \in 1 .. count |-> reconciled(n)]
            head == id(count)
<1>1. Long = [Shared EXCEPT !.graph.head = head, !.graph.records = @ \o tail]
  BY DEF Long
<1>2. /\ before.records \in Seq(ToSet(before.records)) /\ before.records # <<>>
      /\ IsGraph(before)
      /\ Shared \in [wrappers: {Shared.wrappers}, graph: {Shared.graph}]
  BY SharedIs DEF IsSealed
<1>3. Long.graph.records = before.records \o tail
  <2>. HIDE DEF head, tail
  <2>. QED BY <1>1, <1>2 DEF IsGraph
<1>4. \A n : InFull(reconciled(n))
  <2>1. \A n : imm(n).kind = "event"
    BY DEF Immutable
  <2>. HIDE DEF imm, id
  <2>. QED BY <2>1, EventInFull
<1>5. count \in Nat
  <2>. DEFINE m == Len(before.records)
  <2>1. m = 3
    BY SharedChain
  <2>. HIDE DEF m
  <2>. QED BY <2>1, BoundsAreNaturals DEF m
<1>. HIDE DEF count, reconciled
<1>6. \A r \in ToSet(tail) : InFull(r)
  <2>1. DOMAIN tail = 1 .. count /\ \A n \in 1 .. count : tail[n] = reconciled(n)
    OBVIOUS
  <2>. HIDE DEF tail
  <2>. QED BY <1>4, <2>1 DEF ToSet
<1>7. ToSet(before.records \o tail) = ToSet(before.records) \cup ToSet(tail)
  <2>1. tail \in Seq(ToSet(tail))
    <3>1. tail \in Seq({reconciled(n) : n \in 1 .. count})
      BY <1>5
    <3>. HIDE DEF tail
    <3>. QED BY <3>1 DEF ToSet
  <2>. HIDE DEF tail
  <2>. QED BY <1>2, <2>1, Joined
<1>. QED BY <1>3, <1>6, <1>7, SharedInFull

(* ... and is worded. *)
LEMMA FirstIsWorded ==
  ASSUME NEW doc \in {Fresh, Shared, Long}, IsDocument(doc)
  PROVE  Worded(doc.graph.records)
<1>1. \A r \in ToSet(doc.graph.records) : InFull(r)
  BY CreatedInFull, SharedInFull, LongInFull DEF Fresh
<1>. QED BY <1>1, FullIsWorded DEF IsDocument, IsHistory

-----------------------------------------------------------------------------
(* The invariant of the texts *)

(* Every document is worded, and a candidate keeps the texts of the replica *)
(* it was made over.                                                        *)
TextsInv ==
  /\ \A doc \in Documents : Worded(doc.graph.records)
  /\ \A c \in Clients :
       pending[c] # None => KeepsTexts(held[c].graph, pending[c].graph)

(* What a client has opened is a decoded document. *)
LEMMA OpenedIsDecoded ==
  ASSUME IInv, NEW c \in Clients, NEW doc \in Documents, Unlocks(c, doc)
  PROVE  IsHistory(doc.graph) /\ IsDecoded(doc.graph)
BY DEF IInv, IsDocument, IsHistory, IsDecoded, Unlocks, Decodes, Valid

(* So is what a client holds. *)
LEMMA HeldIsDecoded ==
  ASSUME IInv, NEW c \in Clients, held[c] # None
  PROVE  /\ held[c] \in Documents /\ IsHistory(held[c].graph) /\ IsDecoded(held[c].graph)
<1>1. held[c] \in Documents /\ Unlocks(c, held[c])
  BY DEF IInv, Replicas, Documents
<1>. QED BY <1>1, OpenedIsDecoded

(* A client that made a candidate that is worded and keeps the texts. *)
LEMMA MadeIsWorded ==
  ASSUME IInv, TextsInv, NEW c \in Clients, NEW doc, NEW base, Makes(c, doc, base),
         Worded(doc.graph.records), KeepsTexts(base.graph, doc.graph)
  PROVE  TextsInv'
<1>1. /\ held = [d \in Clients |-> held[d]] /\ pending = [d \in Clients |-> pending[d]]
  BY DEF IInv, Replicas
<1>2. /\ \A d \in Clients : held'[d] = IF d = c THEN base ELSE held[d]
      /\ \A d \in Clients : pending'[d] = IF d = c THEN doc ELSE pending[d]
      /\ target' = target /\ base \in Documents
  BY <1>1 DEF Makes
<1>3. Documents' \subseteq Documents \cup {doc}
  BY <1>2 DEF Documents
<1>4. \A d \in Clients : pending'[d] # None => KeepsTexts(held'[d].graph, pending'[d].graph)
  BY <1>2 DEF TextsInv
<1>. QED BY <1>3, <1>4 DEF TextsInv

(* What a client prepares from the replica it holds, if it decodes, is worded *)
(* and keeps the texts.                                                       *)
LEMMA KeepIsWorded ==
  ASSUME IInv, IInv', TextsInv, NEW c \in Clients, Idle(c), NEW doc, NEW reopened,
         Keep(c, doc, reopened),
         IsDecoded(doc.graph) => /\ Worded(doc.graph.records)
                                 /\ KeepsTexts(held[c].graph, doc.graph)
  PROVE  TextsInv'
<1>1. /\ held = [d \in Clients |-> held[d]] /\ pending = [d \in Clients |-> pending[d]]
      /\ held[c] # None /\ target' = target /\ held' = held
  BY DEF IInv, Replicas, Idle, Keep
<1>2. CASE pending' = pending
  <2>1. Documents' = Documents
    BY <1>1, <1>2 DEF Documents
  <2>. QED BY <1>1, <1>2, <2>1 DEF TextsInv
<1>3. CASE pending' = [pending EXCEPT ![c] = doc] /\ Consistent(doc.graph)
  <2>1. Makes(c, doc, held[c])
    BY <1>1, <1>3 DEF Makes, Documents
  <2>2. CASE doc = None
    <3>1. \A d \in Clients : pending'[d] = IF d = c THEN None ELSE pending[d]
      BY <1>1, <1>3, <2>2
    <3>2. Documents' \subseteq Documents
      BY <1>1, <3>1 DEF Documents
    <3>. QED BY <1>1, <3>1, <3>2 DEF TextsInv
  <2>3. CASE doc # None
    <3>1. pending'[c] = doc
      BY <1>1, <1>3
    <3>2. doc \in Documents'
      BY <2>3, <3>1 DEF Documents
    <3>3. IsHistory(doc.graph)
      BY <3>2 DEF IInv, IsDocument
    <3>4. IsDecoded(doc.graph)
      BY <1>3, <3>3 DEF IsHistory, IsDecoded
    <3>. QED BY <2>1, <3>4, MadeIsWorded
  <2>. QED BY <2>2, <2>3
<1>. QED BY <1>2, <1>3 DEF Keep

(* A history over the same document. *)
LEMMA GraphReplaced ==
  ASSUME NEW doc, IsDocument(doc), NEW graph
  PROVE  ReplaceGraph(doc, graph).graph = graph
BY DEF ReplaceGraph, IsDocument

(* What is built on the replica a client holds. *)
LEMMA BuiltKept ==
  ASSUME IInv, IInv', TextsInv, NEW c \in Clients, Idle(c), NEW doc, NEW reopened,
         Keep(c, doc, reopened),
         \E n : BuiltOn(held[c].graph.records, doc.graph.records, n)
  PROVE  TextsInv'
<1>1. held[c] # None
  BY DEF Idle
<1>2. /\ held[c] \in Documents /\ IsDecoded(held[c].graph)
  BY <1>1, HeldIsDecoded
<1>3. Worded(held[c].graph.records)
  BY <1>2 DEF TextsInv
<1>4. PICK n : BuiltOn(held[c].graph.records, doc.graph.records, n)
  OBVIOUS
<1>5. ASSUME IsDecoded(doc.graph)
      PROVE  Worded(doc.graph.records) /\ KeepsTexts(held[c].graph, doc.graph)
  <2>. DEFINE before == held[c].graph
              after == doc.graph
  <2>1. IsDecoded(before) /\ IsDecoded(after) /\ BuiltOn(before.records, after.records, n)
        /\ Worded(before.records)
    BY <1>2, <1>3, <1>4, <1>5
  <2>. HIDE DEF before, after
  <2>2. Worded(after.records) /\ KeepsTexts(before, after)
    BY <2>1, BuiltIsWorded, BuiltKeepsTexts
  <2>. QED BY <2>2 DEF before, after
<1>. QED BY <1>5, KeepIsWorded

(* What a client makes of the history it holds. *)
LEMMA ReplacedKept ==
  ASSUME IInv, IInv', TextsInv, NEW c \in Clients, Idle(c), NEW graph, NEW reopened,
         Keep(c, ReplaceGraph(held[c], graph), reopened),
         \E n : BuiltOn(held[c].graph.records, graph.records, n)
  PROVE  TextsInv'
<1>1. held[c] # None
  BY DEF Idle
<1>2. IsDocument(held[c])
  BY <1>1, HeldIsDecoded DEF IInv
<1>3. ReplaceGraph(held[c], graph).graph = graph
  BY <1>2, GraphReplaced
<1>. DEFINE doc == ReplaceGraph(held[c], graph)
<1>4. Keep(c, doc, reopened) /\ \E n : BuiltOn(held[c].graph.records, doc.graph.records, n)
  BY <1>3
<1>. HIDE DEF doc
<1>. QED BY <1>4, BuiltKept

(* Saving adds a revision to what was sealed. *)
LEMMA SaveIsWorded ==
  ASSUME IInv, IInv', TextsInv, NEW c \in Clients, NEW text, NEW regular,
         Save(c, text, regular)
  PROVE  TextsInv'
<1>. DEFINE graph == Saved(held[c].graph, c, Digest(c), text, regular)
<1>1. Idle(c) /\ held[c] # None /\ Keep(c, ReplaceGraph(held[c], graph), TRUE)
  BY DEF Save, Idle
<1>2. IsHistory(held[c].graph)
  BY <1>1, HeldIsDecoded
<1>3. \E n : BuiltOn(held[c].graph.records, graph.records, n)
  BY <1>2, SavedIsBuilt
<1>. HIDE DEF graph
<1>. QED BY <1>1, <1>3, ReplacedKept

(* Discarding leaves what was sealed. *)
LEMMA DiscardIsWorded ==
  ASSUME IInv, IInv', TextsInv, NEW c \in Clients, Discard(c)
  PROVE  TextsInv'
<1>. DEFINE graph == Discarded(held[c].graph)
<1>1. Idle(c) /\ held[c] # None /\ Keep(c, ReplaceGraph(held[c], graph), TRUE)
  BY DEF Discard, Idle
<1>2. IsHistory(held[c].graph)
  BY <1>1, HeldIsDecoded
<1>3. \E n : BuiltOn(held[c].graph.records, graph.records, n)
  BY <1>2, DiscardedIsBuilt
<1>. HIDE DEF graph
<1>. QED BY <1>1, <1>3, ReplacedKept

(* Sealing again changes nothing of what a record says. *)
LEMMA ResealIsWorded ==
  ASSUME IInv, IInv', TextsInv, NEW c \in Clients, NEW text, Reseal(c, text)
  PROVE  TextsInv'
<1>. DEFINE graph == Resealed(held[c].graph)
<1>1. Idle(c) /\ held[c] # None /\ Keep(c, ReplaceGraph(held[c], graph), TRUE)
  BY DEF Reseal, Idle
<1>2. IsHistory(held[c].graph)
  BY <1>1, HeldIsDecoded
<1>3. \E n : BuiltOn(held[c].graph.records, graph.records, n)
  BY <1>2, ResealedIsBuilt
<1>. HIDE DEF graph
<1>. QED BY <1>1, <1>3, ReplacedKept

(* A change of the members adds an event. *)
LEMMA AdministerIsWorded ==
  ASSUME IInv, IInv', TextsInv, NEW c \in Clients, AdministerSlots(c)
  PROVE  TextsInv'
<1>1. ASSUME NEW change, NEW p, NEW reopened, ChangeSlots(c, change, p, reopened)
      PROVE  TextsInv'
  <2>. DEFINE graph == AppendEvent(held[c].graph, change.slots, c, Digest(c), change.event)
              doc == ReplaceSlots(held[c], graph, change, p)
  <2>1. Idle(c) /\ held[c] # None
    BY DEF AdministerSlots, Idle
  <2>2. Keep(c, doc, reopened)
    BY <1>1 DEF ChangeSlots
  <2>3. IsHistory(held[c].graph)
    BY <2>1, HeldIsDecoded
  <2>4. \E n : BuiltOn(held[c].graph.records, graph.records, n)
    BY <2>3, EventIsBuilt
  <2>5. doc.graph = graph
    BY DEF ReplaceSlots
  <2>6. \E n : BuiltOn(held[c].graph.records, doc.graph.records, n)
    BY <2>4, <2>5
  <2>. HIDE DEF graph, doc
  <2>. QED BY <2>1, <2>2, <2>6, BuiltKept
<1>2. \E change, p, reopened : ChangeSlots(c, change, p, reopened)
  BY Zenon DEF AdministerSlots
<1>. QED BY <1>1, <1>2

(* A compaction cuts off what lies before its checkpoint. *)
LEMMA CompactIsWorded ==
  ASSUME IInv, IInv', TextsInv, NEW c \in Clients, NEW retain, Compact(c, retain)
  PROVE  TextsInv'
<1>. DEFINE before == held[c].graph
            id == Digest(c)
            graph == Compacted(before, retain, c, id)
            doc == ReplaceGraph(held[c], graph)
<1>1. Idle(c) /\ held[c] # None /\ Keep(c, doc, TRUE)
  BY DEF Compact, Idle
<1>2. held[c] \in Documents /\ IsHistory(before) /\ IsDecoded(before)
  BY <1>1, HeldIsDecoded
<1>3. Worded(before.records) /\ IsDocument(held[c])
  BY <1>2 DEF TextsInv, IInv
<1>4. doc.graph = graph
  BY <1>3, GraphReplaced
<1>. HIDE DEF doc, before, id
<1>5. IsDecoded(graph) => Worded(graph.records) /\ KeepsTexts(before, graph)
  BY <1>2, <1>3, CompactedKeepsTexts
<1>. HIDE DEF graph
<1>. QED BY <1>1, <1>4, <1>5, KeepIsWorded DEF before

(* A merge keeps the texts of the target, which is what the client then holds. *)
LEMMA MergeIsWorded ==
  ASSUME IInv, IInv', TextsInv, NEW c \in Clients, NEW text, Merge(c, text)
  PROVE  TextsInv'
<1>. DEFINE own == pending[c].graph
            id == Digest(c)
            graph == Merged(own, target.graph, c, id, text)
            doc == MergeSave(target, pending[c], c, id, text)
<1>1. /\ target # None /\ target \in Documents /\ pending[c] \in Documents
      /\ Unlocks(c, target) /\ Unlocks(c, pending[c])
      /\ target' = target
  BY DEF IInv, Replicas, Documents, Merge, Conflict, MayResolve
<1>2. /\ IsHistory(target.graph) /\ IsDecoded(target.graph)
      /\ IsHistory(own) /\ IsDecoded(own)
  BY <1>1, OpenedIsDecoded
<1>3. /\ Worded(own.records) /\ IsDocument(target)
      /\ \A r \in ToSet(own.records), s \in ToSet(target.graph.records) :
           r.id = s.id => r.imm = s.imm
  BY <1>1 DEF TextsInv, IInv, DigestsName, RecordsOf
<1>4. doc.graph = graph
  BY <1>3, GraphReplaced DEF MergeSave
<1>5. CASE UNCHANGED <<held, pending, minted>>
  <2>1. Documents' = Documents
    BY <1>1, <1>5 DEF Documents
  <2>. QED BY <1>5, <2>1 DEF TextsInv
<1>6. CASE /\ Valid(doc.graph)
           /\ held' = [held EXCEPT ![c] = target]
           /\ pending' = [pending EXCEPT ![c] = doc]
  <2>. HIDE DEF doc
  <2>1. Makes(c, doc, target)
    BY <1>1, <1>6 DEF Makes, Valid
  <2>2. /\ held = [d \in Clients |-> held[d]] /\ pending = [d \in Clients |-> pending[d]]
        /\ pending'[c] = doc
    BY <1>6 DEF IInv, Replicas
  <2>3. CASE doc = None
    <3>1. /\ \A d \in Clients : pending'[d] = IF d = c THEN None ELSE pending[d]
          /\ \A d \in Clients : held'[d] = IF d = c THEN target ELSE held[d]
      BY <1>6, <2>2, <2>3
    <3>2. Documents' \subseteq Documents
      BY <1>1, <3>1 DEF Documents
    <3>. QED BY <3>1, <3>2 DEF TextsInv
  <2>4. CASE doc # None
    <3>1. IsHistory(doc.graph)
      BY <2>2, <2>4 DEF IInv, Documents, IsDocument
    <3>2. IsDecoded(graph)
      BY <1>4, <1>6, <3>1 DEF IsDecoded, IsHistory, Valid
    <3>. HIDE DEF own, id
    <3>3. Worded(graph.records) /\ KeepsTexts(target.graph, graph)
      BY <1>2, <1>3, <3>2, MergedKeepsTexts
    <3>. HIDE DEF graph
    <3>. QED BY <1>4, <2>1, <3>3, MadeIsWorded
  <2>. QED BY <2>3, <2>4
<1>. QED BY <1>5, <1>6 DEF Merge
(* Opening the target makes no document. *)
LEMMA OpenIsWorded ==
  ASSUME IInv, TextsInv, NEW c \in Clients, Open(c)
  PROVE  TextsInv'
<1>1. /\ held = [d \in Clients |-> held[d]] /\ pending[c] = None
      /\ target' = target /\ pending' = pending
      /\ held' = [held EXCEPT ![c] = target]
  BY DEF IInv, Replicas, Open
<1>2. \A d \in Clients : held'[d] = IF d = c THEN target ELSE held[d]
  BY <1>1
<1>3. Documents' \subseteq Documents
  BY <1>1, <1>2 DEF Documents
<1>. QED BY <1>1, <1>2, <1>3 DEF TextsInv

(* What is published was prepared. *)
LEMMA PublishIsWorded ==
  ASSUME IInv, TextsInv, NEW c \in Clients, Publish(c)
  PROVE  TextsInv'
<1>1. /\ held = [d \in Clients |-> held[d]] /\ pending = [d \in Clients |-> pending[d]]
      /\ pending[c] # None /\ target' = pending[c]
  BY DEF IInv, Replicas, Publish
<1>2. /\ \A d \in Clients : d # c => held'[d] = held[d] /\ pending'[d] = pending[d]
      /\ held'[c] \in {pending[c], None} /\ pending'[c] = None
  BY <1>1 DEF Publish
<1>3. Documents' \subseteq Documents
  BY <1>1, <1>2 DEF Documents
<1>. QED BY <1>2, <1>3 DEF TextsInv

(* What is dropped is gone. *)
LEMMA AbandonIsWorded ==
  ASSUME IInv, TextsInv, NEW c \in Clients, Abandon(c)
  PROVE  TextsInv'
<1>1. /\ pending = [d \in Clients |-> pending[d]]
      /\ target' = target /\ held' = held
      /\ pending' = [pending EXCEPT ![c] = None]
  BY DEF IInv, Replicas, Abandon
<1>2. \A d \in Clients : pending'[d] = IF d = c THEN None ELSE pending[d]
  BY <1>1
<1>3. Documents' \subseteq Documents
  BY <1>1, <1>2 DEF Documents
<1>. QED BY <1>1, <1>2, <1>3 DEF TextsInv

(* The invariant is inductive beside IInv. *)
LEMMA NextIsWorded == IInv /\ IInv' /\ TextsInv /\ [Next]_vars => TextsInv'
<1>. SUFFICES ASSUME IInv, IInv', TextsInv, [Next]_vars PROVE TextsInv'
  OBVIOUS
<1>1. CASE UNCHANGED vars
  <2>1. held' = held /\ pending' = pending /\ Documents' = Documents
    BY <1>1 DEF vars, Documents
  <2>. QED BY <2>1 DEF TextsInv
<1>2. ASSUME NEW c \in Clients, Open(c) PROVE TextsInv'
  BY <1>2, OpenIsWorded
<1>3. ASSUME NEW c \in Clients, Publish(c) PROVE TextsInv'
  BY <1>3, PublishIsWorded
<1>4. ASSUME NEW c \in Clients, Abandon(c) PROVE TextsInv'
  BY <1>4, AbandonIsWorded
<1>5. ASSUME NEW c \in Clients, Discard(c) PROVE TextsInv'
  BY <1>5, DiscardIsWorded
<1>6. ASSUME NEW c \in Clients, AdministerSlots(c) PROVE TextsInv'
  BY <1>6, AdministerIsWorded
<1>7. ASSUME NEW c \in Clients, NEW retain \in Retained, Compact(c, retain)
      PROVE  TextsInv'
  BY <1>7, CompactIsWorded
<1>8. ASSUME NEW c \in Clients, NEW text \in Texts, Reseal(c, text) PROVE TextsInv'
  BY <1>8, ResealIsWorded
<1>9. ASSUME NEW c \in Clients, NEW text \in Texts, Merge(c, text) PROVE TextsInv'
  BY <1>9, MergeIsWorded
<1>10. ASSUME NEW c \in Clients, NEW text \in Texts, NEW regular \in BOOLEAN,
              Save(c, text, regular)
       PROVE  TextsInv'
  BY <1>10, SaveIsWorded
<1>. QED BY <1>1, <1>2, <1>3, <1>4, <1>5, <1>6, <1>7, <1>8, <1>9, <1>10 DEF Next

(* The first documents satisfy it. *)
LEMMA InitIsWorded == Init => TextsInv
<1>. SUFFICES ASSUME Init PROVE TextsInv
  OBVIOUS
<1>1. IInv
  BY InitEstablishes
<1>2. /\ Documents \subseteq {target} /\ target \in {Fresh, Shared, Long}
      /\ \A c \in Clients : pending[c] = None
  BY DEF Init, Documents
<1>3. \A doc \in Documents : Worded(doc.graph.records)
  BY <1>1, <1>2, FirstIsWorded DEF IInv
<1>. QED BY <1>2, <1>3 DEF TextsInv

(* The target changes only when a client publishes. *)
LEMMA TargetIsPublished ==
  ASSUME Next, target' # target
  PROVE  \E c \in Clients : Publish(c)
<1>1. PICK c \in Clients :
        \/ Open(c) \/ Publish(c) \/ Abandon(c)
        \/ Discard(c) \/ AdministerSlots(c)
        \/ \E retain \in Retained : Compact(c, retain)
        \/ \E text \in Texts :
             \/ Reseal(c, text) \/ Merge(c, text)
             \/ \E regular \in BOOLEAN : Save(c, text, regular)
  BY DEF Next
<1>2. ~Open(c) /\ ~Abandon(c) /\ ~Discard(c)
  BY DEF Open, Abandon, Discard, Keep
<1>3. ~AdministerSlots(c)
  <2>1. \A change, password, reopened : ~ChangeSlots(c, change, password, reopened)
    BY DEF ChangeSlots, Keep
  <2>. QED BY <2>1, Zenon DEF AdministerSlots
<1>4. \A retain \in Retained : ~Compact(c, retain)
  BY DEF Compact, Keep
<1>5. \A text \in Texts : ~Reseal(c, text) /\ ~Merge(c, text)
  BY DEF Reseal, Merge, Keep
<1>6. \A text \in Texts, regular \in BOOLEAN : ~Save(c, text, regular)
  BY DEF Save, Keep
<1>. QED BY <1>1, <1>2, <1>3, <1>4, <1>5, <1>6

(* Whatever is published, the text of a sealed revision stays what it is, or *)
(* it is lost to a merge or to a compaction with a later cutoff.             *)
THEOREM TextsStayKept == Spec => TextsKept
<1>1. Init => IInv /\ TextsInv
  BY InitEstablishes, InitIsWorded
<1>2. IInv /\ TextsInv /\ [Next]_vars => (IInv /\ TextsInv)'
  BY NextKeeps, NextIsWorded
<1>3. IInv /\ TextsInv /\ [Next]_vars => [KeepsTexts(target.graph, target'.graph)]_target
  <2>. SUFFICES ASSUME IInv, TextsInv, Next, target' # target
                PROVE  KeepsTexts(target.graph, target'.graph)
    BY DEF vars
  <2>1. PICK c \in Clients : Publish(c)
    BY TargetIsPublished
  <2>2. pending[c] # None /\ target = held[c] /\ target' = pending[c]
    BY <2>1 DEF Publish
  <2>. QED BY <2>2 DEF TextsInv
<1>4. Spec => [][KeepsTexts(target.graph, target'.graph)]_target
  BY <1>1, <1>2, <1>3, PTL DEF Spec
<1>. QED BY <1>4 DEF TextsKept, KeepsTexts

=============================================================================
