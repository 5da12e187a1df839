------------------------ MODULE DocumentHistoryProofs ------------------------
(***************************************************************************)
(* Proofs about DocumentHistory, for all passwords, texts, grants, record  *)
(* limits and numbers of candidates: the types, that every member keeps a  *)
(* password that opens the member's slot, and that sealed history stays.   *)
(*                                                                         *)
(* The invariant IInv says of each document there is that its wrappers are *)
(* in step with the members of its history (InStep) and that only the last *)
(* record of the history may be provisional (IsHistory); of any two, that  *)
(* one digest names one immutable part (DigestsName); and of a client, that*)
(* its candidate has the sealed records of the replica it was prepared from*)
(* (Replicas).  Publication compares the target with that replica, so what *)
(* was sealed on the target is sealed in what replaces it.                 *)
(*                                                                         *)
(* Every operation on a history comes down to Succeeds: what it adds is one*)
(* record with the digest it mints.  Every change of the members comes down*)
(* to inserting, replacing or removing at one place in both lists.         *)
(***************************************************************************)
EXTENDS DocumentHistory, RevisionGraphProofs

-----------------------------------------------------------------------------
(* The inductive invariant *)

(* What a history is made of: a sequence of records, of which only the last *)
(* may be provisional, and never the first.                                 *)
IsRecord(r) ==
  r \in [id: {r.id}, storage: {r.storage}, body: {r.body}, imm: {r.imm},
         provisional: BOOLEAN, resolvedBy: {r.resolvedBy}]
IsGraph(graph) ==
  graph \in [slots: {graph.slots}, head: {graph.head},
             contentHead: {graph.contentHead}, records: {graph.records}]
IsHistory(graph) ==
  /\ IsGraph(graph)
  /\ graph.records \in Seq(ToSet(graph.records)) /\ graph.records # <<>>
  /\ \A i \in 1 .. Len(graph.records) :
       /\ IsRecord(graph.records[i])
       /\ graph.records[i].provisional => i = Len(graph.records) /\ i # 1

(* What a list of members is, and when the wrappers are in step with it. *)
Slots ==
  [id: Clients \cup {Recovery}, role: {"owner", "ordinary", "recovery"},
   rights: SUBSET Rights, mustChange: BOOLEAN]
Wrappers ==
  [password: Passwords[Owner] \cup Passwords[Guest] \cup {Recovery},
   slot: Clients \cup {Recovery}, mustChange: BOOLEAN]
InStep(wrappers, slots) ==
  /\ wrappers \in Seq(Wrappers) /\ slots \in Seq(Slots)
  /\ Len(wrappers) = Len(slots)
  /\ \A i, j \in 1 .. Len(wrappers) :
       wrappers[i].password = wrappers[j].password => i = j
  /\ \A i \in 1 .. Len(wrappers) :
       /\ wrappers[i].slot = slots[i].id
       /\ wrappers[i].mustChange => slots[i].mustChange

(* A document that decodes has its history and its members in order. *)
IsDocument(doc) ==
  /\ doc \in [wrappers: {doc.wrappers}, graph: {doc.graph}]
  /\ IsHistory(doc.graph)
  /\ InStep(doc.wrappers, doc.graph.slots) /\ ValidSlots(doc.graph.slots)

RecordsOf(doc) == ToSet(doc.graph.records)

(* A digest names one immutable part, in whatever document it stands. *)
DigestsName ==
  \A d, e \in Documents : \A r \in RecordsOf(d), s \in RecordsOf(e) :
    r.id = s.id => r.imm = s.imm

(* Every sealed record of one document stands, sealed, in another. *)
Continues(before, after) ==
  \A r \in RecordsOf(before) : ~r.provisional =>
    \E s \in RecordsOf(after) : s.id = r.id /\ s.imm = r.imm /\ ~s.provisional

(* What a client works on it has opened, and its candidate continues that. *)
Replicas ==
  /\ target # None
  /\ held = [c \in Clients |-> held[c]] /\ pending = [c \in Clients |-> pending[c]]
  /\ \A c \in Clients :
       /\ held[c] # None => Unlocks(c, held[c])
       /\ pending[c] # None => Continues(held[c], pending[c])

(* The inductive invariant. *)
IInv ==
  /\ TypeOK /\ Replicas /\ DigestsName
  /\ \A doc \in Documents : IsDocument(doc)

(* An event or a save needs no more of a history than that none of its *)
(* records is provisional.                                             *)
IsSealed(graph) ==
  /\ IsGraph(graph)
  /\ graph.records \in Seq(ToSet(graph.records)) /\ graph.records # <<>>
  /\ \A i \in 1 .. Len(graph.records) :
       IsRecord(graph.records[i]) /\ ~graph.records[i].provisional

-----------------------------------------------------------------------------
(* Members and their wrappers *)

(* The clients, and what makes a wrapper. *)
LEMMA MembersTyped ==
  /\ Owner \in Clients /\ Guest \in Clients
  /\ \A w \in Wrappers : w = Wrapper(w.password, w.slot, w.mustChange)
  /\ \A c \in Clients : \A p \in Passwords[c] :
       \A slot \in Clients \cup {Recovery}, b \in BOOLEAN : Wrapper(p, slot, b) \in Wrappers
BY DEF Clients, Wrappers, Wrapper

(* The password of a member opens the member's slot. *)
LEMMA InStepOpens ==
  ASSUME NEW doc, InStep(doc.wrappers, doc.graph.slots), ValidSlots(doc.graph.slots),
         NEW i \in 1 .. Len(doc.wrappers)
  PROVE  /\ Admits(doc, doc.wrappers[i].password)
         /\ Session(doc, doc.wrappers[i].password) = doc.graph.slots[i]
<1>. DEFINE password == doc.wrappers[i].password
<1>1. /\ doc.wrappers \in Seq(Wrappers) /\ doc.graph.slots \in Seq(Slots)
      /\ DOMAIN doc.wrappers = 1 .. Len(doc.wrappers)
      /\ Len(doc.wrappers) = Len(doc.graph.slots)
  BY DEF InStep
<1>2. Sealing(doc, password) = {i}
  BY <1>1 DEF Sealing, InStep
<1>3. Min(Sealing(doc, password)) = i
  <2>1. i \in Int
    OBVIOUS
  <2>. QED BY <1>2, <2>1 DEF Min
<1>4. /\ doc.graph.slots[i] \in Slots /\ doc.wrappers[i] \in Wrappers
      /\ doc.graph.slots[i].id = doc.wrappers[i].slot
      /\ doc.wrappers[i].mustChange => doc.graph.slots[i].mustChange
  BY <1>1 DEF InStep
<1>5. Admits(doc, password)
  <2>1. doc.graph.slots[i].role # "ordinary" => ~doc.wrappers[i].mustChange
    BY <1>1, <1>4 DEF ValidSlots
  <2>. QED BY <1>2, <1>3, <1>4, <2>1 DEF Admits
<1>6. Session(doc, password)
        = [doc.graph.slots[i] EXCEPT !.mustChange = @ \/ doc.wrappers[i].mustChange]
  BY <1>3 DEF Session
<1>7. (doc.graph.slots[i].mustChange \/ doc.wrappers[i].mustChange)
        = doc.graph.slots[i].mustChange
  BY <1>4 DEF Slots, Wrappers
<1>8. Session(doc, password) = doc.graph.slots[i]
  BY <1>4, <1>6, <1>7 DEF Slots
<1>. QED BY <1>5, <1>8

(* Whoever a document admits has a slot in it. *)
LEMMA SessionIsSlot ==
  ASSUME NEW doc, InStep(doc.wrappers, doc.graph.slots), ValidSlots(doc.graph.slots),
         NEW p, Admits(doc, p)
  PROVE  \E i \in 1 .. Len(doc.graph.slots) : Session(doc, p) = doc.graph.slots[i]
<1>1. PICK i \in 1 .. Len(doc.wrappers) : doc.wrappers[i].password = p
  BY DEF Admits, Sealing, InStep
<1>. QED BY <1>1, InStepOpens DEF InStep

(* A member that is there is found. *)
LEMMA SlotFound ==
  ASSUME NEW slots \in Seq(Slots), NEW id, HasSlot(slots, id)
  PROVE  SlotIndex(slots, id) \in 1 .. Len(slots) /\ slots[SlotIndex(slots, id)].id = id
BY DEF HasSlot, SlotIndex

(* Wrappers stay in step with members that keep their name and state. *)
LEMMA InStepSame ==
  ASSUME NEW wrappers, NEW slots, InStep(wrappers, slots),
         NEW others \in Seq(Slots), Len(others) = Len(slots),
         \A k \in 1 .. Len(slots) : /\ others[k].id = slots[k].id
                                    /\ others[k].mustChange = slots[k].mustChange
  PROVE  InStep(wrappers, others)
BY DEF InStep

(* A password that seals no wrapper, or at most one; members that differ in *)
(* one place.                                                               *)
SealsNone(p, wrappers) == \A k \in 1 .. Len(wrappers) : wrappers[k].password # p
SealsNoOther(p, i, wrappers) ==
  \A k \in 1 .. Len(wrappers) : k # i => wrappers[k].password # p
SameBut(i, slots, others) ==
  /\ others \in Seq(Slots) /\ Len(others) = Len(slots)
  /\ \A k \in 1 .. Len(slots) : k # i => others[k] = slots[k]

(* One member changes, and its wrapper is sealed anew. *)
LEMMA InStepReplaced ==
  ASSUME NEW wrappers, NEW slots, InStep(wrappers, slots),
         NEW others, NEW i \in 1 .. Len(slots), SameBut(i, slots, others),
         NEW c \in Clients, NEW p \in Passwords[c], SealsNoOther(p, i, wrappers)
  PROVE  InStep(ReplaceAt(wrappers, i, Wrapper(p, others[i].id, others[i].mustChange)),
                others)
<1>. DEFINE fresh == Wrapper(p, others[i].id, others[i].mustChange)
            after == ReplaceAt(wrappers, i, fresh)
<1>1. fresh \in Wrappers
  <2>1. others[i] \in Slots
    BY DEF SameBut
  <2>. QED BY <2>1, MembersTyped DEF Slots
<1>2. /\ fresh.password = p /\ fresh.slot = others[i].id
      /\ fresh.mustChange = others[i].mustChange
  BY DEF Wrapper
<1>. HIDE DEF fresh
<1>3. /\ wrappers \in Seq(Wrappers) /\ i \in 1 .. Len(wrappers)
      /\ after \in Seq(Wrappers) /\ Len(after) = Len(wrappers)
      /\ \A k \in 1 .. Len(wrappers) : after[k] = IF k = i THEN fresh ELSE wrappers[k]
  BY <1>1 DEF InStep, ReplaceAt
<1>. HIDE DEF after
<1>4. InStep(after, others)
  BY <1>2, <1>3 DEF InStep, SameBut, SealsNoOther
<1>. QED BY <1>4 DEF after, fresh

(* A member and its wrapper are inserted at the same place. *)
LEMMA InStepInserted ==
  ASSUME NEW wrappers, NEW slots, InStep(wrappers, slots),
         NEW i \in 1 .. Len(slots) + 1, NEW slot \in Slots,
         NEW c \in Clients, NEW p \in Passwords[c], SealsNone(p, wrappers)
  PROVE  InStep(InsertAt(wrappers, i, Wrapper(p, slot.id, slot.mustChange)),
                InsertAt(slots, i, slot))
<1>. DEFINE fresh == Wrapper(p, slot.id, slot.mustChange)
            after == InsertAt(wrappers, i, fresh)
            others == InsertAt(slots, i, slot)
            n == Len(slots)
<1>1. fresh \in Wrappers
  BY MembersTyped DEF Slots
<1>2. fresh.password = p /\ fresh.slot = slot.id /\ fresh.mustChange = slot.mustChange
  BY DEF Wrapper
<1>. HIDE DEF fresh
<1>3. /\ wrappers \in Seq(Wrappers) /\ slots \in Seq(Slots)
      /\ Len(wrappers) = n /\ n \in Nat /\ i \in 1 .. n + 1
  BY DEF InStep
<1>4. /\ after \in Seq(Wrappers) /\ Len(after) = n + 1
      /\ \A k \in 1 .. n + 1 :
           after[k] = IF k < i THEN wrappers[k]
                      ELSE IF k = i THEN fresh ELSE wrappers[k - 1]
  BY <1>1, <1>3, Inserted
<1>5. /\ others \in Seq(Slots) /\ Len(others) = n + 1
      /\ \A k \in 1 .. n + 1 :
           others[k] = IF k < i THEN slots[k] ELSE IF k = i THEN slot ELSE slots[k - 1]
  <2>. DEFINE V == Slots
  <2>1. slots \in Seq(V) /\ slot \in V
    BY <1>3
  <2>. HIDE DEF V
  <2>2. /\ others \in Seq(V) /\ Len(others) = Len(slots) + 1
        /\ \A k \in 1 .. Len(slots) + 1 :
             others[k] = IF k < i THEN slots[k] ELSE IF k = i THEN slot ELSE slots[k - 1]
    BY <2>1, Inserted
  <2>. QED BY <2>2 DEF V
<1>. HIDE DEF after, others, n
<1>6. \A k \in 1 .. n + 1 : \/ k < i /\ k \in 1 .. n
                            \/ k = i
                            \/ k > i /\ k - 1 \in 1 .. n
  BY <1>3
<1>7. \A k \in 1 .. n : /\ wrappers[k].slot = slots[k].id
                        /\ wrappers[k].mustChange => slots[k].mustChange
                        /\ wrappers[k].password # p
  BY <1>3 DEF InStep, SealsNone
<1>8. \A k \in 1 .. n + 1 : /\ after[k].slot = others[k].id
                            /\ after[k].mustChange => others[k].mustChange
  BY <1>2, <1>4, <1>5, <1>6, <1>7
<1>9. \A j, k \in 1 .. n + 1 : after[j].password = after[k].password => j = k
  <2>. SUFFICES ASSUME NEW j \in 1 .. n + 1, NEW k \in 1 .. n + 1,
                       after[j].password = after[k].password
                PROVE  j = k
    OBVIOUS
  <2>1. \A l, m \in 1 .. n : wrappers[l].password = wrappers[m].password => l = m
    BY <1>3 DEF InStep
  <2>2. CASE j = i \/ k = i
    BY <1>2, <1>4, <1>6, <1>7, <2>2
  <2>3. CASE j < i /\ k < i
    BY <1>4, <1>6, <2>1, <2>3
  <2>4. CASE j < i /\ k > i
    <3>1. after[j] = wrappers[j] /\ after[k] = wrappers[k - 1]
      BY <1>4, <2>4
    <3>2. j \in 1 .. n /\ k - 1 \in 1 .. n
      BY <1>6, <2>4
    <3>3. j = k - 1
      BY <2>1, <3>1, <3>2
    <3>. QED BY <2>4, <3>3
  <2>5. CASE j > i /\ k < i
    <3>1. after[k] = wrappers[k] /\ after[j] = wrappers[j - 1]
      BY <1>4, <2>5
    <3>2. k \in 1 .. n /\ j - 1 \in 1 .. n
      BY <1>6, <2>5
    <3>3. k = j - 1
      BY <2>1, <3>1, <3>2
    <3>. QED BY <2>5, <3>3
  <2>6. CASE j > i /\ k > i
    <3>1. after[j] = wrappers[j - 1] /\ after[k] = wrappers[k - 1]
      BY <1>4, <2>6
    <3>2. k - 1 \in 1 .. n /\ j - 1 \in 1 .. n
      BY <1>6, <2>6
    <3>3. j - 1 = k - 1
      BY <2>1, <3>1, <3>2
    <3>. QED BY <3>3
  <2>. QED BY <1>3, <2>2, <2>3, <2>4, <2>5, <2>6
<1>10. InStep(after, others)
  BY <1>4, <1>5, <1>8, <1>9 DEF InStep
<1>. QED BY <1>10 DEF after, others, fresh

(* A member and its wrapper are removed from the same place. *)
LEMMA InStepRemoved ==
  ASSUME NEW wrappers, NEW slots, InStep(wrappers, slots), NEW i \in 1 .. Len(slots)
  PROVE  InStep(RemoveAt(wrappers, i), RemoveAt(slots, i))
<1>. DEFINE after == RemoveAt(wrappers, i)
            others == RemoveAt(slots, i)
            n == Len(slots)
            from(k) == IF k < i THEN k ELSE k + 1
<1>1. /\ wrappers \in Seq(Wrappers) /\ slots \in Seq(Slots)
      /\ Len(wrappers) = n /\ n \in Nat
  BY DEF InStep
<1>2. /\ after \in Seq(Wrappers) /\ Len(after) = n - 1
      /\ \A k \in 1 .. n - 1 : after[k] = wrappers[from(k)]
  BY <1>1, Removed
<1>3. /\ others \in Seq(Slots) /\ Len(others) = n - 1
      /\ \A k \in 1 .. n - 1 : others[k] = slots[from(k)]
  BY <1>1, Removed
<1>4. \A k \in 1 .. n - 1 : from(k) \in 1 .. n
  BY <1>1
<1>5. \A j, k \in 1 .. n - 1 : from(j) = from(k) => j = k
  BY <1>1
<1>. HIDE DEF after, others, n, from
<1>6. \A k \in 1 .. n : /\ wrappers[k].slot = slots[k].id
                        /\ wrappers[k].mustChange => slots[k].mustChange
  BY <1>1 DEF InStep
<1>7. \A j, k \in 1 .. n : wrappers[j].password = wrappers[k].password => j = k
  BY <1>1 DEF InStep
<1>8. \A j, k \in 1 .. n - 1 : after[j].password = after[k].password => j = k
  <2>. SUFFICES ASSUME NEW j \in 1 .. n - 1, NEW k \in 1 .. n - 1,
                       after[j].password = after[k].password
                PROVE  j = k
    OBVIOUS
  <2>1. after[j] = wrappers[from(j)] /\ after[k] = wrappers[from(k)]
    BY <1>2
  <2>2. from(j) \in 1 .. n /\ from(k) \in 1 .. n
    BY <1>4
  <2>3. from(j) = from(k)
    BY <1>7, <2>1, <2>2
  <2>. QED BY <1>5, <2>3
<1>9. \A k \in 1 .. n - 1 : /\ after[k].slot = others[k].id
                            /\ after[k].mustChange => others[k].mustChange
  BY <1>2, <1>3, <1>4, <1>6
<1>10. InStep(after, others)
  BY <1>2, <1>3, <1>8, <1>9 DEF InStep
<1>. QED BY <1>10 DEF after, others

-----------------------------------------------------------------------------
(* Histories *)

(* A sequence that is not empty has a last element. *)
LEMMA LastOfRecords ==
  ASSUME NEW records, records \in Seq(ToSet(records)), records # <<>>
  PROVE  /\ Len(records) \in Nat \ {0} /\ DOMAIN records = 1 .. Len(records)
         /\ Last(records) = records[Len(records)]
         /\ \A i \in 1 .. Len(records) : records[i] \in ToSet(records)
         /\ \A r \in ToSet(records) : \E i \in 1 .. Len(records) : r = records[i]
BY DEF ToSet, Last

(* A history whose last record is sealed has no provisional record. *)
LEMMA NoneProvisional ==
  ASSUME NEW graph, IsHistory(graph), ~Provisional(graph)
  PROVE  IsSealed(graph)
BY LastOfRecords DEF IsHistory, IsSealed, Provisional

(* The elements of a sequence without its last, and with one more. *)
LEMMA FrontOfRecords ==
  ASSUME NEW V, NEW records \in Seq(V), Len(records) > 1
  PROVE  /\ Front(records) \in Seq(ToSet(Front(records)))
         /\ Front(records) # <<>> /\ Len(Front(records)) = Len(records) - 1
         /\ \A i \in 1 .. Len(records) - 1 : Front(records)[i] = records[i]
         /\ \A r : r \in ToSet(Front(records))
                     <=> \E i \in 1 .. Len(records) - 1 : r = records[i]
<1>. DEFINE n == Len(records)
            front == Front(records)
<1>1. n \in Nat /\ n > 1 /\ n - 1 \in Nat \ {0}
  <2>1. \A k \in Nat : k > 1 => k - 1 \in Nat \ {0}
    OBVIOUS
  <2>2. n \in Nat /\ n > 1
    OBVIOUS
  <2>. HIDE DEF n
  <2>. QED BY <2>1, <2>2
<1>2. /\ front \in Seq(V) /\ Len(front) = n - 1
      /\ \A i \in 1 .. n - 1 : front[i] = records[i]
  <2>1. \A i \in 1 .. n - 1 : records[i] \in V
    BY <1>1
  <2>2. /\ SubSeq(records, 1, n - 1) \in Seq(V)
        /\ Len(SubSeq(records, 1, n - 1)) = IF 1 <= n - 1 THEN (n - 1) - 1 + 1 ELSE 0
        /\ \A i \in 1 .. (n - 1) - 1 + 1 :
             SubSeq(records, 1, n - 1)[i] = records[1 + i - 1]
    <3>. HIDE DEF n
    <3>. QED BY <1>1, <2>1, SubSeqProperties
  <2>3. Front(records) = SubSeq(records, 1, n - 1)
    BY DEF Front
  <2>4. (n - 1) - 1 + 1 = n - 1 /\ 1 <= n - 1 /\ \A i \in 1 .. n - 1 : 1 + i - 1 = i
    BY <1>1
  <2>. HIDE DEF front, n
  <2>. QED BY <2>2, <2>3, <2>4 DEF front
<1>3. DOMAIN front = 1 .. n - 1
  BY <1>2
<1>. HIDE DEF front
<1>4. ToSet(front) = {front[i] : i \in 1 .. n - 1}
  BY <1>3 DEF ToSet
<1>5. \A r : r \in ToSet(front) <=> \E i \in 1 .. n - 1 : r = records[i]
  BY <1>2, <1>4
<1>6. front \in Seq(ToSet(front))
  <2>1. \A i \in 1 .. Len(front) : front[i] \in ToSet(front)
    BY <1>2, <1>4
  <2>. QED BY <1>1, <1>2, <2>1
<1>7. front # <<>>
  BY <1>1, <1>2
<1>. QED BY <1>2, <1>5, <1>6, <1>7 DEF front

(* The elements of a sequence with one more at its end. *)
LEMMA OneMoreRecord ==
  ASSUME NEW V, NEW records \in Seq(V), NEW r
  PROVE  /\ Append(records, r) \in Seq(ToSet(Append(records, r)))
         /\ Append(records, r) # <<>> /\ Len(Append(records, r)) = Len(records) + 1
         /\ Append(records, r)[Len(records) + 1] = r
         /\ \A i \in 1 .. Len(records) : Append(records, r)[i] = records[i]
         /\ ToSet(Append(records, r)) = ToSet(records) \cup {r}
<1>. DEFINE n == Len(records)
            after == Append(records, r)
<1>1. /\ n \in Nat /\ DOMAIN records = 1 .. n
      /\ \A i \in 1 .. n : records[i] \in ToSet(records)
      /\ ToSet(records) = {records[i] : i \in 1 .. n}
  BY DEF ToSet
<1>2. /\ after \in Seq(V \cup {r}) /\ Len(after) = n + 1
      /\ DOMAIN after = 1 .. n + 1 /\ after[n + 1] = r
      /\ \A i \in 1 .. n : after[i] = records[i]
  OBVIOUS
<1>. HIDE DEF after
<1>3. ToSet(after) = {after[i] : i \in 1 .. n + 1}
  BY <1>2 DEF ToSet
<1>4. /\ \A i \in 1 .. n + 1 : i \in 1 .. n \/ i = n + 1
      /\ \A i \in 1 .. n : i \in 1 .. n + 1
      /\ n + 1 \in 1 .. n + 1
  BY <1>1
<1>. HIDE DEF n
<1>5. ToSet(after) = ToSet(records) \cup {r}
  BY <1>1, <1>2, <1>3, <1>4
<1>6. after \in Seq(ToSet(after)) /\ after # <<>>
  <2>1. \A i \in 1 .. n + 1 : after[i] \in ToSet(after)
    BY <1>3
  <2>. QED BY <1>1, <1>2, <2>1
<1>. QED BY <1>2, <1>5, <1>6 DEF after, n

(* Replacing the provisional tail leaves what is sealed. *)
LEMMA SealedIsSealed ==
  ASSUME NEW graph, IsHistory(graph)
  PROVE  /\ IsSealed(Sealed(graph)) /\ Sealed(graph).slots = graph.slots
         /\ ToSet(Sealed(graph).records) = {r \in ToSet(graph.records) : ~r.provisional}
<1>. DEFINE records == graph.records
            n == Len(records)
<1>1. /\ n \in Nat \ {0} /\ DOMAIN records = 1 .. n
      /\ Last(records) = records[n]
      /\ \A i \in 1 .. n : records[i] \in ToSet(records)
      /\ \A r \in ToSet(records) : \E i \in 1 .. n : r = records[i]
  BY LastOfRecords DEF IsHistory
<1>2. /\ records \in Seq(ToSet(records))
      /\ \A i \in 1 .. n : /\ IsRecord(records[i])
                           /\ records[i].provisional => i = n /\ i # 1
  BY DEF IsHistory
<1>3. CASE ~Provisional(graph)
  <2>1. IsSealed(graph)
    BY <1>3, NoneProvisional
  <2>2. \A r \in ToSet(records) : ~r.provisional
    BY <1>1, <2>1 DEF IsSealed
  <2>. QED BY <1>3, <2>1, <2>2 DEF Sealed
<1>4. CASE Provisional(graph)
  <2>1. records[n].provisional
    BY <1>1, <1>4 DEF Provisional
  <2>2. n \in 1 .. n
    BY <1>1
  <2>3. n > 1
    <3>1. n # 1 /\ n # 0 /\ n \in Nat
      BY <1>1, <1>2, <2>1, <2>2
    <3>2. \A k \in Nat : k # 1 /\ k # 0 => k > 1
      OBVIOUS
    <3>. HIDE DEF n
    <3>. QED BY <3>1, <3>2
  <2>. DEFINE front == Front(records)
  <2>4. /\ front \in Seq(ToSet(front)) /\ front # <<>> /\ Len(front) = n - 1
        /\ \A i \in 1 .. n - 1 : front[i] = records[i]
        /\ \A r : r \in ToSet(front) <=> \E i \in 1 .. n - 1 : r = records[i]
    BY <1>2, <2>2, <2>3, FrontOfRecords
  <2>5. /\ IsGraph(Sealed(graph)) /\ Sealed(graph).records = front
        /\ Sealed(graph).slots = graph.slots
    BY <1>4 DEF IsHistory, IsGraph, Sealed
  <2>. HIDE DEF front
  <2>6. \A i \in 1 .. n - 1 : i \in 1 .. n /\ i # n
    BY <1>1
  <2>7. \A i \in 1 .. n : i \in 1 .. n - 1 \/ i = n
    BY <1>1
  <2>. HIDE DEF n
  <2>8. \A i \in 1 .. n - 1 : IsRecord(records[i]) /\ ~records[i].provisional
    BY <1>2, <2>6
  <2>9. ToSet(front) = {r \in ToSet(records) : ~r.provisional}
    <3>1. ASSUME NEW r \in ToSet(front) PROVE r \in ToSet(records) /\ ~r.provisional
      <4>1. PICK i \in 1 .. n - 1 : r = records[i]
        BY <2>4
      <4>. QED BY <1>1, <2>6, <2>8, <4>1
    <3>2. ASSUME NEW r \in ToSet(records), ~r.provisional PROVE r \in ToSet(front)
      BY <1>1, <2>1, <2>4, <2>7, <3>2
    <3>. QED BY <3>1, <3>2
  <2>10. IsSealed(Sealed(graph))
    BY <2>4, <2>5, <2>8 DEF IsSealed
  <2>. QED BY <2>5, <2>9, <2>10
<1>. QED BY <1>3, <1>4

(* A record goes to the end of a sealed history. *)
LEMMA Appended ==
  ASSUME NEW graph, IsSealed(graph), NEW r, IsRecord(r)
  PROVE  /\ IsHistory(AppendRecord(graph, r))
         /\ AppendRecord(graph, r).slots = graph.slots
         /\ ToSet(AppendRecord(graph, r).records) = ToSet(graph.records) \cup {r}
<1>. DEFINE records == graph.records
            n == Len(records)
            after == Append(records, r)
<1>1. n \in Nat \ {0}
  BY LastOfRecords DEF IsSealed
<1>2. /\ records \in Seq(ToSet(records))
      /\ \A i \in 1 .. n : IsRecord(records[i]) /\ ~records[i].provisional
  BY DEF IsSealed
<1>3. /\ after \in Seq(ToSet(after)) /\ after # <<>> /\ Len(after) = n + 1
      /\ after[n + 1] = r
      /\ \A i \in 1 .. n : after[i] = records[i]
      /\ ToSet(after) = ToSet(records) \cup {r}
  BY <1>2, OneMoreRecord
<1>. HIDE DEF after
<1>4. /\ IsGraph(AppendRecord(graph, r)) /\ AppendRecord(graph, r).records = after
      /\ AppendRecord(graph, r).slots = graph.slots
  BY DEF AppendRecord, IsSealed, IsGraph, after
<1>5. \A i \in 1 .. n + 1 : i \in 1 .. n \/ (i = n + 1 /\ i # 1)
  BY <1>1
<1>. HIDE DEF n
<1>6. \A i \in 1 .. n + 1 : /\ IsRecord(after[i])
                            /\ after[i].provisional => i = n + 1 /\ i # 1
  BY <1>2, <1>3, <1>5
<1>7. IsHistory(AppendRecord(graph, r))
  BY <1>3, <1>4, <1>6 DEF IsHistory
<1>. QED BY <1>3, <1>4, <1>7

(* A record as it is made is sealed and has its digest and immutable part, ... *)
LEMMA RecordIsRecord ==
  ASSUME NEW id, NEW storage, NEW body, NEW imm
  PROVE  /\ IsRecord(Record(id, storage, body, imm))
         /\ Record(id, storage, body, imm).id = id
         /\ Record(id, storage, body, imm).imm = imm
         /\ ~Record(id, storage, body, imm).provisional
BY DEF IsRecord, Record

(* ... keeps both when it is sealed or made provisional, ... *)
LEMMA RecordTouched ==
  ASSUME NEW r, IsRecord(r), NEW b \in BOOLEAN
  PROVE  /\ IsRecord([r EXCEPT !.provisional = b])
         /\ [r EXCEPT !.provisional = b].id = r.id
         /\ [r EXCEPT !.provisional = b].imm = r.imm
         /\ [r EXCEPT !.provisional = b].provisional = b
BY DEF IsRecord

(* ... and when a merge takes it in. *)
LEMMA RecordImported ==
  ASSUME NEW r, IsRecord(r), NEW merge
  PROVE  /\ IsRecord([r EXCEPT !.resolvedBy = merge])
         /\ [r EXCEPT !.resolvedBy = merge].id = r.id
         /\ [r EXCEPT !.resolvedBy = merge].imm = r.imm
         /\ [r EXCEPT !.resolvedBy = merge].provisional = r.provisional
BY DEF IsRecord

(* A history made from another: each record is one the other has, or the   *)
(* one minted, and every sealed record of the other is still there, sealed. *)
Succeeds(graph, records, id, imm) ==
  /\ IsHistory(graph)
  /\ \A r \in ToSet(graph.records) :
       \/ r.id = id /\ r.imm = imm
       \/ \E s \in records : s.id = r.id /\ s.imm = r.imm
  /\ \A r \in records : ~r.provisional =>
       \E s \in ToSet(graph.records) : s.id = r.id /\ s.imm = r.imm /\ ~s.provisional

(* A save replaces a provisional tail or adds to what is sealed. *)
LEMMA SavedSucceeds ==
  ASSUME NEW graph, IsHistory(graph), NEW who, NEW id, NEW text,
         NEW regular \in BOOLEAN
  PROVE  /\ Saved(graph, who, id, text, regular).slots = graph.slots
         /\ \E imm : Succeeds(Saved(graph, who, id, text, regular),
                              ToSet(graph.records), id, imm)
<1>. DEFINE base == Sealed(graph)
            body == FullInsert(text)
            imm == Immutable("content", base.head, base.contentHead, {}, who, text,
                             body, None)
            r == [Record(id, "delta", body, imm) EXCEPT !.provisional = regular]
            after == Saved(graph, who, id, text, regular)
<1>1. after = AppendRecord(base, r)
  BY DEF Saved
<1>2. /\ IsSealed(base) /\ base.slots = graph.slots
      /\ ToSet(base.records) = {s \in ToSet(graph.records) : ~s.provisional}
  BY SealedIsSealed
<1>. HIDE DEF base, body, imm
<1>3. IsRecord(r) /\ r.id = id /\ r.imm = imm
  <2>. DEFINE plain == Record(id, "delta", body, imm)
  <2>1. IsRecord(plain) /\ plain.id = id /\ plain.imm = imm
    BY RecordIsRecord
  <2>. HIDE DEF plain
  <2>2. r = [plain EXCEPT !.provisional = regular]
    BY DEF plain
  <2>. HIDE DEF r
  <2>. QED BY <2>1, <2>2, RecordTouched
<1>. HIDE DEF r
<1>4. /\ IsHistory(after) /\ after.slots = graph.slots
      /\ ToSet(after.records) = ToSet(base.records) \cup {r}
  BY <1>1, <1>2, <1>3, Appended
<1>. HIDE DEF after
<1>5. Succeeds(after, ToSet(graph.records), id, imm)
  BY <1>2, <1>3, <1>4 DEF Succeeds
<1>. QED BY <1>4, <1>5 DEF after

(* Discarding drops what is provisional. *)
LEMMA DiscardedSucceeds ==
  ASSUME NEW graph, IsHistory(graph), NEW id
  PROVE  /\ Discarded(graph).slots = graph.slots
         /\ \E imm : Succeeds(Discarded(graph), ToSet(graph.records), id, imm)
<1>1. /\ IsSealed(Discarded(graph)) /\ Discarded(graph).slots = graph.slots
      /\ ToSet(Discarded(graph).records) = {s \in ToSet(graph.records) : ~s.provisional}
  BY SealedIsSealed DEF Discarded
<1>2. IsHistory(Discarded(graph))
  BY <1>1 DEF IsSealed, IsHistory
<1>3. Succeeds(Discarded(graph), ToSet(graph.records), id, None)
  BY <1>1, <1>2 DEF Succeeds
<1>. QED BY <1>1, <1>3

(* A list by its length is a sequence of its elements. *)
LEMMA ListOfElements ==
  ASSUME NEW n \in Nat \ {0}, NEW V, NEW s \in [1 .. n -> V]
  PROVE  /\ s \in Seq(ToSet(s)) /\ s # <<>> /\ Len(s) = n
         /\ ToSet(s) = {s[i] : i \in 1 .. n}
<1>1. s \in Seq(V) /\ Len(s) = n /\ DOMAIN s = 1 .. n /\ n # 0
  OBVIOUS
<1>2. ToSet(s) = {s[i] : i \in 1 .. n}
  BY <1>1 DEF ToSet
<1>3. \A i \in 1 .. Len(s) : s[i] \in ToSet(s)
  BY <1>1, <1>2
<1>4. s \in Seq(ToSet(s))
  BY <1>1, <1>3
<1>. QED BY <1>1, <1>2, <1>4

(* Sealing the tail again changes no record but in being provisional. *)
LEMMA ResealedSucceeds ==
  ASSUME NEW graph, IsHistory(graph), NEW id
  PROVE  /\ Resealed(graph).slots = graph.slots
         /\ \E imm : Succeeds(Resealed(graph), ToSet(graph.records), id, imm)
<1>. DEFINE records == graph.records
            n == Len(records)
            after == [records EXCEPT ![n].provisional = FALSE]
<1>1. /\ n \in Nat \ {0} /\ DOMAIN records = 1 .. n
      /\ \A i \in 1 .. n : records[i] \in ToSet(records)
      /\ \A r \in ToSet(records) : \E i \in 1 .. n : r = records[i]
  BY LastOfRecords DEF IsHistory
<1>2. /\ records \in Seq(ToSet(records))
      /\ \A i \in 1 .. n : /\ IsRecord(records[i])
                           /\ records[i].provisional => i = n /\ i # 1
  BY DEF IsHistory
<1>3. /\ IsGraph(Resealed(graph)) /\ Resealed(graph).records = after
      /\ Resealed(graph).slots = graph.slots
  BY DEF IsHistory, IsGraph, Resealed
<1>. DEFINE tail == [records[n] EXCEPT !.provisional = FALSE]
<1>4. /\ IsRecord(tail) /\ tail.id = records[n].id /\ tail.imm = records[n].imm
      /\ tail.provisional = FALSE
  <2>1. n \in 1 .. n
    <3>1. \A k \in Nat \ {0} : k \in 1 .. k
      OBVIOUS
    <3>. HIDE DEF n
    <3>. QED BY <1>1, <3>1
  <2>2. IsRecord(records[n])
    BY <1>2, <2>1
  <2>. QED BY <2>2, RecordTouched
<1>. HIDE DEF tail
<1>5. /\ DOMAIN after = 1 .. n
      /\ \A i \in 1 .. n : after[i] = IF i = n THEN tail ELSE records[i]
  BY <1>1 DEF tail
<1>6. after \in [1 .. n -> ToSet(records) \cup {tail}]
  BY <1>1, <1>5
<1>. HIDE DEF after, n
<1>7. /\ after \in Seq(ToSet(after)) /\ after # <<>> /\ Len(after) = n
      /\ \A i \in 1 .. n : after[i] \in ToSet(after)
      /\ \A r \in ToSet(after) : \E i \in 1 .. n : r = after[i]
  <2>. DEFINE V == ToSet(records) \cup {tail}
  <2>1. after \in [1 .. n -> V]
    BY <1>6
  <2>. HIDE DEF V
  <2>2. n \in Nat \ {0}
    BY <1>1
  <2>3. /\ after \in Seq(ToSet(after)) /\ after # <<>> /\ Len(after) = n
        /\ ToSet(after) = {after[i] : i \in 1 .. n}
    BY <2>1, <2>2, ListOfElements
  <2>. QED BY <2>3
<1>8. n \in 1 .. n
  BY <1>1
<1>10. \A i \in 1 .. n : /\ IsRecord(after[i]) /\ ~after[i].provisional
                         /\ after[i].id = records[i].id /\ after[i].imm = records[i].imm
  BY <1>2, <1>4, <1>5
<1>11. IsHistory(Resealed(graph))
  BY <1>3, <1>7, <1>10 DEF IsHistory
<1>12. Succeeds(Resealed(graph), ToSet(records), id, None)
  <2>1. ASSUME NEW r \in ToSet(after)
        PROVE  \E s \in ToSet(records) : s.id = r.id /\ s.imm = r.imm
    <3>1. PICK i \in 1 .. n : r = after[i]
      BY <1>7
    <3>. QED BY <1>1, <1>10, <3>1
  <2>2. ASSUME NEW r \in ToSet(records)
        PROVE  \E s \in ToSet(after) : s.id = r.id /\ s.imm = r.imm /\ ~s.provisional
    <3>1. PICK i \in 1 .. n : r = records[i]
      BY <1>1
    <3>. QED BY <1>7, <1>10, <3>1
  <2>. QED BY <1>3, <1>11, <2>1, <2>2 DEF Succeeds
<1>. QED BY <1>3, <1>12

(* An event is one more record, over a list of members of its own. *)
LEMMA EventAppended ==
  ASSUME NEW graph, IsSealed(graph), NEW slots, NEW who, NEW id, NEW event
  PROVE  /\ IsSealed(AppendEvent(graph, slots, who, id, event))
         /\ AppendEvent(graph, slots, who, id, event).slots = slots
         /\ \E r : /\ r.id = id
                   /\ ToSet(AppendEvent(graph, slots, who, id, event).records)
                        = ToSet(graph.records) \cup {r}
<1>. DEFINE base == [graph EXCEPT !.slots = slots]
            imm == Immutable("event", graph.head, None, {}, who,
                             Last(graph.records).imm.text, None, event)
            r == Record(id, "event", None, imm)
            after == AppendEvent(graph, slots, who, id, event)
<1>1. after = AppendRecord(base, r)
  BY DEF AppendEvent
<1>2. IsGraph(base) /\ base.slots = slots /\ base.records = graph.records
  BY DEF IsSealed, IsGraph
<1>. HIDE DEF base, imm
<1>3. IsSealed(base)
  BY <1>2 DEF IsSealed
<1>4. IsRecord(r) /\ r.id = id /\ ~r.provisional
  BY RecordIsRecord
<1>. HIDE DEF r
<1>5. /\ IsHistory(after) /\ after.slots = slots
      /\ ToSet(after.records) = ToSet(graph.records) \cup {r}
  BY <1>1, <1>2, <1>3, <1>4, Appended
<1>. HIDE DEF after
<1>6. \A s \in ToSet(after.records) : ~s.provisional
  <2>1. \A s \in ToSet(graph.records) : ~s.provisional
    BY LastOfRecords DEF IsSealed
  <2>. QED BY <1>4, <1>5, <2>1
<1>7. IsSealed(after)
  BY <1>5, <1>6, LastOfRecords DEF IsHistory, IsSealed
<1>. QED BY <1>4, <1>5, <1>7 DEF after

(* An event leaves every record of the history. *)
LEMMA EventSucceeds ==
  ASSUME NEW graph, IsHistory(graph), MayAppendEvent(graph),
         NEW slots, NEW who, NEW id, NEW event
  PROVE  /\ AppendEvent(graph, slots, who, id, event).slots = slots
         /\ \E imm : Succeeds(AppendEvent(graph, slots, who, id, event),
                              ToSet(graph.records), id, imm)
<1>. DEFINE after == AppendEvent(graph, slots, who, id, event)
<1>1. IsSealed(graph)
  BY NoneProvisional DEF MayAppendEvent
<1>2. /\ IsSealed(after) /\ after.slots = slots
      /\ \E r : r.id = id /\ ToSet(after.records) = ToSet(graph.records) \cup {r}
  BY <1>1, EventAppended
<1>. HIDE DEF after
<1>3. PICK r : r.id = id /\ ToSet(after.records) = ToSet(graph.records) \cup {r}
  BY <1>2
<1>4. IsHistory(after)
  BY <1>2 DEF IsSealed, IsHistory
<1>5. Succeeds(after, ToSet(graph.records), id, r.imm)
  BY <1>3, <1>4 DEF Succeeds
<1>. QED BY <1>2, <1>5 DEF after

(* A compaction touches what is stored of the records, and adds an event. *)
LEMMA CompactedSucceeds ==
  ASSUME NEW graph, IsHistory(graph), ~Provisional(graph),
         NEW retain, NEW who, NEW id
  PROVE  /\ Compacted(graph, retain, who, id).slots = graph.slots
         /\ \E imm : Succeeds(Compacted(graph, retain, who, id),
                              ToSet(graph.records), id, imm)
<1>. DEFINE records == graph.records
            n == Len(records)
            content == CanonicalContent(records)
            k == CompactionCutoff(graph, retain)
            cutoff == Position(records, content[k].id)
            text(r) == Reconstruct(graph, r.id)
            stored(i) ==
              LET r == records[i] IN
              IF Foreign(r) \/ ~IsContent(r) \/ i > cutoff THEN r
              ELSE IF i = cutoff
              THEN [r EXCEPT !.storage = "checkpoint", !.body = text(r)]
              ELSE [r EXCEPT !.storage = "pruned", !.body = None]
            kept == [i \in DOMAIN records |-> stored(i)]
            base == [graph EXCEPT !.records = kept]
            event == [type |-> "compaction", cutoff |-> content[k].id,
                      retained |-> Len(content) - k]
            after == Compacted(graph, retain, who, id)
<1>1. after = AppendEvent(base, graph.slots, who, id, event)
  BY DEF Compacted
<1>2. IsSealed(graph)
  BY NoneProvisional
<1>3. /\ n \in Nat \ {0} /\ DOMAIN records = 1 .. n
      /\ \A i \in 1 .. n : records[i] \in ToSet(records)
      /\ \A r \in ToSet(records) : \E i \in 1 .. n : r = records[i]
      /\ \A i \in 1 .. n : IsRecord(records[i]) /\ ~records[i].provisional
  BY <1>2, LastOfRecords DEF IsSealed
<1>. HIDE DEF content, k, cutoff, event, text
<1>4. ASSUME NEW i \in 1 .. n
      PROVE  /\ IsRecord(stored(i)) /\ ~stored(i).provisional
             /\ stored(i).id = records[i].id /\ stored(i).imm = records[i].imm
  <2>. DEFINE r == records[i]
  <2>1. IsRecord(r) /\ ~r.provisional
    BY <1>3
  <2>. HIDE DEF r
  <2>2. \A s, b : LET q == [r EXCEPT !.storage = s, !.body = b]
                  IN IsRecord(q) /\ ~q.provisional /\ q.id = r.id /\ q.imm = r.imm
    BY <2>1 DEF IsRecord
  <2>3. /\ LET q == [r EXCEPT !.storage = "checkpoint", !.body = text(r)]
           IN IsRecord(q) /\ ~q.provisional /\ q.id = r.id /\ q.imm = r.imm
        /\ LET q == [r EXCEPT !.storage = "pruned", !.body = None]
           IN IsRecord(q) /\ ~q.provisional /\ q.id = r.id /\ q.imm = r.imm
    BY <2>2
  <2>4. \/ stored(i) = r
        \/ stored(i) = [r EXCEPT !.storage = "checkpoint", !.body = text(r)]
        \/ stored(i) = [r EXCEPT !.storage = "pruned", !.body = None]
    BY DEF r
  <2>. HIDE DEF stored
  <2>. QED BY <2>1, <2>3, <2>4 DEF r
<1>. HIDE DEF stored
<1>5. DOMAIN kept = 1 .. n /\ \A i \in 1 .. n : kept[i] = stored(i)
  BY <1>3
<1>6. kept \in [1 .. n -> {stored(i) : i \in 1 .. n}]
  BY <1>3
<1>. HIDE DEF kept
<1>7. /\ kept \in Seq(ToSet(kept)) /\ kept # <<>> /\ Len(kept) = n
      /\ \A i \in 1 .. n : kept[i] \in ToSet(kept)
      /\ \A r \in ToSet(kept) : \E i \in 1 .. n : r = kept[i]
  <2>. DEFINE V == {stored(i) : i \in 1 .. n}
  <2>1. kept \in [1 .. n -> V]
    BY <1>6
  <2>. HIDE DEF n, V
  <2>2. n \in Nat \ {0}
    BY <1>3
  <2>3. /\ kept \in Seq(ToSet(kept)) /\ kept # <<>> /\ Len(kept) = n
        /\ ToSet(kept) = {kept[i] : i \in 1 .. n}
    BY <2>1, <2>2, ListOfElements
  <2>. QED BY <2>3
<1>8. \A i \in 1 .. n : /\ IsRecord(kept[i]) /\ ~kept[i].provisional
                        /\ kept[i].id = records[i].id /\ kept[i].imm = records[i].imm
  BY <1>4, <1>5
<1>9. IsGraph(base) /\ base.records = kept
  BY <1>2 DEF IsSealed, IsGraph
<1>. HIDE DEF base, n
<1>10. IsSealed(base)
  BY <1>7, <1>8, <1>9 DEF IsSealed
<1>11. /\ IsSealed(after) /\ after.slots = graph.slots
       /\ \E r : r.id = id /\ ToSet(after.records) = ToSet(base.records) \cup {r}
  BY <1>1, <1>10, EventAppended
<1>. HIDE DEF after
<1>12. PICK r : r.id = id /\ ToSet(after.records) = ToSet(kept) \cup {r}
  BY <1>9, <1>11
<1>13. IsHistory(after)
  BY <1>11 DEF IsSealed, IsHistory
<1>14. Succeeds(after, ToSet(records), id, r.imm)
  <2>1. ASSUME NEW s \in ToSet(after.records)
        PROVE  \/ s.id = id /\ s.imm = r.imm
               \/ \E q \in ToSet(records) : q.id = s.id /\ q.imm = s.imm
    <3>1. CASE s = r
      BY <1>12, <3>1
    <3>2. CASE s \in ToSet(kept)
      <4>1. PICK i \in 1 .. n : s = kept[i]
        BY <1>7, <3>2
      <4>. QED BY <1>3, <1>8, <4>1
    <3>. QED BY <1>12, <3>1, <3>2
  <2>2. ASSUME NEW q \in ToSet(records)
        PROVE  \E s \in ToSet(after.records) :
                 s.id = q.id /\ s.imm = q.imm /\ ~s.provisional
    <3>1. PICK i \in 1 .. n : q = records[i]
      BY <1>3
    <3>. QED BY <1>7, <1>8, <1>12, <3>1
  <2>. QED BY <1>13, <2>1, <2>2 DEF Succeeds
<1>. QED BY <1>11, <1>14 DEF after

(* The elements of two sequences, one after the other. *)
LEMMA Joined ==
  ASSUME NEW V, NEW s \in Seq(V), NEW W, NEW t \in Seq(W)
  PROVE  /\ s \o t \in Seq(ToSet(s \o t))
         /\ ToSet(s \o t) = ToSet(s) \cup ToSet(t)
         /\ s # <<>> => s \o t # <<>>
<1>. DEFINE m == Len(s)
            n == Len(t)
            u == s \o t
<1>1. /\ s \in Seq(V \cup W) /\ t \in Seq(V \cup W)
      /\ m \in Nat /\ n \in Nat
      /\ DOMAIN s = 1 .. m /\ DOMAIN t = 1 .. n
  OBVIOUS
<1>2. /\ u \in Seq(V \cup W) /\ Len(u) = m + n
      /\ \A i \in 1 .. m : u[i] = s[i]
      /\ \A i \in 1 .. n : u[m + i] = t[i]
  BY <1>1
<1>3. DOMAIN u = 1 .. m + n
  BY <1>2
<1>4. ToSet(s) = {s[i] : i \in 1 .. m} /\ ToSet(t) = {t[i] : i \in 1 .. n}
  BY <1>1 DEF ToSet
<1>. HIDE DEF u
<1>5. ToSet(u) = {u[i] : i \in 1 .. m + n}
  BY <1>3 DEF ToSet
<1>. HIDE DEF m, n
<1>6. ASSUME NEW x \in ToSet(u) PROVE x \in ToSet(s) \cup ToSet(t)
  <2>1. PICK i \in 1 .. m + n : x = u[i]
    BY <1>5
  <2>2. CASE i \in 1 .. m
    BY <1>2, <1>4, <2>1, <2>2
  <2>3. CASE i > m
    <3>1. i - m \in 1 .. n /\ m + (i - m) = i
      BY <1>1, <2>3
    <3>. QED BY <1>2, <1>4, <2>1, <3>1
  <2>. QED BY <1>1, <2>2, <2>3
<1>7. ASSUME NEW x \in ToSet(s) \cup ToSet(t) PROVE x \in ToSet(u)
  <2>1. CASE x \in ToSet(s)
    <3>1. PICK i \in 1 .. m : x = s[i]
      BY <1>4, <2>1
    <3>2. i \in 1 .. m + n
      BY <1>1
    <3>. QED BY <1>2, <1>5, <3>1, <3>2
  <2>2. CASE x \in ToSet(t)
    <3>1. PICK i \in 1 .. n : x = t[i]
      BY <1>4, <2>2
    <3>2. m + i \in 1 .. m + n
      BY <1>1
    <3>. QED BY <1>2, <1>5, <3>1, <3>2
  <2>. QED BY <2>1, <2>2
<1>8. ToSet(u) = ToSet(s) \cup ToSet(t)
  BY <1>6, <1>7
<1>9. u \in Seq(ToSet(u))
  <2>1. \A i \in 1 .. Len(u) : u[i] \in ToSet(u)
    BY <1>2, <1>5
  <2>. QED BY <1>2, <2>1
<1>10. s # <<>> => u # <<>>
  <2>1. s # <<>> => m # 0
    BY DEF m
  <2>2. m # 0 => m + n # 0
    BY <1>1
  <2>. QED BY <1>2, <2>1, <2>2
<1>. QED BY <1>8, <1>9, <1>10 DEF u

(* A merge continues one's own line and takes in what only the target has: *)
(* every record of either is still there.                                  *)
LEMMA MergedSucceeds ==
  ASSUME NEW own, IsHistory(own), ~Provisional(own),
         NEW there, IsHistory(there), ~Provisional(there),
         \A r \in ToSet(own.records), s \in ToSet(there.records) :
           r.id = s.id => r.imm = s.imm,
         NEW who, NEW id, NEW text
  PROVE  /\ Merged(own, there, who, id, text).slots = there.slots
         /\ \E imm : Succeeds(Merged(own, there, who, id, text),
                              ToSet(own.records) \cup ToSet(there.records), id, imm)
<1>. DEFINE S == {r \in ToSet(there.records) : r.id \notin Ids(own.records)}
            unknown == Only(there.records, S)
            import(r) == [Record(r.id, "foreign", None, r.imm) EXCEPT !.resolvedBy = id]
            imports == [i \in DOMAIN unknown |-> import(unknown[i])]
            body == Splice(HeadText(own), text)
            imm == Immutable("content", own.head, own.contentHead, {there.head}, who,
                             text, body, None)
            joined == own.records \o imports
            base == [own EXCEPT !.slots = there.slots, !.records = joined]
            merge == Record(id, "delta", body, imm)
            after == Merged(own, there, who, id, text)
<1>1. after = AppendRecord(base, merge)
  BY DEF Merged
<1>2. IsSealed(own) /\ IsSealed(there)
  BY NoneProvisional
<1>3. /\ own.records \in Seq(ToSet(own.records)) /\ own.records # <<>>
      /\ there.records \in Seq(ToSet(there.records))
      /\ \A r \in ToSet(own.records) : IsRecord(r) /\ ~r.provisional
  <2>1. /\ own.records \in Seq(ToSet(own.records)) /\ own.records # <<>>
        /\ there.records \in Seq(ToSet(there.records))
        /\ \A i \in 1 .. Len(own.records) :
             IsRecord(own.records[i]) /\ ~own.records[i].provisional
    BY <1>2 DEF IsSealed
  <2>2. ASSUME NEW r \in ToSet(own.records) PROVE IsRecord(r) /\ ~r.provisional
    <3>1. PICK i \in 1 .. Len(own.records) : r = own.records[i]
      BY <2>1, LastOfRecords
    <3>. QED BY <2>1, <3>1
  <2>. QED BY <2>1, <2>2
<1>4. unknown \in Seq(S) /\ ToSet(unknown) = S
  <2>1. /\ unknown \in Seq(ToSet(there.records) \cap S)
        /\ ToSet(unknown) = ToSet(there.records) \cap S
    <3>. HIDE DEF S
    <3>. QED BY <1>3, OnlyRange
  <2>2. ToSet(there.records) \cap S = S
    OBVIOUS
  <2>. HIDE DEF unknown, S
  <2>. QED BY <2>1, <2>2
<1>. HIDE DEF unknown, body, imm
<1>5. \A r : /\ IsRecord(import(r)) /\ ~import(r).provisional
             /\ import(r).id = r.id /\ import(r).imm = r.imm
  BY DEF IsRecord, Record
<1>. HIDE DEF import, S
<1>. DEFINE n == Len(unknown)
<1>6. /\ DOMAIN unknown = 1 .. n /\ n \in Nat
      /\ S = {unknown[i] : i \in 1 .. n}
  BY <1>4 DEF ToSet
<1>7. imports \in Seq({import(r) : r \in S})
  BY <1>4, <1>6
<1>8. ToSet(imports) = {import(r) : r \in S}
  <2>1. DOMAIN imports = 1 .. n /\ \A i \in 1 .. n : imports[i] = import(unknown[i])
    BY <1>6
  <2>. HIDE DEF imports, n
  <2>. QED BY <1>6, <2>1 DEF ToSet
<1>. HIDE DEF imports
<1>9. /\ joined \in Seq(ToSet(joined)) /\ joined # <<>>
      /\ ToSet(joined) = ToSet(own.records) \cup {import(r) : r \in S}
  <2>. DEFINE V == ToSet(own.records)
              W == {import(r) : r \in S}
  <2>1. own.records \in Seq(V) /\ imports \in Seq(W)
    BY <1>3, <1>7
  <2>. HIDE DEF V, W
  <2>2. /\ joined \in Seq(ToSet(joined)) /\ (own.records # <<>> => joined # <<>>)
        /\ ToSet(joined) = ToSet(own.records) \cup ToSet(imports)
    BY <2>1, Joined
  <2>. QED BY <1>3, <1>8, <2>2
<1>10. \A r \in ToSet(joined) : IsRecord(r) /\ ~r.provisional
  BY <1>3, <1>5, <1>9
<1>. HIDE DEF joined
<1>11. IsGraph(base) /\ base.slots = there.slots /\ base.records = joined
  BY <1>2 DEF IsSealed, IsGraph
<1>. HIDE DEF base
<1>12. IsSealed(base)
  <2>1. \A i \in 1 .. Len(joined) : joined[i] \in ToSet(joined)
    BY <1>9
  <2>. QED BY <1>9, <1>10, <1>11, <2>1 DEF IsSealed
<1>13. IsRecord(merge) /\ merge.id = id /\ merge.imm = imm
  BY RecordIsRecord
<1>. HIDE DEF merge
<1>14. /\ IsHistory(after) /\ after.slots = there.slots
       /\ ToSet(after.records) = ToSet(joined) \cup {merge}
  BY <1>1, <1>11, <1>12, <1>13, Appended
<1>. HIDE DEF after
<1>15. ASSUME NEW r \in ToSet(after.records)
       PROVE  \/ r.id = id /\ r.imm = imm
              \/ \E s \in ToSet(own.records) \cup ToSet(there.records) :
                   s.id = r.id /\ s.imm = r.imm
  <2>1. S \subseteq ToSet(there.records)
    BY DEF S
  <2>. QED BY <1>5, <1>9, <1>13, <1>14, <2>1
<1>16. ASSUME NEW r \in ToSet(own.records) \cup ToSet(there.records)
       PROVE  \E s \in ToSet(after.records) :
                s.id = r.id /\ s.imm = r.imm /\ ~s.provisional
  <2>1. CASE r \in ToSet(own.records)
    BY <1>3, <1>9, <1>14, <2>1
  <2>2. CASE r \in S
    <3>1. import(r) \in ToSet(after.records)
      BY <1>9, <1>14, <2>2
    <3>. QED BY <1>5, <3>1
  <2>3. CASE r \in ToSet(there.records) /\ r \notin S
    <3>1. r.id \in Ids(own.records)
      BY <2>3 DEF S
    <3>2. PICK s \in ToSet(own.records) : s.id = r.id
      BY <1>3, <3>1 DEF Ids, ToSet
    <3>3. s.imm = r.imm
      BY <2>3, <3>2
    <3>. QED BY <1>3, <1>9, <1>14, <3>2, <3>3
  <2>. QED BY <2>1, <2>2, <2>3
<1>17. Succeeds(after, ToSet(own.records) \cup ToSet(there.records), id, imm)
  BY <1>14, <1>15, <1>16 DEF Succeeds
<1>. QED BY <1>14, <1>17 DEF after

-----------------------------------------------------------------------------
(* Candidates *)

(* What the invariant says of each document. *)
LEMMA DocumentsAre ==
  ASSUME IInv
  PROVE  /\ target \in Documents
         /\ \A c \in Clients : /\ held[c] # None => held[c] \in Documents
                               /\ pending[c] # None => pending[c] \in Documents
         /\ \A doc \in Documents : IsDocument(doc)
         /\ \A doc \in Documents : \A r \in RecordsOf(doc) :
              r.id[1] \in Clients /\ r.id[2] \in -MaxEntries..minted[r.id[1]]
<1>1. \A doc \in Documents : \A r \in RecordsOf(doc) : r.id \in Ids(doc.graph.records)
  BY DEF RecordsOf, ToSet, Ids
<1>2. \A doc \in Documents : \A id \in Ids(doc.graph.records) :
        id[1] \in Clients /\ id[2] \in -MaxEntries..minted[id[1]]
  BY DEF IInv, TypeOK
<1>3. target \in Documents
  BY DEF IInv, Replicas, Documents
<1>4. \A c \in Clients : /\ held[c] # None => held[c] \in Documents
                         /\ pending[c] # None => pending[c] \in Documents
  BY DEF Documents
<1>5. \A doc \in Documents : IsDocument(doc)
  BY DEF IInv
<1>. QED BY <1>1, <1>2, <1>3, <1>4, <1>5

(* A digest that is still to be minted names no record. *)
LEMMA DigestIsFresh ==
  ASSUME IInv, NEW c \in Clients, NEW doc \in Documents, NEW r \in RecordsOf(doc)
  PROVE  r.id # Digest(c)
<1>1. r.id[1] \in Clients /\ r.id[2] \in -MaxEntries..minted[r.id[1]]
  BY DocumentsAre
<1>2. minted[c] \in Nat
  BY BoundsAreNaturals DEF IInv, TypeOK
<1>. SUFFICES ASSUME r.id = Digest(c) PROVE FALSE
  OBVIOUS
<1>3. r.id[1] = c /\ r.id[2] = minted[c] + 1
  BY DEF Digest
<1>. QED BY <1>1, <1>2, <1>3

(* What minting a digest leaves true of the digests minted before. *)
LEMMA MintedGrows ==
  ASSUME IInv, NEW c \in Clients, Minting,
         minted' = [minted EXCEPT ![c] = @ + 1]
  PROVE  /\ minted' \in [Clients -> 0 .. MaxMinted]
         /\ Digest(c)[1] = c /\ Digest(c)[2] \in -MaxEntries..minted'[c]
         /\ \A d \in Clients : \A n \in -MaxEntries..minted[d] :
              n \in -MaxEntries..minted'[d]
<1>1. /\ minted \in [Clients -> 0 .. MaxMinted] /\ MaxMinted \in Nat
      /\ MaxEntries \in Nat
  BY BoundsAreNaturals DEF IInv, TypeOK
<1>2. \A d \in Clients : minted[d] \in Nat /\ minted[d] < MaxMinted
  BY <1>1 DEF Minting, Clients
<1>3. \A d \in Clients : minted'[d] = IF d = c THEN minted[d] + 1 ELSE minted[d]
  BY <1>1
<1>4. minted' \in [Clients -> 0 .. MaxMinted]
  BY <1>1, <1>2
<1>5. Digest(c)[1] = c /\ Digest(c)[2] = minted[c] + 1
  BY DEF Digest
<1>. QED BY <1>1, <1>2, <1>3, <1>4, <1>5

(* A candidate that a client prepares: a document whose records are those  *)
(* of documents there are and one of its own, and which continues what the *)
(* client holds from now on.                                               *)
LEMMA Prepared ==
  ASSUME IInv, NEW c \in Clients, Minting,
         NEW doc, IsDocument(doc), NEW imm,
         NEW base \in Documents, Unlocks(c, base), Continues(base, doc),
         \A r \in RecordsOf(doc) :
           \/ r.id = Digest(c) /\ r.imm = imm
           \/ \E d \in Documents : \E s \in RecordsOf(d) : s.id = r.id /\ s.imm = r.imm,
         target' = target, held' = [held EXCEPT ![c] = base],
         pending' = [pending EXCEPT ![c] = doc],
         minted' = [minted EXCEPT ![c] = @ + 1], refusal' = None
  PROVE  IInv'
<1>1. /\ held = [d \in Clients |-> held[d]] /\ pending = [d \in Clients |-> pending[d]]
      /\ target # None /\ base # None
  BY DEF IInv, Replicas, Documents
<1>2. /\ \A d \in Clients : held'[d] = IF d = c THEN base ELSE held[d]
      /\ \A d \in Clients : pending'[d] = IF d = c THEN doc ELSE pending[d]
      /\ held' = [d \in Clients |-> held'[d]]
      /\ pending' = [d \in Clients |-> pending'[d]]
  BY <1>1
<1>3. Documents' \subseteq Documents \cup {doc}
  BY <1>2 DEF Documents
<1>4. \A d \in Documents' : IsDocument(d)
  BY <1>3 DEF IInv
<1>5. DigestsName'
  <2>1. \A d, e \in Documents : \A r \in RecordsOf(d), s \in RecordsOf(e) :
          r.id = s.id => r.imm = s.imm
    BY DEF IInv, DigestsName
  <2>2. \A r \in RecordsOf(doc) : \A e \in Documents : \A s \in RecordsOf(e) :
          r.id = s.id => r.imm = s.imm
    BY <2>1, DigestIsFresh
  <2>3. \A r, s \in RecordsOf(doc) : r.id = s.id => r.imm = s.imm
    BY <2>2
  <2>4. \A d, e \in Documents' : \A r \in RecordsOf(d), s \in RecordsOf(e) :
          r.id = s.id => r.imm = s.imm
    BY <1>3, <2>1, <2>2, <2>3
  <2>. QED BY <2>4 DEF DigestsName, RecordsOf
<1>6. TypeOK'
  <2>1. minted' \in [Clients -> 0 .. MaxMinted]
    BY MintedGrows
  <2>2. \A d \in Clients : pending'[d] # None => held'[d] # None
    BY <1>1, <1>2 DEF IInv, TypeOK
  <2>3. ASSUME NEW d \in Documents', NEW id \in Ids(d.graph.records)
        PROVE  id[1] \in Clients /\ id[2] \in -MaxEntries..minted'[id[1]]
    <3>1. PICK r \in RecordsOf(d) : r.id = id
      BY DEF RecordsOf, ToSet, Ids
    <3>2. \A e \in Documents : \A s \in RecordsOf(e) :
            s.id[1] \in Clients /\ s.id[2] \in -MaxEntries..minted'[s.id[1]]
      BY DocumentsAre, MintedGrows
    <3>3. CASE r.id = Digest(c)
      BY <3>1, <3>3, MintedGrows
    <3>4. CASE \E e \in Documents : \E s \in RecordsOf(e) : s.id = r.id
      BY <3>1, <3>2, <3>4
    <3>. QED BY <1>3, <3>1, <3>3, <3>4
  <2>. QED BY <2>1, <2>2, <2>3 DEF TypeOK
<1>7. Replicas'
  <2>1. \A d \in Clients : held'[d] # None => Unlocks(d, held'[d])
    BY <1>2 DEF IInv, Replicas
  <2>2. \A d \in Clients : pending'[d] # None => Continues(held'[d], pending'[d])
    BY <1>2 DEF IInv, Replicas
  <2>. QED BY <1>1, <1>2, <2>1, <2>2 DEF Replicas, Unlocks, Continues, RecordsOf
<1>. QED BY <1>4, <1>5, <1>6, <1>7 DEF IInv

(* A candidate that does not decode, or does not open, changes nothing. *)
LEMMA Refused ==
  ASSUME IInv, UNCHANGED <<target, held, pending, minted>>,
         refusal' \in {None, "limit_exceeded", "malformed_container"}
  PROVE  IInv'
<1>1. Documents' = Documents
  BY DEF Documents
<1>2. TypeOK'
  BY <1>1 DEF IInv, TypeOK
<1>3. Replicas' /\ DigestsName'
  BY <1>1 DEF IInv, Replicas, DigestsName, Unlocks, Continues, RecordsOf
<1>. QED BY <1>1, <1>2, <1>3 DEF IInv

(* What a client prepares from the replica it holds. *)
LEMMA KeepKeeps ==
  ASSUME IInv, NEW c \in Clients, Idle(c), NEW doc, NEW reopened,
         Keep(c, doc, reopened),
         doc \in [wrappers: {doc.wrappers}, graph: {doc.graph}],
         InStep(doc.wrappers, doc.graph.slots),
         \E imm : Succeeds(doc.graph, RecordsOf(held[c]), Digest(c), imm)
  PROVE  IInv'
<1>1. PICK imm : Succeeds(doc.graph, RecordsOf(held[c]), Digest(c), imm)
  OBVIOUS
<1>2. CASE refusal' # None
  <2>1. UNCHANGED <<target, held, pending, minted>>
    BY <1>2 DEF Keep
  <2>2. refusal' \in {None, "limit_exceeded", "malformed_container"}
    BY DEF Keep
  <2>. QED BY <2>1, <2>2, Refused
<1>3. CASE refusal' = None /\ UNCHANGED <<pending, minted>>
  <2>1. UNCHANGED <<target, held, pending, minted>>
    BY <1>3 DEF Keep
  <2>. QED BY <1>3, <2>1, Refused
<1>4. CASE /\ Consistent(doc.graph) /\ pending' = [pending EXCEPT ![c] = doc]
           /\ minted' = [minted EXCEPT ![c] = @ + 1] /\ refusal' = None
  <2>1. /\ held[c] # None /\ Minting /\ held[c] \in Documents /\ Unlocks(c, held[c])
        /\ held = [d \in Clients |-> held[d]]
    BY DEF Idle, IInv, Replicas, Documents
  <2>2. target' = target /\ held' = [held EXCEPT ![c] = held[c]]
    BY <2>1 DEF Keep
  <2>3. IsDocument(doc)
    BY <1>1, <1>4 DEF IsDocument, Consistent, Succeeds
  <2>4. Continues(held[c], doc)
    BY <1>1 DEF Succeeds, Continues, RecordsOf
  <2>5. \A r \in RecordsOf(doc) :
          \/ r.id = Digest(c) /\ r.imm = imm
          \/ \E d \in Documents : \E s \in RecordsOf(d) : s.id = r.id /\ s.imm = r.imm
    BY <1>1, <2>1 DEF Succeeds, RecordsOf
  <2>. QED BY <1>4, <2>1, <2>2, <2>3, <2>4, <2>5, Prepared
<1>. QED BY <1>2, <1>3, <1>4 DEF Keep

(* The same members over a history made from the replica's. *)
LEMMA KeepGraphKeeps ==
  ASSUME IInv, NEW c \in Clients, Idle(c), NEW graph,
         Keep(c, ReplaceGraph(held[c], graph), TRUE),
         graph.slots = held[c].graph.slots,
         \E imm : Succeeds(graph, RecordsOf(held[c]), Digest(c), imm)
  PROVE  IInv'
<1>1. IsDocument(held[c])
  BY DocumentsAre DEF Idle
<1>. DEFINE doc == ReplaceGraph(held[c], graph)
<1>2. /\ doc \in [wrappers: {doc.wrappers}, graph: {doc.graph}]
      /\ doc.wrappers = held[c].wrappers /\ doc.graph = graph
  BY <1>1 DEF IsDocument, ReplaceGraph
<1>. HIDE DEF doc
<1>3. InStep(doc.wrappers, doc.graph.slots)
  BY <1>1, <1>2 DEF IsDocument
<1>. QED BY <1>2, <1>3, KeepKeeps DEF doc

(* Container::prepare_save keeps the invariant, ... *)
LEMMA SaveKeeps ==
  ASSUME IInv, NEW c \in Clients, NEW text, NEW regular \in BOOLEAN,
         Save(c, text, regular)
  PROVE  IInv'
<1>1. Idle(c) /\ IsHistory(held[c].graph)
  BY DocumentsAre DEF Save, Idle, IsDocument
<1>. DEFINE graph == Saved(held[c].graph, c, Digest(c), text, regular)
<1>2. /\ graph.slots = held[c].graph.slots
      /\ \E imm : Succeeds(graph, RecordsOf(held[c]), Digest(c), imm)
  BY <1>1, SavedSucceeds DEF RecordsOf
<1>3. Keep(c, ReplaceGraph(held[c], graph), TRUE)
  BY DEF Save
<1>. HIDE DEF graph
<1>. QED BY <1>1, <1>2, <1>3, KeepGraphKeeps

(* ... and a seal of the same text, ... *)
LEMMA ResealKeeps ==
  ASSUME IInv, NEW c \in Clients, NEW text, Reseal(c, text)
  PROVE  IInv'
<1>1. Idle(c) /\ IsHistory(held[c].graph)
  BY DocumentsAre DEF Reseal, Idle, IsDocument
<1>. DEFINE graph == Resealed(held[c].graph)
<1>2. /\ graph.slots = held[c].graph.slots
      /\ \E imm : Succeeds(graph, RecordsOf(held[c]), Digest(c), imm)
  BY <1>1, ResealedSucceeds DEF RecordsOf
<1>3. Keep(c, ReplaceGraph(held[c], graph), TRUE)
  BY DEF Reseal
<1>. HIDE DEF graph
<1>. QED BY <1>1, <1>2, <1>3, KeepGraphKeeps

(* ... and prepare_discard, ... *)
LEMMA DiscardKeeps ==
  ASSUME IInv, NEW c \in Clients, Discard(c)
  PROVE  IInv'
<1>1. Idle(c) /\ IsHistory(held[c].graph)
  BY DocumentsAre DEF Discard, Idle, IsDocument
<1>. DEFINE graph == Discarded(held[c].graph)
<1>2. /\ graph.slots = held[c].graph.slots
      /\ \E imm : Succeeds(graph, RecordsOf(held[c]), Digest(c), imm)
  BY <1>1, DiscardedSucceeds DEF RecordsOf
<1>3. Keep(c, ReplaceGraph(held[c], graph), TRUE)
  BY DEF Discard
<1>. HIDE DEF graph
<1>. QED BY <1>1, <1>2, <1>3, KeepGraphKeeps

(* ... and prepare_compaction. *)
LEMMA CompactKeeps ==
  ASSUME IInv, NEW c \in Clients, NEW retain, Compact(c, retain)
  PROVE  IInv'
<1>1. Idle(c) /\ IsHistory(held[c].graph) /\ ~Provisional(held[c].graph)
  BY DocumentsAre DEF Compact, MayCompact, Idle, IsDocument
<1>. DEFINE graph == Compacted(held[c].graph, retain, c, Digest(c))
<1>2. /\ graph.slots = held[c].graph.slots
      /\ \E imm : Succeeds(graph, RecordsOf(held[c]), Digest(c), imm)
  BY <1>1, CompactedSucceeds DEF RecordsOf
<1>3. Keep(c, ReplaceGraph(held[c], graph), TRUE)
  BY DEF Compact
<1>. HIDE DEF graph
<1>. QED BY <1>1, <1>2, <1>3, KeepGraphKeeps

-----------------------------------------------------------------------------
(* Changes of the list of members *)

(* A change of the members keeps the invariant if it keeps them in step. *)
LEMMA ChangeSlotsKeeps ==
  ASSUME IInv, NEW c \in Clients, Idle(c), MayAppendEvent(held[c].graph),
         NEW change, NEW password, NEW reopened,
         ChangeSlots(c, change, password, reopened),
         InStep(Resealing(held[c], change, password), change.slots)
  PROVE  IInv'
<1>. DEFINE graph == AppendEvent(held[c].graph, change.slots, c, Digest(c), change.event)
            wrappers == Resealing(held[c], change, password)
            doc == ReplaceSlots(held[c], graph, change, password)
<1>1. IsHistory(held[c].graph)
  BY DocumentsAre DEF Idle, IsDocument
<1>2. /\ graph.slots = change.slots
      /\ \E imm : Succeeds(graph, RecordsOf(held[c]), Digest(c), imm)
  BY <1>1, EventSucceeds DEF RecordsOf
<1>3. Keep(c, doc, reopened)
  BY DEF ChangeSlots
<1>. HIDE DEF graph
<1>4. /\ doc \in [wrappers: {doc.wrappers}, graph: {doc.graph}]
      /\ doc.wrappers = wrappers /\ doc.graph = graph
  BY DEF ReplaceSlots
<1>. HIDE DEF doc, wrappers
<1>5. InStep(doc.wrappers, doc.graph.slots)
  BY <1>2, <1>4 DEF wrappers
<1>. QED BY <1>2, <1>3, <1>4, <1>5, KeepKeeps

(* A member is found at its place. *)
LEMMA SlotAtItsPlace ==
  ASSUME NEW slots \in Seq(Slots), ValidSlots(slots), NEW i \in 1 .. Len(slots)
  PROVE  SlotIndex(slots, slots[i].id) = i
<1>1. HasSlot(slots, slots[i].id)
  BY DEF HasSlot
<1>2. /\ SlotIndex(slots, slots[i].id) \in 1 .. Len(slots)
      /\ slots[SlotIndex(slots, slots[i].id)].id = slots[i].id
  BY <1>1, SlotFound
<1>3. \A j, k \in 1 .. Len(slots) : slots[j].id = slots[k].id => j = k
  BY DEF ValidSlots
<1>. QED BY <1>2, <1>3

(* A client that has a document open has a slot in it. *)
LEMMA SessionsHaveSlots ==
  ASSUME IInv, NEW c \in Clients, NEW doc \in Documents, Unlocks(c, doc)
  PROVE  /\ InStep(doc.wrappers, doc.graph.slots) /\ ValidSlots(doc.graph.slots)
         /\ \E i \in 1 .. Len(doc.graph.slots) : SessionOf(c, doc) = doc.graph.slots[i]
<1>1. InStep(doc.wrappers, doc.graph.slots) /\ ValidSlots(doc.graph.slots)
  BY DocumentsAre DEF IsDocument
<1>. DEFINE p == CHOOSE p \in Passwords[c] : Admits(doc, p)
<1>2. Admits(doc, p)
  BY DEF Unlocks
<1>. HIDE DEF p
<1>3. \E i \in 1 .. Len(doc.graph.slots) : Session(doc, p) = doc.graph.slots[i]
  BY <1>1, <1>2, SessionIsSlot
<1>. QED BY <1>1, <1>3 DEF SessionOf, p

(* A member's slot is sealed anew by a password that opens no other slot. *)
LEMMA PasswordChangeInStep ==
  ASSUME NEW doc, InStep(doc.wrappers, doc.graph.slots), ValidSlots(doc.graph.slots),
         NEW i \in 1 .. Len(doc.graph.slots),
         NEW c \in Clients, NEW p \in Passwords[c], SealsNoOther(p, i, doc.wrappers)
  PROVE  LET change == ChangePassword(doc.graph.slots, doc.graph.slots[i])
         IN InStep(Resealing(doc, change, p), change.slots)
<1>. DEFINE slots == doc.graph.slots
            change == ChangePassword(slots, slots[i])
<1>1. slots \in Seq(Slots)
  BY DEF InStep
<1>2. change.mode = "replace" /\ change.index = i /\ change.slots = slots
  BY <1>1, SlotAtItsPlace DEF ChangePassword, Change
<1>3. Resealing(doc, change, p)
        = ReplaceAt(doc.wrappers, i, Wrapper(p, slots[i].id, slots[i].mustChange))
  <2>. HIDE DEF change
  <2>. QED BY <1>2 DEF Resealing
<1>4. SameBut(i, slots, slots)
  BY <1>1 DEF SameBut
<1>5. InStep(ReplaceAt(doc.wrappers, i, Wrapper(p, slots[i].id, slots[i].mustChange)),
             slots)
  BY <1>4, InStepReplaced
<1>. HIDE DEF change
<1>. QED BY <1>2, <1>3, <1>5 DEF change

(* A claim seals the member's slot anew and ends its invitation. *)
LEMMA ClaimInStep ==
  ASSUME NEW doc, InStep(doc.wrappers, doc.graph.slots), ValidSlots(doc.graph.slots),
         NEW i \in 1 .. Len(doc.graph.slots),
         NEW c \in Clients, NEW p \in Passwords[c], SealsNoOther(p, i, doc.wrappers)
  PROVE  LET change == Claim(doc.graph.slots, doc.graph.slots[i])
         IN /\ InStep(Resealing(doc, change, p), change.slots)
            /\ change.slots = [doc.graph.slots EXCEPT ![i].mustChange = FALSE]
<1>. DEFINE slots == doc.graph.slots
            change == Claim(slots, slots[i])
            others == [slots EXCEPT ![i].mustChange = FALSE]
<1>1. slots \in Seq(Slots)
  BY DEF InStep
<1>2. change.mode = "replace" /\ change.index = i /\ change.slots = others
  BY <1>1, SlotAtItsPlace DEF Claim, Change
<1>3. Resealing(doc, change, p)
        = ReplaceAt(doc.wrappers, i, Wrapper(p, others[i].id, others[i].mustChange))
  <2>. HIDE DEF change, others
  <2>. QED BY <1>2 DEF Resealing
<1>4. SameBut(i, slots, others)
  <2>1. \A s \in Slots : [s EXCEPT !.mustChange = FALSE] \in Slots
    BY DEF Slots
  <2>2. [slots[i] EXCEPT !.mustChange = FALSE] \in Slots
    BY <1>1, <2>1
  <2>. HIDE DEF slots
  <2>. QED BY <1>1, <2>2 DEF SameBut, slots
<1>. HIDE DEF change, others
<1>5. InStep(ReplaceAt(doc.wrappers, i, Wrapper(p, others[i].id, others[i].mustChange)),
             others)
  BY <1>4, InStepReplaced, Zenon
<1>. QED BY <1>2, <1>3, <1>5 DEF change, others

(* An invitation puts the slot and its wrapper at the same place, ... *)
LEMMA InviteInStep ==
  ASSUME NEW doc, InStep(doc.wrappers, doc.graph.slots), ValidSlots(doc.graph.slots),
         NEW rights \in SUBSET Rights,
         NEW p \in Passwords[Guest], SealsNone(p, doc.wrappers)
  PROVE  LET change == Invite(doc.graph.slots, Guest, rights)
         IN InStep(Resealing(doc, change, p), change.slots)
<1>. DEFINE slots == doc.graph.slots
            change == Invite(slots, Guest, rights)
            slot == Slot(Guest, "ordinary", rights, TRUE)
            i == IF Last(slots).role = "recovery" THEN Len(slots) ELSE Len(slots) + 1
            others == InsertAt(slots, i, slot)
<1>1. InStep(doc.wrappers, slots)
  OBVIOUS
<1>2. slots \in Seq(Slots) /\ Len(slots) \in 1 .. 9
  BY DEF InStep, ValidSlots
<1>3. i \in 1 .. Len(slots) + 1
  <2>1. \A n \in 1 .. 9 : n \in 1 .. n + 1 /\ n + 1 \in 1 .. n + 1
    OBVIOUS
  <2>2. i = Len(slots) \/ i = Len(slots) + 1
    OBVIOUS
  <2>. HIDE DEF slots, i
  <2>. QED BY <1>2, <2>1, <2>2
<1>4. slot \in Slots /\ Guest \in Clients
  BY MembersDiffer DEF Slot, Slots, Clients
<1>5. change.mode = "insert" /\ change.index = i /\ change.slots = others
  BY DEF Invite, Change
<1>. HIDE DEF i, slot, change
<1>6. others[i] = slot
  <2>. DEFINE V == Slots
  <2>1. slots \in Seq(V) /\ slot \in V
    BY <1>2, <1>4
  <2>. HIDE DEF V, slots
  <2>. QED BY <1>3, <2>1, InsertedItself
<1>. HIDE DEF others
<1>7. Resealing(doc, change, p)
        = InsertAt(doc.wrappers, i, Wrapper(p, slot.id, slot.mustChange))
  BY <1>5, <1>6 DEF Resealing
<1>. HIDE DEF slots
<1>8. InStep(InsertAt(doc.wrappers, i, Wrapper(p, slot.id, slot.mustChange)),
             InsertAt(slots, i, slot))
  BY <1>1, <1>2, <1>3, <1>4, InStepInserted
<1>. QED BY <1>5, <1>7, <1>8 DEF change, others, slots

(* ... an update touches no wrapper, ... *)
LEMMA UpdateInStep ==
  ASSUME NEW doc, InStep(doc.wrappers, doc.graph.slots),
         NEW rights \in SUBSET Rights, NEW id, HasSlot(doc.graph.slots, id),
         NEW password
  PROVE  LET change == UpdatePermissions(doc.graph.slots, id, rights)
         IN InStep(Resealing(doc, change, password), change.slots)
<1>. DEFINE slots == doc.graph.slots
            change == UpdatePermissions(slots, id, rights)
            i == SlotIndex(slots, id)
            others == [slots EXCEPT ![i].rights = rights]
<1>1. InStep(doc.wrappers, slots) /\ slots \in Seq(Slots)
  BY DEF InStep
<1>2. change.mode = "none" /\ change.slots = others
  BY DEF UpdatePermissions, Change
<1>. HIDE DEF change
<1>3. Resealing(doc, change, password) = doc.wrappers
  BY <1>2 DEF Resealing
<1>4. i \in 1 .. Len(slots)
  BY <1>1, SlotFound
<1>. HIDE DEF i, slots
<1>5. [slots[i] EXCEPT !.rights = rights] \in Slots
  <2>1. slots[i] \in Slots /\ rights \in SUBSET Rights
    BY <1>1, <1>4
  <2>. QED BY <2>1 DEF Slots
<1>6. /\ others \in Seq(Slots) /\ Len(others) = Len(slots)
      /\ \A k \in 1 .. Len(slots) : /\ others[k].id = slots[k].id
                                    /\ others[k].mustChange = slots[k].mustChange
  <2>1. /\ others \in Seq(Slots) /\ Len(others) = Len(slots)
        /\ \A k \in 1 .. Len(slots) :
             others[k] = IF k = i THEN [slots[k] EXCEPT !.rights = rights] ELSE slots[k]
    BY <1>1, <1>4, <1>5
  <2>2. \A k \in 1 .. Len(slots) : slots[k] \in Slots
    BY <1>1
  <2>3. \A s \in Slots : /\ [s EXCEPT !.rights = rights].id = s.id
                         /\ [s EXCEPT !.rights = rights].mustChange = s.mustChange
    BY DEF Slots
  <2>. HIDE DEF others
  <2>. QED BY <2>1, <2>2, <2>3
<1>. HIDE DEF others
<1>. QED BY <1>1, <1>2, <1>3, <1>6, InStepSame DEF change, slots

(* ... a removal takes both from one place, ... *)
LEMMA RemoveInStep ==
  ASSUME NEW doc, InStep(doc.wrappers, doc.graph.slots),
         NEW id, HasSlot(doc.graph.slots, id), NEW password
  PROVE  LET change == RemoveSlot(doc.graph.slots, id)
         IN InStep(Resealing(doc, change, password), change.slots)
<1>. DEFINE slots == doc.graph.slots
            change == RemoveSlot(slots, id)
            i == SlotIndex(slots, id)
<1>1. InStep(doc.wrappers, slots) /\ slots \in Seq(Slots)
  BY DEF InStep
<1>2. change.mode = "remove" /\ change.index = i /\ change.slots = RemoveAt(slots, i)
  BY DEF RemoveSlot, Change
<1>3. i \in 1 .. Len(slots)
  BY <1>1, SlotFound
<1>. HIDE DEF change, i
<1>4. Resealing(doc, change, password) = RemoveAt(doc.wrappers, i)
  BY <1>2 DEF Resealing
<1>. HIDE DEF slots
<1>5. InStep(RemoveAt(doc.wrappers, i), RemoveAt(slots, i))
  BY <1>1, <1>3, InStepRemoved
<1>. QED BY <1>2, <1>4, <1>5 DEF change, slots

(* ... and a reconciliation changes neither. *)
LEMMA ReconcileInStep ==
  ASSUME NEW doc, InStep(doc.wrappers, doc.graph.slots), NEW session, NEW password
  PROVE  LET change == Reconcile(doc.graph.slots, session)
         IN InStep(Resealing(doc, change, password), change.slots)
<1>. DEFINE change == Reconcile(doc.graph.slots, session)
<1>1. InStep(doc.wrappers, doc.graph.slots)
  OBVIOUS
<1>2. change.mode = "none" /\ change.slots = doc.graph.slots
  BY DEF Reconcile, Change
<1>. HIDE DEF change
<1>3. Resealing(doc, change, password) = doc.wrappers
  BY <1>2 DEF Resealing
<1>. QED BY <1>1, <1>2, <1>3 DEF change

(* Every change of the members keeps the invariant. *)
LEMMA AdministerKeeps ==
  ASSUME IInv, NEW c \in Clients, AdministerSlots(c)
  PROVE  IInv'
<1>. DEFINE doc == held[c]
            slots == held[c].graph.slots
            session == SessionOf(c, held[c])
<1>1. Idle(c) /\ MayAppendEvent(held[c].graph)
  BY DEF AdministerSlots
<1>2. doc \in Documents /\ Unlocks(c, doc)
  BY <1>1 DEF Idle, IInv, Replicas, Documents
<1>3. /\ InStep(doc.wrappers, slots) /\ ValidSlots(slots)
      /\ \E i \in 1 .. Len(slots) : session = slots[i]
  BY <1>2, SessionsHaveSlots
<1>. PICK i \in 1 .. Len(slots) : session = slots[i]
  BY <1>3
<1>. HIDE DEF session
<1>4. ASSUME NEW p, Unused(doc, p)
      PROVE  SealsNone(p, doc.wrappers) /\ SealsNoOther(p, i, doc.wrappers)
  BY <1>3, <1>4 DEF Unused, Sealing, InStep, SealsNone, SealsNoOther
<1>5. ASSUME NEW p \in Passwords[c], MayChangePassword(doc, session, p),
             ChangeSlots(c, ChangePassword(slots, session), p, TRUE)
      PROVE  IInv'
  <2>. DEFINE change == ChangePassword(slots, session)
  <2>1. InStep(Resealing(doc, change, p), change.slots)
    BY <1>3, <1>4, <1>5, PasswordChangeInStep DEF MayChangePassword
  <2>2. ChangeSlots(c, change, p, TRUE)
    BY <1>5
  <2>. HIDE DEF change
  <2>. QED BY <1>1, <2>1, <2>2, ChangeSlotsKeeps
<1>6. ASSUME NEW p \in Passwords[c], MayClaim(doc, session, p),
             ChangeSlots(c, Claim(slots, session), p, TRUE)
      PROVE  IInv'
  <2>. DEFINE change == Claim(slots, session)
  <2>1. InStep(Resealing(doc, change, p), change.slots)
    BY <1>3, <1>4, <1>6, ClaimInStep DEF MayClaim
  <2>2. ChangeSlots(c, change, p, TRUE)
    BY <1>6
  <2>. HIDE DEF change
  <2>. QED BY <1>1, <2>1, <2>2, ChangeSlotsKeeps
<1>7. ASSUME NEW rights \in Grants, NEW p \in Passwords[Guest],
             MayInvite(doc, session, Guest, rights, p),
             ChangeSlots(c, Invite(slots, Guest, rights), p, TRUE)
      PROVE  IInv'
  <2>. DEFINE change == Invite(slots, Guest, rights)
  <2>1. InStep(Resealing(doc, change, p), change.slots)
    BY <1>3, <1>4, <1>7, InviteInStep, MembersDiffer DEF MayInvite
  <2>2. ChangeSlots(c, change, p, TRUE)
    BY <1>7
  <2>. HIDE DEF change
  <2>. QED BY <1>1, <2>1, <2>2, ChangeSlotsKeeps
<1>8. ASSUME NEW rights \in Grants, MayUpdate(doc, session, Guest, rights),
             ChangeSlots(c, UpdatePermissions(slots, Guest, rights), None, TRUE)
      PROVE  IInv'
  <2>. DEFINE change == UpdatePermissions(slots, Guest, rights)
  <2>1. InStep(Resealing(doc, change, None), change.slots)
    BY <1>3, <1>8, UpdateInStep, MembersDiffer DEF MayUpdate
  <2>2. ChangeSlots(c, change, None, TRUE)
    BY <1>8
  <2>. HIDE DEF change
  <2>. QED BY <1>1, <2>1, <2>2, ChangeSlotsKeeps
<1>9. ASSUME MayRemove(doc, session, Guest),
             ChangeSlots(c, RemoveSlot(slots, Guest), None, session.id # Guest)
      PROVE  IInv'
  <2>. DEFINE change == RemoveSlot(slots, Guest)
              reopened == session.id # Guest
  <2>1. InStep(Resealing(doc, change, None), change.slots)
    BY <1>3, <1>9, RemoveInStep DEF MayRemove
  <2>2. ChangeSlots(c, change, None, reopened)
    BY <1>9
  <2>. HIDE DEF change, reopened
  <2>. QED BY <1>1, <2>1, <2>2, ChangeSlotsKeeps
<1>10. ASSUME MayReconcile(session),
              ChangeSlots(c, Reconcile(slots, session), None, TRUE)
       PROVE  IInv'
  <2>. DEFINE change == Reconcile(slots, session)
  <2>1. InStep(Resealing(doc, change, None), change.slots)
    BY <1>3, ReconcileInStep
  <2>2. ChangeSlots(c, change, None, TRUE)
    BY <1>10
  <2>. HIDE DEF change
  <2>. QED BY <1>1, <2>1, <2>2, ChangeSlotsKeeps
<1>. QED BY <1>5, <1>6, <1>7, <1>8, <1>9, <1>10 DEF AdministerSlots, session

-----------------------------------------------------------------------------
(* Opening, publishing, merging *)

(* A step that makes no document of its own. *)
LEMMA NoDocumentMade ==
  ASSUME IInv, Documents' \subseteq Documents, minted' = minted, refusal' = refusal,
         \A c \in Clients : pending'[c] # None => held'[c] # None,
         Replicas'
  PROVE  IInv'
<1>1. TypeOK'
  <2>1. /\ minted \in [Clients -> 0 .. MaxMinted]
        /\ refusal \in {None, "limit_exceeded", "malformed_container"}
    BY DEF IInv, TypeOK
  <2>2. \A doc \in Documents' : \A id \in Ids(doc.graph.records) :
          id[1] \in Clients /\ id[2] \in -MaxEntries..minted[id[1]]
    BY DEF IInv, TypeOK
  <2>. QED BY <2>1, <2>2 DEF TypeOK
<1>2. DigestsName'
  <2>1. \A d, e \in Documents' : \A r \in RecordsOf(d), s \in RecordsOf(e) :
          r.id = s.id => r.imm = s.imm
    BY DEF IInv, DigestsName
  <2>. QED BY <2>1 DEF DigestsName, RecordsOf
<1>3. \A doc \in Documents' : IsDocument(doc)
  BY DEF IInv
<1>. QED BY <1>1, <1>2, <1>3 DEF IInv

(* A client that opens the target holds what its password unlocks. *)
LEMMA OpenKeeps ==
  ASSUME IInv, NEW c \in Clients, Open(c)
  PROVE  IInv'
<1>1. /\ held = [d \in Clients |-> held[d]] /\ pending = [d \in Clients |-> pending[d]]
      /\ target # None
      /\ \A d \in Clients : /\ held[d] # None => Unlocks(d, held[d])
                            /\ pending[d] # None => Continues(held[d], pending[d])
      /\ \A d \in Clients : pending[d] # None => held[d] # None
  BY DEF IInv, Replicas, TypeOK
<1>2. /\ target' = target /\ pending' = pending /\ minted' = minted
      /\ refusal' = refusal /\ pending[c] = None
      /\ \A d \in Clients : held'[d] = IF d = c THEN target ELSE held[d]
      /\ held' = [d \in Clients |-> held'[d]]
  BY <1>1 DEF Open
<1>3. Unlocks(c, target)
  BY <1>1 DEF Open
<1>4. Documents' \subseteq Documents
  BY <1>2 DEF Documents
<1>5. \A d \in Clients : pending'[d] # None => held'[d] # None
  BY <1>1, <1>2
<1>6. Replicas'
  <2>1. \A d \in Clients : held'[d] # None => Unlocks(d, held'[d])
    BY <1>1, <1>2, <1>3
  <2>2. \A d \in Clients : pending'[d] # None => Continues(held'[d], pending'[d])
    BY <1>1, <1>2
  <2>. QED BY <1>1, <1>2, <2>1, <2>2 DEF Replicas, Unlocks, Continues, RecordsOf
<1>. QED BY <1>2, <1>4, <1>5, <1>6, NoDocumentMade

(* A candidate that is published is held only if it still opens. *)
LEMMA PublishKeeps ==
  ASSUME IInv, NEW c \in Clients, Publish(c)
  PROVE  IInv'
<1>1. /\ held = [d \in Clients |-> held[d]] /\ pending = [d \in Clients |-> pending[d]]
      /\ \A d \in Clients : /\ held[d] # None => Unlocks(d, held[d])
                            /\ pending[d] # None => Continues(held[d], pending[d])
      /\ \A d \in Clients : pending[d] # None => held[d] # None
  BY DEF IInv, Replicas, TypeOK
<1>. DEFINE opened == IF Unlocks(c, pending[c]) THEN pending[c] ELSE None
<1>2. opened # None => opened = pending[c] /\ Unlocks(c, opened)
  OBVIOUS
<1>3. /\ target' = pending[c] /\ pending[c] # None
      /\ minted' = minted /\ refusal' = refusal
      /\ \A d \in Clients : held'[d] = IF d = c THEN opened ELSE held[d]
      /\ held' = [d \in Clients |-> held'[d]]
      /\ \A d \in Clients : pending'[d] = IF d = c THEN None ELSE pending[d]
      /\ pending' = [d \in Clients |-> pending'[d]]
  BY <1>1 DEF Publish
<1>. HIDE DEF opened
<1>4. Documents' \subseteq Documents
  BY <1>2, <1>3 DEF Documents
<1>5. \A d \in Clients : pending'[d] # None => held'[d] # None
  BY <1>1, <1>3
<1>6. Replicas'
  <2>1. \A d \in Clients : held'[d] # None => Unlocks(d, held'[d])
    BY <1>1, <1>2, <1>3
  <2>2. \A d \in Clients : pending'[d] # None => Continues(held'[d], pending'[d])
    BY <1>1, <1>3
  <2>. QED BY <1>3, <2>1, <2>2 DEF Replicas, Unlocks, Continues, RecordsOf
<1>. QED BY <1>3, <1>4, <1>5, <1>6, NoDocumentMade

(* An abandoned candidate is as if it had not been prepared. *)
LEMMA AbandonKeeps ==
  ASSUME IInv, NEW c \in Clients, Abandon(c)
  PROVE  IInv'
<1>1. /\ held = [d \in Clients |-> held[d]] /\ pending = [d \in Clients |-> pending[d]]
      /\ target # None
      /\ \A d \in Clients : /\ held[d] # None => Unlocks(d, held[d])
                            /\ pending[d] # None => Continues(held[d], pending[d])
      /\ \A d \in Clients : pending[d] # None => held[d] # None
  BY DEF IInv, Replicas, TypeOK
<1>2. /\ target' = target /\ held' = held /\ minted' = minted /\ refusal' = refusal
      /\ \A d \in Clients : pending'[d] = IF d = c THEN None ELSE pending[d]
      /\ pending' = [d \in Clients |-> pending'[d]]
  BY <1>1 DEF Abandon
<1>3. Documents' \subseteq Documents
  BY <1>2 DEF Documents
<1>4. \A d \in Clients : pending'[d] # None => held'[d] # None
  BY <1>1, <1>2
<1>5. Replicas'
  <2>1. \A d \in Clients : pending'[d] # None => Continues(held'[d], pending'[d])
    BY <1>1, <1>2
  <2>. QED BY <1>1, <1>2, <2>1 DEF Replicas, Unlocks, Continues, RecordsOf
<1>. QED BY <1>2, <1>3, <1>4, <1>5, NoDocumentMade

(* A merge has the members of the target and the records of both. *)
LEMMA MergeKeeps ==
  ASSUME IInv, NEW c \in Clients, NEW text, Merge(c, text)
  PROVE  IInv'
<1>. DEFINE own == pending[c]
            graph == Merged(own.graph, target.graph, c, Digest(c), text)
            doc == MergeSave(target, own, c, Digest(c), text)
<1>1. Minting /\ own # None /\ own \in Documents /\ target \in Documents
  BY DocumentsAre DEF Merge, Conflict
<1>2. /\ IsDocument(own) /\ IsDocument(target)
      /\ ~Provisional(own.graph) /\ ~Provisional(target.graph)
      /\ Unlocks(c, target)
  BY <1>1, DocumentsAre DEF Merge, MayResolve, MayMergeSave, MayMerge
<1>3. \A r \in ToSet(own.graph.records), s \in ToSet(target.graph.records) :
        r.id = s.id => r.imm = s.imm
  BY <1>1 DEF IInv, DigestsName, RecordsOf
<1>. HIDE DEF own
<1>4. /\ graph.slots = target.graph.slots
      /\ \E imm : Succeeds(graph, ToSet(own.graph.records)
                                    \cup ToSet(target.graph.records), Digest(c), imm)
  BY <1>2, <1>3, MergedSucceeds DEF IsDocument
<1>5. doc = [target EXCEPT !.graph = graph]
  BY DEF MergeSave, ReplaceGraph
<1>. HIDE DEF graph
<1>6. /\ doc \in [wrappers: {doc.wrappers}, graph: {doc.graph}]
      /\ doc.wrappers = target.wrappers /\ doc.graph = graph
  BY <1>2, <1>5 DEF IsDocument
<1>7. CASE /\ UNCHANGED <<target, held, pending, minted>>
           /\ refusal' \in {"limit_exceeded", "malformed_container"}
  BY <1>7, Refused
<1>8. CASE /\ Valid(doc.graph) /\ target' = target
           /\ held' = [held EXCEPT ![c] = target]
           /\ pending' = [pending EXCEPT ![c] = doc]
           /\ minted' = [minted EXCEPT ![c] = @ + 1] /\ refusal' = None
  <2>. HIDE DEF doc
  <2>. PICK imm : Succeeds(graph, ToSet(own.graph.records)
                                    \cup ToSet(target.graph.records), Digest(c), imm)
    BY <1>4
  <2>1. IsDocument(doc)
    BY <1>2, <1>4, <1>6, <1>8 DEF IsDocument, Valid, Consistent, Succeeds
  <2>2. Continues(target, doc)
    BY <1>6 DEF Succeeds, Continues, RecordsOf
  <2>3. \A r \in RecordsOf(doc) :
          \/ r.id = Digest(c) /\ r.imm = imm
          \/ \E d \in Documents : \E s \in RecordsOf(d) : s.id = r.id /\ s.imm = r.imm
    BY <1>1, <1>6 DEF Succeeds, RecordsOf
  <2>. QED BY <1>1, <1>2, <1>8, <2>1, <2>2, <2>3, Prepared
<1>. QED BY <1>7, <1>8 DEF Merge, own

(* Every step keeps the invariant. *)
LEMMA NextKeeps == IInv /\ [Next]_vars => IInv'
<1>. SUFFICES ASSUME IInv, [Next]_vars PROVE IInv'
  OBVIOUS
<1>1. CASE UNCHANGED vars
  <2>1. refusal \in {None, "limit_exceeded", "malformed_container"}
    BY DEF IInv, TypeOK
  <2>. QED BY <1>1, <2>1, Refused DEF vars
<1>2. ASSUME NEW c \in Clients, Open(c) PROVE IInv'
  BY <1>2, OpenKeeps
<1>3. ASSUME NEW c \in Clients, Publish(c) PROVE IInv'
  BY <1>3, PublishKeeps
<1>4. ASSUME NEW c \in Clients, Abandon(c) PROVE IInv'
  BY <1>4, AbandonKeeps
<1>5. ASSUME NEW c \in Clients, Discard(c) PROVE IInv'
  BY <1>5, DiscardKeeps
<1>6. ASSUME NEW c \in Clients, AdministerSlots(c) PROVE IInv'
  BY <1>6, AdministerKeeps
<1>7. ASSUME NEW c \in Clients, NEW retain \in Retained, Compact(c, retain) PROVE IInv'
  BY <1>7, CompactKeeps
<1>8. ASSUME NEW c \in Clients, NEW text \in Texts, Reseal(c, text) PROVE IInv'
  BY <1>8, ResealKeeps
<1>9. ASSUME NEW c \in Clients, NEW text \in Texts, Merge(c, text) PROVE IInv'
  BY <1>9, MergeKeeps
<1>10. ASSUME NEW c \in Clients, NEW text \in Texts, NEW regular \in BOOLEAN,
              Save(c, text, regular)
       PROVE  IInv'
  BY <1>10, SaveKeeps
<1>. QED BY <1>1, <1>2, <1>3, <1>4, <1>5, <1>6, <1>7, <1>8, <1>9, <1>10 DEF Next

-----------------------------------------------------------------------------
(* The initial documents *)

(* A document no operation has been applied to: no record is minted by a  *)
(* client, and each has a digest of its own.                              *)
IsFirst(doc) ==
  /\ doc \in [wrappers: {doc.wrappers}, graph: {doc.graph}]
  /\ IsSealed(doc.graph)
  /\ InStep(doc.wrappers, doc.graph.slots) /\ ValidSlots(doc.graph.slots)
  /\ \A r \in RecordsOf(doc) : r.id[1] \in Clients /\ r.id[2] \in -MaxEntries..0
  /\ \A r, s \in RecordsOf(doc) : r.id = s.id => r.imm = s.imm

(* The first passwords differ, from each other and from the recovery. *)
LEMMA SoleIsKnown ==
  /\ Sole(Owner) \in Passwords[Owner] /\ Sole(Guest) \in Passwords[Guest]
  /\ Sole(Owner) # Sole(Guest)
  /\ Recovery \notin {Sole(Owner), Sole(Guest)}
<1>1. Sole(Owner) \in Passwords[Owner] /\ Sole(Guest) \in Passwords[Guest]
  BY MembersDiffer DEF Sole
<1>2. /\ Passwords[Owner] \cap Passwords[Guest] = {}
      /\ Recovery \notin Passwords[Owner] /\ Recovery \notin Passwords[Guest]
  BY MembersDiffer
<1>. QED BY <1>1, <1>2

(* The owner's slot and wrapper, those of the recovery, and the guest's. *)
OwnerSlot == Slot(Owner, "owner", Rights, FALSE)
RecoverySlot == Slot(Recovery, "recovery", Rights, FALSE)
GuestSlot(mustChange) == Slot(Guest, "ordinary", Rights, mustChange)
OwnerWrapper == Wrapper(Sole(Owner), Owner, FALSE)
RecoveryWrapper == Wrapper(Recovery, Recovery, FALSE)

(* The first slots and wrappers are slots and wrappers. *)
LEMMA FirstSlots ==
  /\ OwnerSlot \in Slots /\ RecoverySlot \in Slots
  /\ \A b \in BOOLEAN : GuestSlot(b) \in Slots
  /\ OwnerWrapper \in Wrappers /\ RecoveryWrapper \in Wrappers
BY SoleIsKnown DEF OwnerSlot, RecoverySlot, GuestSlot, OwnerWrapper, RecoveryWrapper,
  Slot, Wrapper, Slots, Wrappers, Clients

(* What a document as it is created consists of. *)
IsCreated(doc) ==
  \/ doc.wrappers = <<OwnerWrapper>> /\ doc.graph.slots = <<OwnerSlot>>
  \/ /\ doc.wrappers = <<OwnerWrapper, RecoveryWrapper>>
     /\ doc.graph.slots = <<OwnerSlot, RecoverySlot>>

(* Two elements, one after the other. *)
LEMMA PairIs ==
  ASSUME NEW a, NEW b
  PROVE  /\ <<a>> \o <<b>> = <<a, b>>
         /\ DOMAIN <<a, b>> = 1 .. 2 /\ <<a, b>>[1] = a /\ <<a, b>>[2] = b
<1>. DEFINE s == <<a>> \o <<b>>
            t == <<a, b>>
            V == {a, b}
<1>1. t \in Seq(V) /\ Len(t) = 2 /\ t[1] = a /\ t[2] = b
  OBVIOUS
<1>2. DOMAIN t = 1 .. 2
  BY <1>1
<1>3. s \in Seq(V) /\ Len(s) = 2
  OBVIOUS
<1>4. s[1] = a
  OBVIOUS
<1>5. s[2] = b
  <2>1. /\ <<a>> \in Seq(V) /\ <<b>> \in Seq(V)
        /\ Len(<<a>>) = 1 /\ Len(<<b>>) = 1 /\ <<b>>[1] = b
    OBVIOUS
  <2>. QED BY <2>1
<1>. HIDE DEF s, t
<1>6. \A i \in 1 .. 2 : s[i] = t[i]
  BY <1>1, <1>4, <1>5
<1>7. s = t
  BY <1>1, <1>3, <1>6
<1>. QED BY <1>1, <1>2, <1>7 DEF s, t

(* A document is created with one record, and its members. *)
LEMMA CreatedIs ==
  ASSUME NEW recovery \in {None, Recovery}
  PROVE  LET doc == Create(Owner, Sole(Owner), Recovery, recovery, Owner, <<Owner, 0>>,
                           Initial)
         IN /\ doc \in [wrappers: {doc.wrappers}, graph: {doc.graph}]
            /\ IsCreated(doc) /\ IsSealed(doc.graph)
            /\ \E r : r.id = <<Owner, 0>> /\ RecordsOf(doc) = {r}
<1>. DEFINE doc == Create(Owner, Sole(Owner), Recovery, recovery, Owner, <<Owner, 0>>,
                          Initial)
            wrappers == <<OwnerWrapper>>
              \o (IF recovery = None THEN <<>>
                  ELSE <<Wrapper(recovery, Recovery, FALSE)>>)
            role(i) == IF i = 1 THEN "owner" ELSE "recovery"
            slots == [i \in DOMAIN wrappers |->
                        Slot(wrappers[i].slot, role(i), Rights, FALSE)]
            imm == Immutable("baseline", None, None, {}, Owner, Initial, Initial, None)
            r == Record(<<Owner, 0>>, "full", Initial, imm)
            graph == Baseline(slots, Owner, <<Owner, 0>>, Initial)
<1>1. doc = [wrappers |-> wrappers, graph |-> graph]
  BY DEF Create, OwnerWrapper
<1>2. graph = [slots |-> slots, head |-> <<Owner, 0>>, contentHead |-> <<Owner, 0>>,
               records |-> <<r>>]
  BY DEF Baseline
<1>3. \/ wrappers = <<OwnerWrapper>> /\ slots = <<OwnerSlot>>
      \/ /\ wrappers = <<OwnerWrapper, RecoveryWrapper>>
         /\ slots = <<OwnerSlot, RecoverySlot>>
  <2>1. OwnerWrapper.slot = Owner /\ RecoveryWrapper.slot = Recovery
    BY DEF OwnerWrapper, RecoveryWrapper, Wrapper
  <2>2. CASE recovery = None
    <3>1. wrappers = <<OwnerWrapper>>
      BY <2>2
    <3>2. slots = <<OwnerSlot>>
      <4>1. DOMAIN wrappers = 1 .. 1 /\ wrappers[1] = OwnerWrapper
        BY <3>1
      <4>. HIDE DEF wrappers
      <4>2. DOMAIN slots = 1 .. 1 /\ slots[1] = OwnerSlot
        <5>1. \A i \in 1 .. 1 : slots[i] = Slot(wrappers[i].slot, role(i), Rights, FALSE)
          BY <4>1
        <5>2. role(1) = "owner" /\ DOMAIN slots = 1 .. 1
          BY <4>1
        <5>. HIDE DEF slots, role
        <5>. QED BY <2>1, <4>1, <5>1, <5>2 DEF OwnerSlot, Slot
      <4>3. slots = [i \in 1 .. 1 |-> slots[i]]
        BY <4>1, <4>2
      <4>. HIDE DEF slots
      <4>. QED BY <4>2, <4>3
    <3>. QED BY <3>1, <3>2
  <2>3. CASE recovery # None
    <3>0. /\ <<OwnerWrapper>> \o <<RecoveryWrapper>> = <<OwnerWrapper, RecoveryWrapper>>
          /\ DOMAIN <<OwnerWrapper, RecoveryWrapper>> = 1 .. 2
          /\ <<OwnerWrapper, RecoveryWrapper>>[1] = OwnerWrapper
          /\ <<OwnerWrapper, RecoveryWrapper>>[2] = RecoveryWrapper
      BY PairIs
    <3>1. wrappers = <<OwnerWrapper, RecoveryWrapper>>
      <4>1. Wrapper(recovery, Recovery, FALSE) = RecoveryWrapper
        BY <2>3 DEF RecoveryWrapper
      <4>2. wrappers = <<OwnerWrapper>> \o <<RecoveryWrapper>>
        BY <2>3, <4>1
      <4>. QED BY <4>2, <3>0
    <3>2. slots = <<OwnerSlot, RecoverySlot>>
      <4>1. /\ DOMAIN wrappers = 1 .. 2
            /\ wrappers[1] = OwnerWrapper /\ wrappers[2] = RecoveryWrapper
        BY <3>0, <3>1, Zenon
      <4>. HIDE DEF wrappers
      <4>2. DOMAIN slots = 1 .. 2 /\ slots[1] = OwnerSlot /\ slots[2] = RecoverySlot
        <5>1. \A i \in 1 .. 2 : slots[i] = Slot(wrappers[i].slot, role(i), Rights, FALSE)
          BY <4>1
        <5>2. role(1) = "owner" /\ role(2) = "recovery" /\ DOMAIN slots = 1 .. 2
          BY <4>1
        <5>. HIDE DEF slots, role
        <5>. QED BY <2>1, <4>1, <5>1, <5>2 DEF OwnerSlot, RecoverySlot, Slot
      <4>3. slots = [i \in 1 .. 2 |-> slots[i]]
        BY <4>1, <4>2
      <4>. HIDE DEF slots
      <4>. QED BY <4>2, <4>3
    <3>. QED BY <3>1, <3>2
  <2>. QED BY <2>2, <2>3
<1>. HIDE DEF wrappers, slots, imm
<1>4. IsRecord(r) /\ r.id = <<Owner, 0>> /\ ~r.provisional
  BY RecordIsRecord
<1>. HIDE DEF r, graph
<1>5. IsGraph(graph) /\ graph.records = <<r>> /\ graph.slots = slots
  BY <1>2 DEF IsGraph
<1>6. ToSet(<<r>>) = {r} /\ <<r>> \in Seq({r}) /\ <<r>> # <<>> /\ Len(<<r>>) = 1
      /\ <<r>>[1] = r
  BY DEF ToSet
<1>7. IsSealed(graph)
  BY <1>4, <1>5, <1>6 DEF IsSealed
<1>8. /\ doc \in [wrappers: {doc.wrappers}, graph: {doc.graph}]
      /\ doc.wrappers = wrappers /\ doc.graph = graph
  BY <1>1
<1>. HIDE DEF doc
<1>9. IsCreated(doc)
  BY <1>3, <1>5, <1>8 DEF IsCreated
<1>10. RecordsOf(doc) = {r}
  BY <1>5, <1>6, <1>8 DEF RecordsOf
<1>. QED BY <1>4, <1>7, <1>8, <1>9, <1>10 DEF doc

(* The members of a document as it is created, and once a guest is invited. *)
LEMMA CreatedInStep ==
  ASSUME NEW doc, IsCreated(doc)
  PROVE  /\ InStep(doc.wrappers, doc.graph.slots) /\ ValidSlots(doc.graph.slots)
         /\ SealsNone(Sole(Guest), doc.wrappers)
<1>1. /\ OwnerWrapper.password = Sole(Owner) /\ OwnerWrapper.slot = Owner
      /\ ~OwnerWrapper.mustChange
      /\ RecoveryWrapper.password = Recovery /\ RecoveryWrapper.slot = Recovery
      /\ ~RecoveryWrapper.mustChange
      /\ OwnerSlot.id = Owner /\ OwnerSlot.role = "owner"
      /\ OwnerSlot.rights = Rights /\ ~OwnerSlot.mustChange
      /\ RecoverySlot.id = Recovery /\ RecoverySlot.role = "recovery"
      /\ RecoverySlot.rights = Rights /\ ~RecoverySlot.mustChange
  BY DEF OwnerSlot, RecoverySlot, OwnerWrapper, RecoveryWrapper, Slot, Wrapper
<1>2. Owner # Recovery /\ Sole(Owner) # Recovery
      /\ Sole(Guest) # Recovery /\ Sole(Guest) # Sole(Owner)
  BY SoleIsKnown, MembersDiffer
<1>3. CASE doc.wrappers = <<OwnerWrapper>> /\ doc.graph.slots = <<OwnerSlot>>
  BY <1>1, <1>2, <1>3, FirstSlots DEF InStep, ValidSlots, SealsNone
<1>4. CASE /\ doc.wrappers = <<OwnerWrapper, RecoveryWrapper>>
           /\ doc.graph.slots = <<OwnerSlot, RecoverySlot>>
  BY <1>1, <1>2, <1>4, FirstSlots DEF InStep, ValidSlots, SealsNone
<1>. QED BY <1>3, <1>4 DEF IsCreated

(* What changing the members of a first document makes of it. *)
LEMMA AmendedIs ==
  ASSUME NEW doc, IsSealed(doc.graph), NEW change, NEW who, NEW id
  PROVE  LET after == Amend(doc, change, who, id)
         IN /\ after \in [wrappers: {after.wrappers}, graph: {after.graph}]
            /\ after.wrappers = Resealing(doc, change, Sole(Guest))
            /\ after.graph.slots = change.slots /\ IsSealed(after.graph)
            /\ \E r : r.id = id /\ RecordsOf(after) = RecordsOf(doc) \cup {r}
<1>. DEFINE after == Amend(doc, change, who, id)
            graph == AppendEvent(doc.graph, change.slots, who, id, change.event)
<1>1. /\ IsSealed(graph) /\ graph.slots = change.slots
      /\ \E r : r.id = id /\ ToSet(graph.records) = ToSet(doc.graph.records) \cup {r}
  BY EventAppended
<1>. HIDE DEF graph
<1>2. after = [wrappers |-> Resealing(doc, change, Sole(Guest)), graph |-> graph]
  BY DEF Amend, ReplaceSlots, graph
<1>3. /\ after \in [wrappers: {after.wrappers}, graph: {after.graph}]
      /\ after.wrappers = Resealing(doc, change, Sole(Guest)) /\ after.graph = graph
  BY <1>2
<1>. HIDE DEF after
<1>. QED BY <1>1, <1>3 DEF after, RecordsOf

(* The guest's slot goes second, and claiming it changes no other. *)
LEMMA InvitedSlots ==
  ASSUME NEW doc, IsCreated(doc)
  PROVE  LET slots == doc.graph.slots
             change == Invite(slots, Guest, Rights)
         IN /\ change.index = 2 /\ change.mode = "insert"
            /\ 2 \in 1 .. Len(slots) + 1
            /\ change.slots = InsertAt(slots, 2, GuestSlot(TRUE))
            /\ change.slots[2] = GuestSlot(TRUE)
            /\ ValidSlots(change.slots)
<1>. DEFINE slots == doc.graph.slots
            change == Invite(slots, Guest, Rights)
            slot == GuestSlot(TRUE)
            others == InsertAt(slots, 2, slot)
<1>1. /\ OwnerSlot.id = Owner /\ OwnerSlot.role = "owner"
      /\ OwnerSlot.rights = Rights /\ ~OwnerSlot.mustChange
      /\ RecoverySlot.id = Recovery /\ RecoverySlot.role = "recovery"
      /\ RecoverySlot.rights = Rights /\ ~RecoverySlot.mustChange
      /\ slot.id = Guest /\ slot.role = "ordinary"
  BY DEF OwnerSlot, RecoverySlot, GuestSlot, Slot
<1>2. Owner # Recovery /\ Guest # Recovery /\ Owner # Guest
  BY MembersDiffer
<1>3. OwnerSlot \in Slots /\ RecoverySlot \in Slots /\ slot \in Slots
  BY FirstSlots
<1>4. \/ slots = <<OwnerSlot>>
      \/ slots = <<OwnerSlot, RecoverySlot>>
  BY DEF IsCreated
<1>5. /\ slots \in Seq(Slots) /\ slots[1] = OwnerSlot
      /\ \/ Len(slots) = 1
         \/ Len(slots) = 2 /\ slots[2] = RecoverySlot
  <2>1. CASE slots = <<OwnerSlot>>
    <3>. HIDE DEF slots
    <3>. QED BY <1>3, <2>1
  <2>2. CASE slots = <<OwnerSlot, RecoverySlot>>
    <3>. HIDE DEF slots
    <3>. QED BY <1>3, <2>2
  <2>. QED BY <1>4, <2>1, <2>2
<1>. HIDE DEF slots, slot
<1>6. (IF Last(slots).role = "recovery" THEN Len(slots) ELSE Len(slots) + 1) = 2
  BY <1>1, <1>5 DEF Last
<1>7. change = Change("insert", 2, others, Guest, "invitation-created")
  BY <1>6 DEF Invite, GuestSlot, slot
<1>8. change.index = 2 /\ change.mode = "insert" /\ change.slots = others
  BY <1>7 DEF Change
<1>. HIDE DEF change
<1>9. 2 \in 1 .. Len(slots) + 1
  BY <1>5
<1>10. /\ others \in Seq(Slots) /\ Len(others) = Len(slots) + 1
       /\ \A k \in 1 .. Len(slots) + 1 :
            others[k] = IF k < 2 THEN slots[k] ELSE IF k = 2 THEN slot ELSE slots[k - 1]
  <2>. DEFINE V == Slots
              i == 2
  <2>1. slots \in Seq(V) /\ slot \in V /\ i \in 1 .. Len(slots) + 1
    BY <1>3, <1>5, <1>9
  <2>. HIDE DEF V, i
  <2>2. /\ InsertAt(slots, i, slot) \in Seq(V)
        /\ Len(InsertAt(slots, i, slot)) = Len(slots) + 1
        /\ \A k \in 1 .. Len(slots) + 1 :
             InsertAt(slots, i, slot)[k]
               = IF k < i THEN slots[k] ELSE IF k = i THEN slot ELSE slots[k - 1]
    BY <2>1, Inserted
  <2>. QED BY <2>2 DEF V, i
<1>. HIDE DEF others
<1>11. /\ Len(others) \in 2 .. 3 /\ others[1] = OwnerSlot /\ others[2] = slot
       /\ Len(others) = 3 => others[3] = RecoverySlot
  BY <1>5, <1>10
<1>12. ValidSlots(others)
  <2>1. DOMAIN others = 1 .. Len(others)
    BY <1>10
  <2>. QED BY <1>1, <1>2, <1>11, <2>1 DEF ValidSlots
<1>. QED BY <1>8, <1>9, <1>11, <1>12 DEF change, others, slot, slots

(* A claim leaves a list of members valid. *)
LEMMA ClaimedSlots ==
  ASSUME NEW slots \in Seq(Slots), ValidSlots(slots), 2 \in 1 .. Len(slots),
         slots[2] = GuestSlot(TRUE)
  PROVE  ValidSlots([slots EXCEPT ![2].mustChange = FALSE])
<1>. DEFINE others == [slots EXCEPT ![2].mustChange = FALSE]
            claimed == [GuestSlot(TRUE) EXCEPT !.mustChange = FALSE]
<1>1. /\ claimed.id = slots[2].id /\ claimed.role = "ordinary"
      /\ slots[2].role = "ordinary"
  BY DEF GuestSlot, Slot
<1>2. /\ Len(others) = Len(slots) /\ DOMAIN others = 1 .. Len(slots)
      /\ DOMAIN slots = 1 .. Len(slots)
      /\ \A k \in 1 .. Len(slots) : others[k] = IF k = 2 THEN claimed ELSE slots[k]
  <2>. HIDE DEF GuestSlot
  <2>. QED OBVIOUS
<1>. HIDE DEF others, claimed
<1>3. \A k \in 1 .. Len(slots) :
        /\ others[k].id = slots[k].id /\ others[k].role = slots[k].role
        /\ slots[k].role # "ordinary" => others[k] = slots[k]
  BY <1>1, <1>2
<1>4. Len(others) \in 1 .. 9
  BY <1>2 DEF ValidSlots
<1>5. \A i, j \in DOMAIN others : others[i].id = others[j].id => i = j
  BY <1>2, <1>3 DEF ValidSlots
<1>6. \A i \in DOMAIN others :
        /\ (i = 1) = (others[i].role = "owner")
        /\ others[i].role = "recovery" => i = Len(others)
        /\ others[i].role # "ordinary" =>
             others[i].rights = Rights /\ ~others[i].mustChange
  BY <1>2, <1>3 DEF ValidSlots
<1>. QED BY <1>4, <1>5, <1>6 DEF ValidSlots, others

(* The document a guest shares, with three records. *)
LEMMA SharedIs ==
  /\ Shared \in [wrappers: {Shared.wrappers}, graph: {Shared.graph}]
  /\ IsSealed(Shared.graph)
  /\ InStep(Shared.wrappers, Shared.graph.slots) /\ ValidSlots(Shared.graph.slots)
  /\ \E r, s, t : /\ r.id = <<Owner, 0>> /\ s.id = <<Owner, -1>> /\ t.id = <<Guest, 0>>
                  /\ RecordsOf(Shared) = {r, s, t}
<1>. DEFINE created == Create(Owner, Sole(Owner), Recovery, Recovery, Owner, <<Owner, 0>>,
                              Initial)
            invite == Invite(created.graph.slots, Guest, Rights)
            invited == Amend(created, invite, Owner, <<Owner, -1>>)
            claim == Claim(invited.graph.slots, invited.graph.slots[2])
            p == Sole(Guest)
<1>1. Shared = Amend(invited, claim, Guest, <<Guest, 0>>)
  BY DEF Shared
<1>2. /\ IsCreated(created) /\ IsSealed(created.graph)
      /\ \E r : r.id = <<Owner, 0>> /\ RecordsOf(created) = {r}
  BY CreatedIs
<1>. HIDE DEF created
<1>3. /\ InStep(created.wrappers, created.graph.slots) /\ ValidSlots(created.graph.slots)
      /\ SealsNone(p, created.wrappers)
  BY <1>2, CreatedInStep
<1>4. p \in Passwords[Guest] /\ Guest \in Clients
  BY SoleIsKnown DEF Clients
<1>5. /\ invite.index = 2 /\ invite.mode = "insert"
      /\ 2 \in 1 .. Len(created.graph.slots) + 1
      /\ invite.slots = InsertAt(created.graph.slots, 2, GuestSlot(TRUE))
      /\ invite.slots[2] = GuestSlot(TRUE) /\ ValidSlots(invite.slots)
  BY <1>2, InvitedSlots
<1>. HIDE DEF p
<1>6. InStep(Resealing(created, invite, p), invite.slots)
  <2>1. Rights \in SUBSET Rights
    OBVIOUS
  <2>. QED BY <1>3, <1>4, <2>1, InviteInStep
<1>. HIDE DEF invite
<1>7. /\ invited.wrappers = Resealing(created, invite, p)
      /\ invited.graph.slots = invite.slots /\ IsSealed(invited.graph)
      /\ \E r : r.id = <<Owner, -1>> /\ RecordsOf(invited) = RecordsOf(created) \cup {r}
  BY <1>2, AmendedIs DEF p
<1>. HIDE DEF invited
<1>8. /\ InStep(invited.wrappers, invited.graph.slots) /\ ValidSlots(invited.graph.slots)
      /\ invited.graph.slots \in Seq(Slots) /\ invited.graph.slots[2] = GuestSlot(TRUE)
      /\ Len(invited.wrappers) = Len(invited.graph.slots)
  BY <1>5, <1>6, <1>7 DEF InStep
<1>9. /\ 2 \in 1 .. Len(invited.graph.slots)
      /\ invited.wrappers[2].password = p
  <2>. DEFINE fresh == Wrapper(p, Guest, TRUE)
  <2>1. fresh \in Wrappers /\ fresh.password = p
    BY <1>4, MembersTyped DEF Wrapper
  <2>2. GuestSlot(TRUE).id = Guest /\ GuestSlot(TRUE).mustChange = TRUE
    BY DEF GuestSlot, Slot
  <2>. HIDE DEF fresh
  <2>3. invited.wrappers = InsertAt(created.wrappers, 2, fresh)
    BY <1>5, <1>7, <2>2 DEF Resealing, fresh
  <2>4. /\ created.wrappers \in Seq(Wrappers)
        /\ Len(created.wrappers) = Len(created.graph.slots)
    BY <1>3 DEF InStep
  <2>. DEFINE V == Wrappers
              i == 2
              n == Len(created.wrappers)
  <2>5. created.wrappers \in Seq(V) /\ fresh \in V /\ i \in 1 .. Len(created.wrappers) + 1
    BY <1>5, <2>1, <2>4
  <2>. HIDE DEF V, i
  <2>6. /\ InsertAt(created.wrappers, i, fresh)[i] = fresh
        /\ Len(InsertAt(created.wrappers, i, fresh)) = Len(created.wrappers) + 1
    BY <2>5, Inserted, InsertedItself
  <2>7. /\ invited.wrappers[2] = fresh
        /\ Len(invited.wrappers) = n + 1 /\ 2 \in 1 .. n + 1
    BY <1>5, <2>3, <2>4, <2>6 DEF i
  <2>. HIDE DEF n
  <2>. QED BY <1>8, <2>1, <2>7
<1>10. SealsNoOther(p, 2, invited.wrappers)
  BY <1>8, <1>9 DEF InStep, SealsNoOther
<1>11. /\ InStep(Resealing(invited, claim, p), claim.slots)
       /\ claim.slots = [invited.graph.slots EXCEPT ![2].mustChange = FALSE]
  <2>. DEFINE i == 2
  <2>1. i \in 1 .. Len(invited.graph.slots) /\ SealsNoOther(p, i, invited.wrappers)
    BY <1>9, <1>10
  <2>. HIDE DEF i
  <2>2. LET change == Claim(invited.graph.slots, invited.graph.slots[i])
        IN /\ InStep(Resealing(invited, change, p), change.slots)
           /\ change.slots = [invited.graph.slots EXCEPT ![i].mustChange = FALSE]
    BY <1>4, <1>8, <2>1, ClaimInStep
  <2>. QED BY <2>2 DEF i
<1>12. ValidSlots(claim.slots)
  BY <1>8, <1>9, <1>11, ClaimedSlots
<1>. HIDE DEF claim
<1>13. /\ Shared \in [wrappers: {Shared.wrappers}, graph: {Shared.graph}]
       /\ Shared.wrappers = Resealing(invited, claim, p)
       /\ Shared.graph.slots = claim.slots /\ IsSealed(Shared.graph)
       /\ \E r : r.id = <<Guest, 0>> /\ RecordsOf(Shared) = RecordsOf(invited) \cup {r}
  BY <1>1, <1>7, AmendedIs DEF p
<1>14. \E r, s, t : /\ r.id = <<Owner, 0>> /\ s.id = <<Owner, -1>>
                    /\ t.id = <<Guest, 0>> /\ RecordsOf(Shared) = {r, s, t}
  <2>1. PICK r : r.id = <<Owner, 0>> /\ RecordsOf(created) = {r}
    BY <1>2
  <2>2. PICK s : s.id = <<Owner, -1>> /\ RecordsOf(invited) = RecordsOf(created) \cup {s}
    BY <1>7
  <2>3. PICK t : t.id = <<Guest, 0>> /\ RecordsOf(Shared) = RecordsOf(invited) \cup {t}
    BY <1>13
  <2>4. RecordsOf(Shared) = {r, s, t}
    BY <2>1, <2>2, <2>3
  <2>. QED BY <2>1, <2>2, <2>3, <2>4
<1>. QED BY <1>11, <1>12, <1>13, <1>14

(* The document as it is created, ... *)
LEMMA FreshIsFirst == IsFirst(Fresh)
<1>1. /\ Fresh \in [wrappers: {Fresh.wrappers}, graph: {Fresh.graph}]
      /\ IsCreated(Fresh) /\ IsSealed(Fresh.graph)
      /\ \E r : r.id = <<Owner, 0>> /\ RecordsOf(Fresh) = {r}
  BY CreatedIs DEF Fresh
<1>2. InStep(Fresh.wrappers, Fresh.graph.slots) /\ ValidSlots(Fresh.graph.slots)
  BY <1>1, CreatedInStep
<1>3. PICK r : r.id = <<Owner, 0>> /\ RecordsOf(Fresh) = {r}
  BY <1>1
<1>4. r.id[1] \in Clients /\ r.id[2] \in -MaxEntries..0
  BY <1>3, BoundsAreNaturals DEF Clients
<1>. QED BY <1>1, <1>2, <1>3, <1>4 DEF IsFirst

(* ... and the one shared with a guest. *)
LEMMA SharedIsFirst == IsFirst(Shared)
<1>1. PICK r, s, t : /\ r.id = <<Owner, 0>> /\ s.id = <<Owner, -1>>
                     /\ t.id = <<Guest, 0>> /\ RecordsOf(Shared) = {r, s, t}
  BY SharedIs
<1>2. \A q \in {r, s, t} : q.id[1] \in Clients /\ q.id[2] \in -MaxEntries..0
  BY <1>1, BoundsAreNaturals DEF Clients
<1>3. r.id # s.id /\ r.id # t.id /\ s.id # t.id
  BY <1>1, MembersDiffer
<1>. QED BY <1>1, <1>2, <1>3, SharedIs DEF IsFirst

(* The long document has the shared one's records, and more of them. *)
LEMMA LongIsFirst == IsFirst(Long)
<1>. DEFINE before == Shared.graph
            count == MaxEntries - 1 - Len(before.records)
            id(n) == IF n = 0 THEN before.head ELSE <<Owner, -1 - n>>
            imm(n) == Immutable("event", id(n - 1), None, {}, Owner, Initial, None,
                                [type |-> "identity-reconciled", slot |-> Owner])
            reconciled(n) == Record(id(n), "event", None, imm(n))
            tail == [n \in 1 .. count |-> reconciled(n)]
            head == id(count)
            records == before.records \o tail
<1>1. Long = [Shared EXCEPT !.graph.head = head, !.graph.records = @ \o tail]
  BY DEF Long
<1>. HIDE DEF head
<1>2. /\ before.records \in Seq(ToSet(before.records)) /\ before.records # <<>>
      /\ \A r \in ToSet(before.records) : IsRecord(r) /\ ~r.provisional
      /\ IsGraph(before)
      /\ Shared \in [wrappers: {Shared.wrappers}, graph: {Shared.graph}]
  <2>1. /\ before.records \in Seq(ToSet(before.records)) /\ before.records # <<>>
        /\ \A i \in 1 .. Len(before.records) :
             IsRecord(before.records[i]) /\ ~before.records[i].provisional
        /\ IsGraph(before)
    BY SharedIs DEF IsSealed
  <2>2. ASSUME NEW r \in ToSet(before.records) PROVE IsRecord(r) /\ ~r.provisional
    <3>1. PICK i \in 1 .. Len(before.records) : r = before.records[i]
      BY <2>1, LastOfRecords
    <3>. QED BY <2>1, <3>1
  <2>. QED BY <2>1, <2>2, SharedIs
<1>3. count \in Int /\ count <= MaxEntries - 2 /\ MaxEntries \in Nat
  <2>1. Len(before.records) \in Nat \ {0}
    BY <1>2, LastOfRecords
  <2>. DEFINE n == Len(before.records)
  <2>. HIDE DEF n
  <2>. QED BY <2>1, BoundsAreNaturals DEF n
<1>. HIDE DEF count, imm
<1>4. \A n \in 1 .. count : id(n) = <<Owner, -1 - n>>
  BY <1>3
<1>. HIDE DEF id
<1>5. \A n \in 1 .. count :
        /\ IsRecord(reconciled(n)) /\ ~reconciled(n).provisional
        /\ reconciled(n).id = <<Owner, -1 - n>> /\ reconciled(n).imm = imm(n)
  BY <1>4, RecordIsRecord
<1>. HIDE DEF reconciled
<1>6. /\ tail \in Seq({reconciled(n) : n \in 1 .. count})
      /\ ToSet(tail) = {reconciled(n) : n \in 1 .. count}
  <2>1. DOMAIN tail = 1 .. count /\ \A n \in 1 .. count : tail[n] = reconciled(n)
    OBVIOUS
  <2>2. ToSet(tail) = {reconciled(n) : n \in 1 .. count}
    <3>. HIDE DEF tail
    <3>. QED BY <2>1 DEF ToSet
  <2>3. CASE count \in Nat
    BY <2>2, <2>3
  <2>4. CASE count \notin Nat
    <3>1. 1 .. count = {}
      BY <1>3, <2>4
    <3>2. tail = <<>>
      BY <3>1
    <3>3. <<>> \in Seq({reconciled(n) : n \in 1 .. count})
      OBVIOUS
    <3>. HIDE DEF tail
    <3>. QED BY <2>2, <3>2, <3>3
  <2>. QED BY <2>3, <2>4
<1>. HIDE DEF tail
<1>7. /\ records \in Seq(ToSet(records)) /\ records # <<>>
      /\ ToSet(records) = ToSet(before.records) \cup {reconciled(n) : n \in 1 .. count}
  <2>. DEFINE V == ToSet(before.records)
              W == {reconciled(n) : n \in 1 .. count}
              s == before.records
  <2>1. s \in Seq(V) /\ tail \in Seq(W) /\ s # <<>>
    BY <1>2, <1>6
  <2>. HIDE DEF V, W, s
  <2>2. /\ s \o tail \in Seq(ToSet(s \o tail)) /\ s \o tail # <<>>
        /\ ToSet(s \o tail) = ToSet(s) \cup ToSet(tail)
    BY <2>1, Joined
  <2>. QED BY <1>6, <2>2 DEF s
<1>8. \A r \in ToSet(records) : IsRecord(r) /\ ~r.provisional
  BY <1>2, <1>5, <1>7
<1>9. /\ Long \in [wrappers: {Long.wrappers}, graph: {Long.graph}]
      /\ IsGraph(Long.graph)
      /\ Long.wrappers = Shared.wrappers /\ Long.graph.slots = Shared.graph.slots
      /\ Long.graph.records = records
  BY <1>1, <1>2 DEF IsGraph
<1>. HIDE DEF records
<1>10. IsSealed(Long.graph)
  <2>1. \A i \in 1 .. Len(records) : records[i] \in ToSet(records)
    BY <1>7
  <2>. QED BY <1>7, <1>8, <1>9, <2>1 DEF IsSealed
<1>11. IsFirst(Shared)
  BY SharedIsFirst
<1>12. \A r \in ToSet(before.records) :
         r.id[1] \in Clients /\ r.id[2] \in -MaxEntries..0 /\ r.id[2] >= -1
  <2>1. PICK r, s, t : /\ r.id = <<Owner, 0>> /\ s.id = <<Owner, -1>>
                       /\ t.id = <<Guest, 0>> /\ RecordsOf(Shared) = {r, s, t}
    BY SharedIs
  <2>. QED BY <2>1, <1>11 DEF IsFirst, RecordsOf
<1>13. \A n \in 1 .. count :
         /\ reconciled(n).id[1] \in Clients /\ reconciled(n).id[2] = -1 - n
         /\ reconciled(n).id[2] \in -MaxEntries..0 /\ reconciled(n).id[2] < -1
  BY <1>3, <1>5 DEF Clients
<1>14. \A r \in ToSet(records) : r.id[1] \in Clients /\ r.id[2] \in -MaxEntries..0
  BY <1>7, <1>12, <1>13
<1>15. ASSUME NEW r \in ToSet(records), NEW s \in ToSet(records), r.id = s.id
       PROVE  r.imm = s.imm
  <2>1. CASE r \in ToSet(before.records) /\ s \in ToSet(before.records)
    BY <1>11, <1>15, <2>1 DEF IsFirst, RecordsOf
  <2>2. CASE \E m, n \in 1 .. count : r = reconciled(m) /\ s = reconciled(n)
    BY <1>3, <1>13, <1>15, <2>2
  <2>3. CASE \/ r \in ToSet(before.records) /\ \E n \in 1 .. count : s = reconciled(n)
             \/ s \in ToSet(before.records) /\ \E n \in 1 .. count : r = reconciled(n)
    BY <1>12, <1>13, <1>15, <2>3
  <2>. QED BY <1>7, <2>1, <2>2, <2>3
<1>. QED BY <1>9, <1>10, <1>11, <1>14, <1>15 DEF IsFirst, RecordsOf

(* The initial documents satisfy the invariant. *)
LEMMA InitEstablishes == Init => IInv
<1>. SUFFICES ASSUME Init PROVE IInv
  OBVIOUS
<1>1. IsFirst(target) /\ target # None
  BY FreshIsFirst, SharedIsFirst, LongIsFirst, NoDocument DEF Init
<1>2. /\ held = [c \in Clients |-> None] /\ pending = [c \in Clients |-> None]
      /\ minted = [c \in Clients |-> 0] /\ refusal = None
  BY DEF Init
<1>3. Documents = {target}
  BY <1>1, <1>2 DEF Documents
<1>4. IsDocument(target)
  BY <1>1 DEF IsFirst, IsSealed, IsDocument, IsHistory
<1>5. DigestsName
  BY <1>1, <1>3 DEF IsFirst, DigestsName
<1>6. Replicas
  BY <1>1, <1>2 DEF Replicas
<1>7. TypeOK
  <2>1. minted \in [Clients -> 0 .. MaxMinted] /\ \A c \in Clients : minted[c] = 0
    BY <1>2, BoundsAreNaturals
  <2>2. ASSUME NEW id \in Ids(target.graph.records)
        PROVE  id[1] \in Clients /\ id[2] \in -MaxEntries..minted[id[1]]
    <3>1. PICK r \in RecordsOf(target) : r.id = id
      BY DEF RecordsOf, ToSet, Ids
    <3>. QED BY <1>1, <2>1, <3>1 DEF IsFirst
  <2>. QED BY <1>2, <1>3, <2>1, <2>2 DEF TypeOK
<1>. QED BY <1>3, <1>4, <1>5, <1>6, <1>7 DEF IInv

-----------------------------------------------------------------------------
(* The theorems *)

(* The invariant holds throughout, for all members, texts and limits. *)
THEOREM Invariance == Spec => []IInv
<1>1. Init => IInv
  BY InitEstablishes
<1>2. IInv /\ [Next]_vars => IInv'
  BY NextKeeps
<1>. QED BY <1>1, <1>2, PTL DEF Spec

(* The counters and results keep their types, no client has a candidate *)
(* without a replica, and every digest is one its author has minted.    *)
THEOREM TypeCorrect == Spec => []TypeOK
<1>1. IInv => TypeOK
  BY DEF IInv
<1>. QED BY <1>1, Invariance, PTL

(* Through every invitation, claim, password change, removal and merge, the *)
(* password of each wrapper opens the slot that stands at its place.        *)
THEOREM MembersStayOpen == Spec => []MembersOpen
<1>1. IInv => MembersOpen
  <2>. SUFFICES ASSUME IInv, NEW doc \in Documents
                PROVE  /\ Len(doc.graph.slots) = Len(doc.wrappers)
                       /\ \A i \in DOMAIN doc.wrappers :
                            /\ Admits(doc, doc.wrappers[i].password)
                            /\ Session(doc, doc.wrappers[i].password) = doc.graph.slots[i]
    BY DEF MembersOpen
  <2>1. InStep(doc.wrappers, doc.graph.slots) /\ ValidSlots(doc.graph.slots)
    BY DEF IInv, IsDocument
  <2>2. /\ DOMAIN doc.wrappers = 1 .. Len(doc.wrappers)
        /\ Len(doc.graph.slots) = Len(doc.wrappers)
    BY <2>1 DEF InStep
  <2>. QED BY <2>1, <2>2, InStepOpens
<1>. QED BY <1>1, Invariance, PTL

(* Whatever is published, no sealed record leaves the document or changes. *)
THEOREM SealedHistoryStays == Spec => SealedHistoryKept
<1>. DEFINE Stays ==
       \A r \in ToSet(target.graph.records) : ~r.provisional =>
         \E s \in ToSet(target'.graph.records) :
           s.id = r.id /\ s.imm = r.imm /\ ~s.provisional
<1>1. IInv /\ [Next]_vars => [Stays]_target
  <2>. SUFFICES ASSUME IInv, Next, target' # target PROVE Stays
    BY DEF vars
  <2>1. PICK c \in Clients : Publish(c)
    <3>. SUFFICES ASSUME NEW c \in Clients,
                         \/ Open(c) \/ Publish(c) \/ Abandon(c)
                         \/ Discard(c) \/ AdministerSlots(c)
                         \/ \E retain \in Retained : Compact(c, retain)
                         \/ \E text \in Texts :
                              \/ Reseal(c, text) \/ Merge(c, text)
                              \/ \E regular \in BOOLEAN : Save(c, text, regular)
                  PROVE  Publish(c)
      BY DEF Next
    <3>. HIDE DEF Stays
    <3>1. ~Open(c) /\ ~Abandon(c) /\ ~Discard(c)
      BY DEF Open, Abandon, Discard, Keep
    <3>2. ~AdministerSlots(c)
      <4>1. \A change, password, reopened : ~ChangeSlots(c, change, password, reopened)
        BY DEF ChangeSlots, Keep
      <4>. QED BY <4>1, Zenon DEF AdministerSlots
    <3>3. \A retain \in Retained : ~Compact(c, retain)
      BY DEF Compact, Keep
    <3>4. \A text \in Texts : ~Reseal(c, text) /\ ~Merge(c, text)
      BY DEF Reseal, Merge, Keep
    <3>5. \A text \in Texts, regular \in BOOLEAN : ~Save(c, text, regular)
      BY DEF Save, Keep
    <3>. QED BY <3>1, <3>2, <3>3, <3>4, <3>5
  <2>2. Continues(held[c], pending[c]) /\ target = held[c] /\ target' = pending[c]
    BY <2>1 DEF IInv, Replicas, Publish
  <2>. QED BY <2>2 DEF Continues, RecordsOf
<1>. QED BY <1>1, Invariance, PTL DEF Spec, SealedHistoryKept

=============================================================================
