------------------------ MODULE RevisionGraphProofs ------------------------
(***************************************************************************)
(* Facts about the operators of RevisionGraph and about sequences that the *)
(* proofs on document histories rest on.  The library's induction theorems *)
(* take an operator, so induction and recursion over numbers are derived   *)
(* here from the well-foundedness of <, for a set and for a step function. *)
(***************************************************************************)
EXTENDS RevisionGraph, SequenceTheorems, WellFoundedInduction, TLAPS

(* The order of the natural numbers, as a set of pairs. *)
Less == {p \in Nat \X Nat : p[1] < p[2]}

(* Induction over a set of numbers, from a least number outside of it. *)
LEMMA Induction ==
  ASSUME NEW S, 0 \in S, \A n \in Nat : n \in S => n + 1 \in S
  PROVE  Nat \subseteq S
<1>. DEFINE T == Nat \ S
<1>1. SUFFICES ASSUME T # {} PROVE FALSE
  OBVIOUS
<1>2. IsWellFoundedOn(Less, Nat)
  BY NatLessThanWellFounded DEF OpToRel, Less
<1>3. PICK x \in T : \A y \in T : ~ (<<y, x>> \in Less)
  <2>1. T \subseteq Nat
    OBVIOUS
  <2>2. \E x \in T : \A y \in T : ~ (<<y, x>> \in Less)
    BY <1>1, <1>2, <2>1, WFMin
  <2>. QED BY <2>2
<1>4. x # 0 /\ x - 1 \in Nat
  OBVIOUS
<1>5. x - 1 \in T
  BY <1>4
<1>6. <<x - 1, x>> \in Less
  BY <1>4 DEF Less
<1>. QED BY <1>3, <1>5, <1>6, Zenon

(* A value and a step define a sequence of values, and only one. *)
Follows(g, first, step, n) ==
  /\ g[0] = first
  /\ \A i \in 1 .. n : g[i] = step[<<i, g[i - 1]>>]

(* A first value and a step define a sequence of values. *)
LEMMA Recursion ==
  ASSUME NEW V, NEW N \in Nat, NEW first \in V,
         NEW step, \A i \in 1 .. N, v \in V : step[<<i, v>>] \in V
  PROVE  \E g \in [0 .. N -> V] : Follows(g, first, step, N)
<1>. DEFINE P == {n \in Nat : n <= N =>
                    \E g \in [0 .. n -> V] : Follows(g, first, step, n)}
<1>1. 0 \in P
  <2>1. /\ [i \in 0 .. 0 |-> first] \in [0 .. 0 -> V]
        /\ Follows([i \in 0 .. 0 |-> first], first, step, 0)
    BY DEF Follows
  <2>. QED BY <2>1
<1>2. ASSUME NEW n \in Nat, n \in P PROVE n + 1 \in P
  <2>. SUFFICES ASSUME n + 1 <= N
                PROVE  \E h \in [0 .. n + 1 -> V] : Follows(h, first, step, n + 1)
    OBVIOUS
  <2>1. PICK g \in [0 .. n -> V] : Follows(g, first, step, n)
    BY <1>2
  <2>2. /\ n + 1 \in 1 .. N /\ n \in 0 .. n /\ g[n] \in V
        /\ step[<<n + 1, g[n]>>] \in V
    BY <2>1
  <2>. DEFINE h == [i \in 0 .. n + 1 |->
                      IF i = n + 1 THEN step[<<n + 1, g[n]>>] ELSE g[i]]
  <2>3. h \in [0 .. n + 1 -> V]
    <3>1. \A i \in 0 .. n + 1 : i = n + 1 \/ i \in 0 .. n
      OBVIOUS
    <3>. QED BY <2>1, <2>2, <3>1
  <2>4. \A i \in 0 .. n : h[i] = g[i]
    OBVIOUS
  <2>5. h[n + 1] = step[<<n + 1, h[n]>>]
    <3>1. n + 1 \in 0 .. n + 1 /\ h[n] = g[n]
      BY <2>2, <2>4
    <3>. QED BY <3>1
  <2>6. ASSUME NEW i \in 1 .. n PROVE h[i] = step[<<i, h[i - 1]>>]
    <3>1. i \in 0 .. n /\ i - 1 \in 0 .. n
      OBVIOUS
    <3>2. h[i] = g[i] /\ h[i - 1] = g[i - 1]
      BY <2>4, <3>1
    <3>. QED BY <2>1, <3>2 DEF Follows
  <2>7. Follows(h, first, step, n + 1)
    <3>. HIDE DEF h
    <3>1. h[0] = first
      BY <2>1, <2>4 DEF Follows
    <3>2. \A i \in 1 .. n + 1 : i \in 1 .. n \/ i = n + 1
      OBVIOUS
    <3>. QED BY <2>5, <2>6, <3>1, <3>2 DEF Follows
  <2>. HIDE DEF h
  <2>. QED BY <2>3, <2>7
<1>3. Nat \subseteq P
  <2>. HIDE DEF P
  <2>. QED BY <1>1, <1>2, Induction
<1>. QED BY <1>3

(* The sequence is the only one. *)
LEMMA RecursionIsUnique ==
  ASSUME NEW N \in Nat, NEW first, NEW step, NEW f, NEW g,
         Follows(f, first, step, N), Follows(g, first, step, N)
  PROVE  \A n \in 0 .. N : f[n] = g[n]
<1>. DEFINE P == {n \in Nat : n <= N => f[n] = g[n]}
<1>1. 0 \in P
  BY DEF Follows
<1>2. ASSUME NEW n \in Nat, n \in P PROVE n + 1 \in P
  <2>. SUFFICES ASSUME n + 1 <= N PROVE f[n + 1] = g[n + 1]
    OBVIOUS
  <2>1. n + 1 \in 1 .. N /\ (n + 1) - 1 = n /\ f[n] = g[n]
    BY <1>2
  <2>. QED BY <2>1 DEF Follows
<1>3. Nat \subseteq P
  <2>. HIDE DEF P
  <2>. QED BY <1>1, <1>2, Induction
<1>. QED BY <1>3

(* Only is what its recursion says. *)
Gathers(kept, records, S) ==
  /\ kept \in [0 .. Len(records) -> Seq(ToSet(records) \cap S)]
  /\ kept[0] = <<>>
  /\ \A n \in 1 .. Len(records) :
       kept[n] = IF records[n] \in S THEN Append(kept[n - 1], records[n])
                 ELSE kept[n - 1]

(* Only gathers what is selected, one record after another. *)
LEMMA OnlyByRecursion ==
  ASSUME NEW records, records \in Seq(ToSet(records)), NEW S
  PROVE  \E kept : Gathers(kept, records, S) /\ Only(records, S) = kept[Len(records)]
<1>. DEFINE R == ToSet(records) \cap S
            N == Len(records)
            step == [p \in (1 .. N) \X Seq(R) |->
                       IF records[p[1]] \in S THEN Append(p[2], records[p[1]]) ELSE p[2]]
            Body(g) == [n \in 0 .. N |-> IF n = 0 THEN <<>>
                          ELSE IF records[n] \in S THEN Append(g[n - 1], records[n])
                          ELSE g[n - 1]]
<1>1. N \in Nat /\ \A n \in 1 .. N : records[n] \in ToSet(records)
  BY DEF ToSet
<1>2. \A n \in 1 .. N, v \in Seq(R) :
        /\ step[<<n, v>>] = IF records[n] \in S THEN Append(v, records[n]) ELSE v
        /\ step[<<n, v>>] \in Seq(R)
  BY <1>1
<1>3. PICK g \in [0 .. N -> Seq(R)] : Follows(g, <<>>, step, N)
  <2>1. <<>> \in Seq(R)
    OBVIOUS
  <2>. HIDE DEF step, R, N
  <2>. QED BY <1>1, <1>2, <2>1, Recursion
<1>4. /\ g[0] = <<>>
      /\ \A n \in 1 .. N :
           g[n] = IF records[n] \in S THEN Append(g[n - 1], records[n]) ELSE g[n - 1]
  <2>. HIDE DEF step, R, N
  <2>1. g[0] = <<>>
    BY <1>3 DEF Follows
  <2>2. ASSUME NEW n \in 1 .. N
        PROVE  g[n] = IF records[n] \in S THEN Append(g[n - 1], records[n]) ELSE g[n - 1]
    <3>1. n - 1 \in 0 .. N /\ g[n - 1] \in Seq(R)
      BY <1>1
    <3>2. g[n] = step[<<n, g[n - 1]>>]
      BY <1>3 DEF Follows
    <3>. QED BY <1>2, <3>1, <3>2
  <2>. QED BY <2>1, <2>2
<1>5. g = Body(g)
  <2>. HIDE DEF N, R
  <2>1. g = [n \in 0 .. N |-> g[n]]
    OBVIOUS
  <2>2. ASSUME NEW n \in 0 .. N PROVE g[n] = Body(g)[n]
    <3>1. n = 0 \/ n \in 1 .. N
      BY <1>1
    <3>. QED BY <1>4, <3>1
  <2>. QED BY <2>1, <2>2
<1>. DEFINE kept == CHOOSE f : f = Body(f)
<1>6. kept = Body(kept)
  <2>. HIDE DEF Body
  <2>. QED BY <1>5
<1>7. Only(records, S) = kept[N]
  BY DEF Only
<1>8. kept[0] = <<>> /\ \A n \in 1 .. N :
        kept[n] = IF records[n] \in S THEN Append(kept[n - 1], records[n])
                  ELSE kept[n - 1]
  <2>. HIDE DEF kept, N
  <2>1. ASSUME NEW n \in 0 .. N PROVE kept[n] = Body(kept)[n]
    BY <1>6, Zenon
  <2>2. 0 \in 0 .. N /\ \A n \in 1 .. N : n \in 0 .. N /\ n # 0
    BY <1>1
  <2>. QED BY <2>1, <2>2
<1>9. \A n \in 0 .. N : kept[n] \in Seq(R)
  <2>. HIDE DEF kept, R, step
  <2>. DEFINE P == {n \in Nat : n <= N => kept[n] \in Seq(R)}
  <2>1. 0 \in P
    <3>1. <<>> \in Seq(R)
      OBVIOUS
    <3>. QED BY <1>8, <3>1
  <2>2. ASSUME NEW n \in Nat, n \in P PROVE n + 1 \in P
    <3>. SUFFICES ASSUME n + 1 <= N PROVE kept[n + 1] \in Seq(R)
      OBVIOUS
    <3>1. n + 1 \in 1 .. N /\ kept[n] \in Seq(R) /\ (n + 1) - 1 = n
      BY <1>1, <2>2
    <3>2. kept[n + 1] = step[<<n + 1, kept[n]>>]
      BY <1>2, <1>8, <3>1
    <3>. QED BY <1>2, <3>1, <3>2
  <2>3. Nat \subseteq P
    <3>. HIDE DEF P
    <3>. QED BY <2>1, <2>2, Induction
  <2>. QED BY <1>1, <2>3
<1>10. kept \in [0 .. N -> Seq(R)]
  <2>. HIDE DEF kept, R, N
  <2>1. kept = [n \in 0 .. N |-> kept[n]]
    BY <1>6
  <2>. QED BY <1>9, <2>1
<1>. QED
  <2>. HIDE DEF kept
  <2>. QED BY <1>7, <1>8, <1>10 DEF Gathers

(* What Only selects stands in its order: each place comes from one before  *)
(* the next one's.                                                          *)
Selects(out, records, S, n, at) ==
  /\ at \in [1 .. Len(out) -> 1 .. n]
  /\ \A k \in 1 .. Len(out) : out[k] = records[at[k]] /\ records[at[k]] \in S
  /\ \A j, k \in 1 .. Len(out) : j < k => at[j] < at[k]
  /\ \A i \in 1 .. n : records[i] \in S => \E k \in 1 .. Len(out) : at[k] = i

(* Only keeps the selected records, each of them, in their order. *)
LEMMA OnlySelects ==
  ASSUME NEW records, records \in Seq(ToSet(records)), NEW S
  PROVE  /\ Only(records, S) \in Seq(ToSet(records) \cap S)
         /\ \E at : Selects(Only(records, S), records, S, Len(records), at)
<1>. DEFINE R == ToSet(records) \cap S
            N == Len(records)
<1>1. N \in Nat /\ \A n \in 1 .. N : records[n] \in ToSet(records)
  BY DEF ToSet
<1>. PICK kept : Gathers(kept, records, S) /\ Only(records, S) = kept[N]
  BY OnlyByRecursion
<1>2. /\ Only(records, S) = kept[N]
      /\ kept \in [0 .. N -> Seq(R)] /\ kept[0] = <<>>
      /\ \A n \in 1 .. N :
           kept[n] = IF records[n] \in S THEN Append(kept[n - 1], records[n])
                     ELSE kept[n - 1]
  BY DEF Gathers
<1>. DEFINE P == {n \in Nat : n <= N => \E at : Selects(kept[n], records, S, n, at)}
<1>3. 0 \in P
  <2>1. Selects(<<>>, records, S, 0, [k \in 1 .. 0 |-> 0])
    BY DEF Selects
  <2>. QED BY <1>2, <2>1
<1>4. ASSUME NEW n \in Nat, n \in P PROVE n + 1 \in P
  <2>. SUFFICES ASSUME n + 1 <= N
                PROVE  \E at : Selects(kept[n + 1], records, S, n + 1, at)
    OBVIOUS
  <2>. HIDE DEF R, N
  <2>1. /\ n + 1 \in 1 .. N /\ n \in 0 .. N /\ (n + 1) - 1 = n
        /\ kept[n] \in Seq(R)
    BY <1>1, <1>2
  <2>2. PICK at : Selects(kept[n], records, S, n, at)
    BY <1>4, <2>1
  <2>3. CASE records[n + 1] \notin S
    <3>1. kept[n + 1] = kept[n]
      BY <1>2, <2>1, <2>3
    <3>2. at \in [1 .. Len(kept[n]) -> 1 .. n + 1]
      BY <2>2 DEF Selects
    <3>3. \A i \in 1 .. n + 1 : i \in 1 .. n \/ i = n + 1
      OBVIOUS
    <3>4. Selects(kept[n], records, S, n + 1, at)
      BY <2>2, <2>3, <3>2, <3>3 DEF Selects
    <3>. QED BY <3>1, <3>4
  <2>4. CASE records[n + 1] \in S
    <3>. DEFINE len == Len(kept[n])
                to == [k \in 1 .. len + 1 |-> IF k = len + 1 THEN n + 1 ELSE at[k]]
    <3>1. kept[n + 1] = Append(kept[n], records[n + 1])
      BY <1>2, <2>1, <2>4
    <3>2. records[n + 1] \in R
      BY <1>1, <2>1, <2>4 DEF R
    <3>3. /\ len \in Nat /\ Len(kept[n + 1]) = len + 1
          /\ kept[n + 1][len + 1] = records[n + 1]
          /\ \A k \in 1 .. len : kept[n + 1][k] = kept[n][k]
      BY <2>1, <3>1, <3>2
    <3>. HIDE DEF len
    <3>4. at \in [1 .. len -> 1 .. n]
      BY <2>2 DEF Selects, len
    <3>5. \A k \in 1 .. len + 1 : k = len + 1 \/ k \in 1 .. len
      BY <3>3
    <3>6. to \in [1 .. len + 1 -> 1 .. n + 1]
      <4>1. \A k \in 1 .. len : at[k] \in 1 .. n + 1
        BY <3>4
      <4>. QED BY <3>5, <4>1
    <3>7. to[len + 1] = n + 1 /\ \A k \in 1 .. len : to[k] = at[k]
      BY <3>3
    <3>. HIDE DEF to
    <3>8. \A k \in 1 .. len + 1 :
            kept[n + 1][k] = records[to[k]] /\ records[to[k]] \in S
      BY <2>2, <2>4, <3>3, <3>5, <3>7 DEF Selects, len
    <3>9. \A j, k \in 1 .. len + 1 : j < k => to[j] < to[k]
      <4>. SUFFICES ASSUME NEW j \in 1 .. len + 1, NEW k \in 1 .. len + 1, j < k
                    PROVE  to[j] < to[k]
        OBVIOUS
      <4>1. j \in 1 .. len /\ to[j] = at[j] /\ at[j] \in 1 .. n
        BY <3>3, <3>4, <3>7
      <4>2. CASE k = len + 1
        BY <3>7, <4>1, <4>2
      <4>3. CASE k \in 1 .. len
        BY <2>2, <3>7, <4>1, <4>3 DEF Selects, len
      <4>. QED BY <3>5, <4>2, <4>3
    <3>10. \A i \in 1 .. n + 1 :
             records[i] \in S => \E k \in 1 .. len + 1 : to[k] = i
      <4>. SUFFICES ASSUME NEW i \in 1 .. n + 1, records[i] \in S
                    PROVE  \E k \in 1 .. len + 1 : to[k] = i
        OBVIOUS
      <4>1. CASE i = n + 1
        BY <3>3, <3>7, <4>1
      <4>2. CASE i \in 1 .. n
        <5>1. PICK k \in 1 .. len : at[k] = i
          BY <2>2, <4>2 DEF Selects, len
        <5>2. k \in 1 .. len + 1
          BY <3>3
        <5>. QED BY <3>7, <5>1, <5>2
      <4>. QED BY <4>1, <4>2
    <3>11. Selects(kept[n + 1], records, S, n + 1, to)
      BY <3>3, <3>6, <3>8, <3>9, <3>10 DEF Selects
    <3>. QED BY <3>11
  <2>. QED BY <2>3, <2>4
<1>5. N \in P
  <2>1. Nat \subseteq P
    <3>. HIDE DEF P
    <3>. QED BY <1>3, <1>4, Induction
  <2>. QED BY <1>1, <2>1
<1>. QED BY <1>1, <1>2, <1>5

(* Only keeps exactly the selected records. *)
LEMMA OnlyRange ==
  ASSUME NEW records, records \in Seq(ToSet(records)), NEW S
  PROVE  /\ Only(records, S) \in Seq(ToSet(records) \cap S)
         /\ ToSet(Only(records, S)) = ToSet(records) \cap S
<1>. DEFINE out == Only(records, S)
<1>1. out \in Seq(ToSet(records) \cap S)
  BY OnlySelects
<1>2. PICK at : Selects(out, records, S, Len(records), at)
  BY OnlySelects
<1>3. DOMAIN out = 1 .. Len(out) /\ DOMAIN records = 1 .. Len(records)
  BY <1>1
<1>. HIDE DEF out
<1>4. ToSet(out) \subseteq ToSet(records) \cap S
  BY <1>1, <1>3 DEF ToSet
<1>5. ToSet(records) \cap S \subseteq ToSet(out)
  BY <1>2, <1>3 DEF ToSet, Selects
<1>. QED BY <1>1, <1>4, <1>5 DEF out

-----------------------------------------------------------------------------
(* Texts *)

(* The text after a record, from the text before it. *)
TextOn(before, r) ==
  CASE Foreign(r) \/ ~IsContent(r) -> before
    [] r.storage = "pruned" -> None
    [] r.storage \in {"full", "checkpoint"} -> r.body
    [] OTHER -> IF before \in {None, Broken} THEN Broken ELSE ApplyDelta(r.body, before)

(* The texts after n records of a list, one from the other. *)
TextsFollow(text, records, n) ==
  /\ text[0] = None
  /\ \A i \in 1 .. n : text[i] = TextOn(text[i - 1], records[i])

(* There are such texts, whatever the bodies are. *)
LEMMA TextsExist ==
  ASSUME NEW records, NEW N \in Nat
  PROVE  \E g : g = [i \in 0 .. N |-> g[i]] /\ TextsFollow(g, records, N)
<1>. DEFINE Q(g, n) == g = [i \in 0 .. n |-> g[i]] /\ TextsFollow(g, records, n)
            P == {n \in Nat : \E g : Q(g, n)}
<1>1. 0 \in P
  <2>. DEFINE g == [i \in 0 .. 0 |-> None]
  <2>1. g[0] = None /\ g = [i \in 0 .. 0 |-> g[i]]
    OBVIOUS
  <2>. HIDE DEF g
  <2>2. Q(g, 0)
    BY <2>1 DEF TextsFollow
  <2>. QED BY <2>2
<1>2. ASSUME NEW n \in Nat, n \in P PROVE n + 1 \in P
  <2>1. PICK g : Q(g, n)
    BY <1>2
  <2>. DEFINE last == TextOn(g[n], records[n + 1])
              h == [i \in 0 .. n + 1 |-> IF i = n + 1 THEN last ELSE g[i]]
  <2>. HIDE DEF last
  <2>2. /\ h = [i \in 0 .. n + 1 |-> h[i]] /\ h[n + 1] = last
        /\ \A i \in 0 .. n : h[i] = g[i]
    OBVIOUS
  <2>. HIDE DEF h
  <2>3. h[0] = None /\ 0 \in 0 .. n /\ n \in 0 .. n
    <3>1. 0 \in 0 .. n /\ n \in 0 .. n
      OBVIOUS
    <3>2. g[0] = None
      BY <2>1 DEF TextsFollow
    <3>. QED BY <2>2, <3>1, <3>2
  <2>4. ASSUME NEW i \in 1 .. n + 1 PROVE h[i] = TextOn(h[i - 1], records[i])
    <3>1. CASE i = n + 1
      <4>1. i - 1 = n
        BY <3>1
      <4>. QED BY <2>2, <2>3, <3>1, <4>1 DEF last
    <3>2. CASE i \in 1 .. n
      <4>1. i \in 0 .. n /\ i - 1 \in 0 .. n
        BY <3>2
      <4>2. g[i] = TextOn(g[i - 1], records[i])
        BY <2>1, <3>2 DEF TextsFollow
      <4>. QED BY <2>2, <4>1, <4>2
    <3>. QED BY <3>1, <3>2
  <2>5. Q(h, n + 1)
    BY <2>2, <2>3, <2>4 DEF TextsFollow
  <2>. HIDE DEF Q
  <2>. QED BY <2>5
<1>3. Nat \subseteq P
  <2>. HIDE DEF P
  <2>. QED BY <1>1, <1>2, Induction
<1>. QED BY <1>3

(* TextAfter is what its recursion says. *)
LEMMA TextByRecursion ==
  ASSUME NEW records, Len(records) \in Nat
  PROVE  TextsFollow(TextAfter(records), records, Len(records))
<1>. DEFINE N == Len(records)
            Body(g) == [i \in 0 .. N |-> IF i = 0 THEN None ELSE
                          LET r == records[i] IN
                          CASE Foreign(r) \/ ~IsContent(r) -> g[i - 1]
                            [] r.storage = "pruned" -> None
                            [] r.storage \in {"full", "checkpoint"} -> r.body
                            [] OTHER -> IF g[i - 1] \in {None, Broken} THEN Broken
                                        ELSE ApplyDelta(r.body, g[i - 1])]
            text == CHOOSE f : f = Body(f)
<1>1. TextAfter(records) = text
  BY DEF TextAfter
<1>2. ASSUME NEW g
      PROVE  Body(g) = [i \in 0 .. N |-> IF i = 0 THEN None ELSE TextOn(g[i - 1], records[i])]
  BY DEF TextOn
<1>. HIDE DEF Body
<1>3. PICK g : g = [i \in 0 .. N |-> g[i]] /\ TextsFollow(g, records, N)
  BY TextsExist
<1>4. g = Body(g)
  <2>. DEFINE other == [i \in 0 .. N |-> IF i = 0 THEN None ELSE TextOn(g[i - 1], records[i])]
  <2>1. ASSUME NEW i \in 0 .. N PROVE g[i] = other[i]
    <3>1. i = 0 \/ i \in 1 .. N
      OBVIOUS
    <3>. QED BY <1>3, <3>1 DEF TextsFollow
  <2>2. g = other
    <3>. HIDE DEF N
    <3>. QED BY <1>3, <2>1
  <2>. QED BY <1>2, <2>2
<1>5. text = Body(text)
  BY <1>4
<1>. HIDE DEF text
<1>6. \A i \in 0 .. N : text[i] = IF i = 0 THEN None ELSE TextOn(text[i - 1], records[i])
  BY <1>2, <1>5
<1>7. N \in Nat
  OBVIOUS
<1>. HIDE DEF N
<1>8. text[0] = None
  <2>1. 0 \in 0 .. N
    BY <1>7
  <2>. QED BY <1>6, <2>1
<1>9. ASSUME NEW i \in 1 .. N PROVE text[i] = TextOn(text[i - 1], records[i])
  <2>1. i \in 0 .. N /\ i # 0
    BY <1>7
  <2>. QED BY <1>6, <2>1
<1>. QED BY <1>1, <1>8, <1>9 DEF TextsFollow, N

(* Two records that say the same, sealed or not. *)
SaysSame(r, s) ==
  /\ r.id = s.id /\ r.imm = s.imm /\ r.storage = s.storage /\ r.body = s.body

(* Lists with the same text at one place have it as long as they say the same. *)
LEMMA TextsCoincide ==
  ASSUME NEW a, NEW b, Len(a) \in Nat, Len(b) \in Nat,
         NEW m \in Nat, NEW n \in Nat, n <= Len(a), n <= Len(b),
         TextAfter(a)[m] = TextAfter(b)[m], \A i \in m + 1 .. n : SaysSame(a[i], b[i])
  PROVE  \A i \in m .. n : TextAfter(a)[i] = TextAfter(b)[i]
<1>. DEFINE s == TextAfter(a)
            t == TextAfter(b)
            P == {k \in Nat : m + k <= n => s[m + k] = t[m + k]}
<1>1. TextsFollow(s, a, Len(a)) /\ TextsFollow(t, b, Len(b))
  BY TextByRecursion
<1>. HIDE DEF s, t
<1>2. s[m] = t[m]
  BY DEF s, t
<1>3. 0 \in P
  BY <1>2
<1>4. ASSUME NEW k \in Nat, k \in P PROVE k + 1 \in P
  <2>. SUFFICES ASSUME m + (k + 1) <= n PROVE s[m + (k + 1)] = t[m + (k + 1)]
    OBVIOUS
  <2>. DEFINE i == m + (k + 1)
  <2>1. i \in m + 1 .. n /\ i - 1 = m + k /\ m + k <= n
        /\ i \in 1 .. Len(a) /\ i \in 1 .. Len(b)
    OBVIOUS
  <2>2. s[i - 1] = t[i - 1]
    BY <1>4, <2>1
  <2>. HIDE DEF i
  <2>3. s[i] = TextOn(s[i - 1], a[i]) /\ t[i] = TextOn(t[i - 1], b[i])
    BY <1>1, <2>1 DEF TextsFollow
  <2>4. SaysSame(a[i], b[i])
    BY <2>1
  <2>5. TextOn(s[i - 1], a[i]) = TextOn(s[i - 1], b[i])
    BY <2>4 DEF SaysSame, TextOn, Foreign, IsContent
  <2>6. s[i] = t[i]
    BY <2>2, <2>3, <2>5
  <2>. QED BY <2>6 DEF i
<1>5. Nat \subseteq P
  <2>. HIDE DEF P
  <2>. QED BY <1>3, <1>4, Induction
<1>6. ASSUME NEW i \in m .. n PROVE s[i] = t[i]
  <2>1. i - m \in Nat /\ m + (i - m) = i
    OBVIOUS
  <2>2. i - m \in P
    BY <1>5, <2>1
  <2>. QED BY <2>1, <2>2
<1>. QED BY <1>6 DEF s, t

-----------------------------------------------------------------------------
(* Lists *)

(* What is where in a sequence once an element is inserted, ... *)
LEMMA Inserted ==
  ASSUME NEW V, NEW s \in Seq(V), NEW i \in 1 .. Len(s) + 1, NEW e \in V
  PROVE  /\ InsertAt(s, i, e) \in Seq(V) /\ Len(InsertAt(s, i, e)) = Len(s) + 1
         /\ \A k \in 1 .. Len(s) + 1 :
              InsertAt(s, i, e)[k]
                = IF k < i THEN s[k] ELSE IF k = i THEN e ELSE s[k - 1]
<1>1. /\ Len(s) \in Nat /\ i - 1 \in 0 .. Len(s)
      /\ SubSeq(s, 1, i - 1) \in Seq(V) /\ Len(SubSeq(s, 1, i - 1)) = i - 1
      /\ \A k \in 1 .. i - 1 : SubSeq(s, 1, i - 1)[k] = s[k]
  OBVIOUS
<1>2. /\ SubSeq(s, i, Len(s)) \in Seq(V)
      /\ Len(SubSeq(s, i, Len(s))) = Len(s) - (i - 1)
      /\ \A k \in 1 .. Len(s) - (i - 1) : SubSeq(s, i, Len(s))[k] = s[i + k - 1]
  <2>1. CASE i = Len(s) + 1
    BY <2>1
  <2>2. CASE i \in 1 .. Len(s)
    BY <2>2
  <2>. QED BY <2>1, <2>2
<1>. DEFINE front == SubSeq(s, 1, i - 1)
            back == SubSeq(s, i, Len(s))
<1>3. front \in Seq(V) /\ back \in Seq(V) /\ InsertAt(s, i, e) = front \o <<e>> \o back
  BY <1>1, <1>2 DEF InsertAt
<1>. HIDE DEF front, back
<1>4. /\ front \o <<e>> \in Seq(V) /\ Len(front \o <<e>>) = Len(front) + 1
      /\ (front \o <<e>>)[Len(front) + 1] = e
      /\ \A k \in 1 .. Len(front) : (front \o <<e>>)[k] = front[k]
  BY <1>3
<1>5. /\ InsertAt(s, i, e) \in Seq(V)
      /\ Len(InsertAt(s, i, e)) = Len(front) + 1 + Len(back)
      /\ \A k \in 1 .. Len(front) + 1 : InsertAt(s, i, e)[k] = (front \o <<e>>)[k]
      /\ \A k \in 1 .. Len(back) : InsertAt(s, i, e)[Len(front) + 1 + k] = back[k]
  BY <1>3, <1>4
<1>6. Len(front) = i - 1 /\ Len(back) = Len(s) - (i - 1)
  BY <1>1, <1>2 DEF front, back
<1>7. ASSUME NEW k \in 1 .. Len(s) + 1
      PROVE  InsertAt(s, i, e)[k] = IF k < i THEN s[k] ELSE IF k = i THEN e ELSE s[k - 1]
  <2>1. CASE k < i
    BY <1>1, <1>4, <1>5, <1>6, <2>1 DEF front
  <2>2. CASE k = i
    BY <1>1, <1>4, <1>5, <1>6, <2>2
  <2>3. CASE k > i
    <3>1. k - i \in 1 .. Len(back) /\ Len(front) + 1 + (k - i) = k
      BY <1>1, <1>6, <2>3
    <3>2. InsertAt(s, i, e)[k] = back[k - i]
      BY <1>5, <3>1
    <3>3. back[k - i] = s[i + (k - i) - 1]
      BY <1>2, <1>6, <3>1 DEF back
    <3>4. i + (k - i) - 1 = k - 1
      OBVIOUS
    <3>. QED BY <2>3, <3>2, <3>3, <3>4
  <2>. QED BY <2>1, <2>2, <2>3
<1>. QED BY <1>1, <1>5, <1>6, <1>7

(* ... where that element is, ... *)
LEMMA InsertedItself ==
  ASSUME NEW V, NEW s \in Seq(V), NEW i \in 1 .. Len(s) + 1, NEW e \in V
  PROVE  InsertAt(s, i, e)[i] = e
BY Inserted

(* ... and what is where once one is removed. *)
LEMMA Removed ==
  ASSUME NEW V, NEW s \in Seq(V), NEW i \in 1 .. Len(s)
  PROVE  /\ RemoveAt(s, i) \in Seq(V) /\ Len(RemoveAt(s, i)) = Len(s) - 1
         /\ \A k \in 1 .. Len(s) - 1 :
              RemoveAt(s, i)[k] = IF k < i THEN s[k] ELSE s[k + 1]
<1>1. /\ Len(s) \in Nat /\ i - 1 \in 0 .. Len(s)
      /\ SubSeq(s, 1, i - 1) \in Seq(V) /\ Len(SubSeq(s, 1, i - 1)) = i - 1
      /\ \A k \in 1 .. i - 1 : SubSeq(s, 1, i - 1)[k] = s[k]
  OBVIOUS
<1>2. /\ SubSeq(s, i + 1, Len(s)) \in Seq(V)
      /\ Len(SubSeq(s, i + 1, Len(s))) = Len(s) - i
      /\ \A k \in 1 .. Len(s) - i : SubSeq(s, i + 1, Len(s))[k] = s[i + k]
  <2>1. CASE i = Len(s)
    BY <2>1
  <2>2. CASE i \in 1 .. Len(s) - 1
    BY <2>2
  <2>. QED BY <2>1, <2>2
<1>. DEFINE front == SubSeq(s, 1, i - 1)
            back == SubSeq(s, i + 1, Len(s))
<1>3. front \in Seq(V) /\ back \in Seq(V) /\ RemoveAt(s, i) = front \o back
  BY <1>1, <1>2 DEF RemoveAt
<1>. HIDE DEF front, back
<1>4. /\ RemoveAt(s, i) \in Seq(V) /\ Len(RemoveAt(s, i)) = Len(front) + Len(back)
      /\ \A k \in 1 .. Len(front) : RemoveAt(s, i)[k] = front[k]
      /\ \A k \in 1 .. Len(back) : RemoveAt(s, i)[Len(front) + k] = back[k]
  BY <1>3
<1>5. Len(front) = i - 1 /\ Len(back) = Len(s) - i
  BY <1>1, <1>2 DEF front, back
<1>6. ASSUME NEW k \in 1 .. Len(s) - 1
      PROVE  RemoveAt(s, i)[k] = IF k < i THEN s[k] ELSE s[k + 1]
  <2>1. CASE k < i
    <3>1. k \in 1 .. i - 1 /\ k \in 1 .. Len(front)
      BY <1>1, <1>5, <2>1
    <3>2. RemoveAt(s, i)[k] = front[k] /\ front[k] = s[k]
      BY <1>1, <1>4, <3>1 DEF front
    <3>. QED BY <2>1, <3>2
  <2>2. CASE k >= i
    <3>1. k - (i - 1) \in 1 .. Len(back) /\ Len(front) + (k - (i - 1)) = k
      BY <1>1, <1>5, <2>2
    <3>2. RemoveAt(s, i)[k] = back[k - (i - 1)]
      BY <1>4, <3>1
    <3>3. back[k - (i - 1)] = s[i + (k - (i - 1))]
      BY <1>2, <1>5, <3>1 DEF back
    <3>4. i + (k - (i - 1)) = k + 1
      OBVIOUS
    <3>. QED BY <2>2, <3>2, <3>3, <3>4
  <2>. QED BY <2>1, <2>2
<1>. QED BY <1>1, <1>4, <1>5, <1>6
============================================================================
