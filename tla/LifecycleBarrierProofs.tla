----------------------- MODULE LifecycleBarrierProofs -----------------------
(***************************************************************************)
(* Exclusion and order of the lifecycle barrier, for any number of calls:  *)
(* the types, ExclusiveRunsAlone and NoOvertaking.  None is inductive      *)
(* alone.  What an owner may do depends on the stage of its call, so       *)
(* OwnerMatchesStage ties the two, and ExclusiveRunsAlone follows step by  *)
(* step from both.  NoOvertaking needs that a call waits at most once      *)
(* (WaitsOnce): then a drain, which lets a first interval of the queue in, *)
(* leaves nobody waiting who was ahead of it.                              *)
(*                                                                         *)
(* The locks composed with it implement it, and leave no lease write       *)
(* behind: publications settle in the order of their chain (ServiceInv).   *)
(***************************************************************************)
EXTENDS ServiceLock, SequenceTheorems, FiniteSetTheorems, TLAPS

(* A call is in some stage exactly while there is one, and its owner is    *)
(* the active one exactly from taking the ownership to its release.        *)
OwnerMatchesStage ==
  /\ stage = "free" <=> writer = None
  /\ stage \in {"body", "closing"} => activeOwner = writer
  /\ stage \notin {"body", "closing"} => activeOwner = None

PendingWasCalled == pending \subseteq called

IInv == TypeOK /\ OwnerMatchesStage /\ PendingWasCalled /\ ExclusiveRunsAlone

(* What a barrier may be left with: maintenance, or exclusive work alone.  *)
Admitted ==
  /\ queue' \in Seq(Calls)
  /\ readers' \subseteq Maintenance
  /\ \/ writer' = None /\ stage' = "free"
     \/ writer' \in Exclusive /\ stage' = "entered" /\ readers' = {}

-----------------------------------------------------------------------------

(* The calls at the head of a queue are maintenance, and their number cuts *)
(* a queue off it.                                                         *)
LEMMA LeadingCalls ==
  ASSUME NEW q \in Seq(Calls)
  PROVE  /\ {q[i] : i \in Leading(q)} \subseteq Maintenance
         /\ SubSeq(q, Cardinality(Leading(q)) + 1, Len(q)) \in Seq(Calls)
<1>1. {q[i] : i \in Leading(q)} \subseteq Maintenance
  <2>1. \A i \in DOMAIN q : i \in 1 .. i
    BY DEF Leading
  <2>. QED BY <2>1 DEF Leading
<1>2. IsFiniteSet(Leading(q))
  <2>1. Leading(q) \subseteq 1 .. Len(q)
    BY DEF Leading
  <2>2. IsFiniteSet(1 .. Len(q))
    BY FS_Interval
  <2>. QED BY <2>1, <2>2, FS_Subset
<1>3. Cardinality(Leading(q)) \in Nat
  BY <1>2, FS_CardinalityType
<1>4. SubSeq(q, Cardinality(Leading(q)) + 1, Len(q)) \in Seq(Calls)
  <2> DEFINE n == Cardinality(Leading(q)) + 1
  <2>1. n \in Nat \ {0}
    BY <1>3
  <2>. HIDE DEF n
  <2>2. SubSeq(q, n, Len(q)) \in Seq(Calls)
    BY <2>1
  <2>. QED BY <2>2 DEF n
<1>. QED BY <1>1, <1>4

(* Draining a queue lets in maintenance beside maintenance, or one         *)
(* exclusive call when nothing runs.                                       *)
LEMMA DrainAdmits ==
  ASSUME NEW q \in Seq(Calls), NEW r \in SUBSET Maintenance, Drain(q, r)
  PROVE  Admitted
<1>1. CASE q # <<>> /\ Head(q) \in Exclusive
  <2>1. Tail(q) \in Seq(Calls)
    BY <1>1
  <2>. QED BY <1>1, <2>1 DEF Drain, Admitted
<1>2. CASE ~(q # <<>> /\ Head(q) \in Exclusive)
  BY <1>2, LeadingCalls DEF Drain, Admitted
<1>. QED BY <1>1, <1>2

(* A queued call leaves the barrier as it is or drains it. *)
LEMMA EnqueueAdmits ==
  ASSUME IInv, NEW c \in Calls, Enqueue(c)
  PROVE  \/ /\ writer # None
            /\ queue' \in Seq(Calls)
            /\ UNCHANGED <<readers, writer, stage>>
         \/ writer = None /\ Admitted
<1>1. Append(queue, c) \in Seq(Calls)
  BY DEF IInv, TypeOK
<1>2. readers \in SUBSET Maintenance
  BY DEF IInv, TypeOK
<1>. QED BY <1>1, <1>2, DrainAdmits DEF Enqueue

(* Once no exclusive work runs, draining keeps the invariant. *)
LEMMA AdmittedIsSafe ==
  ASSUME IInv, Admitted, activeOwner = None, pending = {},
         UNCHANGED <<activeOwner, pending>>,
         called \subseteq called', called' \subseteq Calls, settled' \subseteq Calls,
         context' \in [Calls -> Exclusive \cup {None}],
         owners' \subseteq Exclusive, maintenance' \in Int
  PROVE  IInv'
<1>1. TypeOK'
  BY DEF IInv, TypeOK, Admitted
<1>2. OwnerMatchesStage'
  BY CallsAreDistinct DEF Admitted, OwnerMatchesStage
<1>3. ExclusiveRunsAlone'
  BY CallsAreDistinct DEF Admitted, ExclusiveRunsAlone
<1>. QED BY <1>1, <1>2, <1>3 DEF IInv, PendingWasCalled

-----------------------------------------------------------------------------

(* A call keeps the invariant, reentrant or queued. *)
LEMMA CallIsSafe ==
  ASSUME IInv, NEW c \in Calls, NEW x \in owners \cup {None}, Call(c, x),
         maintenance' \in Int, UNCHANGED <<settled, activeOwner, owners>>,
         IF OwnsExclusive(x) THEN RunOwned(c)
                             ELSE Enqueue(c) /\ UNCHANGED pending
  PROVE  IInv'
<1>1. /\ called' \subseteq Calls
      /\ context' \in [Calls -> Exclusive \cup {None}]
  BY DEF Call, IInv, TypeOK
<1>2. \A d \in pending : context'[d] = context[d]
  BY DEF Call, IInv, TypeOK, PendingWasCalled
<1>3. CASE OwnsExclusive(x)
  <2>1. x = activeOwner /\ context'[c] = activeOwner
    BY <1>3 DEF OwnsExclusive, Call, IInv, TypeOK
  <2>2. \A d \in pending' : context'[d] = activeOwner
    BY <1>2, <1>3, <2>1 DEF RunOwned, IInv, ExclusiveRunsAlone
  <2>6. PendingWasCalled'
    BY <1>3 DEF RunOwned, Call, IInv, PendingWasCalled
  <2>3. TypeOK'
    BY <1>1, <1>3 DEF RunOwned, IInv, TypeOK, scheduling
  <2>4. OwnerMatchesStage'
    BY <1>3 DEF RunOwned, IInv, OwnerMatchesStage, scheduling
  <2>5. ExclusiveRunsAlone'
    BY <1>3, <2>2 DEF RunOwned, OwnsExclusive, IInv, ExclusiveRunsAlone, scheduling
  <2>. QED BY <2>3, <2>4, <2>5, <2>6 DEF IInv
<1>4. CASE ~OwnsExclusive(x)
  <2>1. Enqueue(c) /\ UNCHANGED pending
    BY <1>4
  <2>2. \/ /\ writer # None
           /\ queue' \in Seq(Calls)
           /\ UNCHANGED <<readers, writer, stage>>
        \/ writer = None /\ Admitted
    BY <2>1, EnqueueAdmits
  <2>3. CASE writer # None /\ queue' \in Seq(Calls) /\ UNCHANGED <<readers, writer, stage>>
    <3>1. TypeOK'
      BY <1>1, <2>1, <2>3 DEF IInv, TypeOK
    <3>2. OwnerMatchesStage'
      BY <2>3 DEF IInv, OwnerMatchesStage
    <3>3. ExclusiveRunsAlone'
      BY <1>2, <2>1, <2>3 DEF IInv, ExclusiveRunsAlone
    <3>4. PendingWasCalled'
      BY <2>1 DEF Call, IInv, PendingWasCalled
    <3>. QED BY <3>1, <3>2, <3>3, <3>4 DEF IInv
  <2>4. CASE writer = None /\ Admitted
    <3>1. activeOwner = None /\ pending = {}
      BY <2>4 DEF IInv, ExclusiveRunsAlone
    <3>2. called \subseteq called'
      BY DEF Call
    <3>3. settled' \subseteq Calls /\ owners' \subseteq Exclusive
      BY DEF IInv, TypeOK
    <3>. QED BY <1>1, <2>1, <2>4, <3>1, <3>2, <3>3, AdmittedIsSafe
  <2>. QED BY <2>2, <2>3, <2>4
<1>. QED BY <1>3, <1>4

-----------------------------------------------------------------------------

(* The strengthened invariant is inductive. *)
THEOREM Inductive == Spec => []IInv
<1>1. Init => IInv
  BY CallsAreDistinct DEF Init, IInv, TypeOK, OwnerMatchesStage,
     PendingWasCalled, ExclusiveRunsAlone
<1>2. IInv /\ [Next]_vars => IInv'
  <2>. SUFFICES ASSUME IInv, [Next]_vars PROVE IInv'
    OBVIOUS
  <2>. USE DEF IInv
  <2>1. ASSUME NEW c \in Calls, NEW x \in owners \cup {None}, RunMaintenance(c, x)
        PROVE  IInv'
    <3>1. maintenance' \in Int
      BY <2>1 DEF RunMaintenance, TypeOK
    <3>2. IF OwnsExclusive(x) THEN RunOwned(c)
                              ELSE Enqueue(c) /\ UNCHANGED pending
      BY <2>1 DEF RunMaintenance
    <3>3. Call(c, x) /\ UNCHANGED <<settled, activeOwner, owners>>
      BY <2>1 DEF RunMaintenance
    <3>. QED BY <3>1, <3>2, <3>3, CallIsSafe
  <2>2. ASSUME NEW c \in Calls, NEW x \in owners \cup {None}, RunExclusive(c, x)
        PROVE  IInv'
    <3>1. maintenance' \in Int
      BY <2>2 DEF RunExclusive, TypeOK
    <3>2. IF OwnsExclusive(x) THEN RunOwned(c)
                              ELSE Enqueue(c) /\ UNCHANGED pending
      BY <2>2 DEF RunExclusive
    <3>3. Call(c, x) /\ UNCHANGED <<settled, activeOwner, owners>>
      BY <2>2 DEF RunExclusive
    <3>. QED BY <3>1, <3>2, <3>3, CallIsSafe
  <2>3. CASE TakeOwnership
    <3>1. writer \in Exclusive /\ pending = {}
      BY <2>3 DEF TakeOwnership, TypeOK, OwnerMatchesStage, ExclusiveRunsAlone
    <3>2. TypeOK'
      BY <2>3, <3>1 DEF TakeOwnership, TypeOK
    <3>3. OwnerMatchesStage'
      BY <2>3, <3>1, CallsAreDistinct DEF TakeOwnership, OwnerMatchesStage
    <3>4. ExclusiveRunsAlone'
      BY <2>3, <3>1 DEF TakeOwnership, ExclusiveRunsAlone
    <3>. QED BY <2>3, <3>2, <3>3, <3>4 DEF TakeOwnership, PendingWasCalled
  <2>4. CASE FinishBody
    BY <2>4 DEF FinishBody, TypeOK, OwnerMatchesStage, PendingWasCalled,
       ExclusiveRunsAlone
  <2>5. CASE ReleaseOwner
    <3>1. writer \in Calls
      BY <2>5 DEF ReleaseOwner, TypeOK, OwnerMatchesStage, Calls
    <3>. QED BY <2>5, <3>1 DEF ReleaseOwner, TypeOK, OwnerMatchesStage,
             PendingWasCalled, ExclusiveRunsAlone
  <2>6. CASE LeaveWriter
    <3>1. activeOwner = None /\ pending = {}
      BY <2>6 DEF LeaveWriter, OwnerMatchesStage, ExclusiveRunsAlone
    <3>2. Admitted
      BY <2>6, DrainAdmits DEF LeaveWriter, TypeOK
    <3>. QED BY <2>6, <3>1, <3>2, AdmittedIsSafe DEF LeaveWriter, TypeOK
  <2>7. ASSUME NEW c \in Calls, FinishMaintenance(c) PROVE IInv'
    BY <2>7 DEF FinishMaintenance, scheduling, TypeOK, OwnerMatchesStage,
       PendingWasCalled, ExclusiveRunsAlone
  <2>8. ASSUME NEW c \in Calls, LeaveReader(c) PROVE IInv'
    <3>1. writer = None
      BY <2>8 DEF LeaveReader, ExclusiveRunsAlone
    <3>2. activeOwner = None /\ pending = {}
      BY <3>1 DEF OwnerMatchesStage, ExclusiveRunsAlone
    <3>3. readers \ {c} \in SUBSET Maintenance
      BY DEF TypeOK
    <3>4. Admitted
      BY <2>8, <3>3, DrainAdmits DEF LeaveReader, TypeOK
    <3>. QED BY <2>8, <3>2, <3>4, AdmittedIsSafe DEF LeaveReader, TypeOK
  <2>9. ASSUME NEW c \in Calls, FinishOwned(c) PROVE IInv'
    BY <2>9 DEF FinishOwned, scheduling, TypeOK, OwnerMatchesStage,
       PendingWasCalled, ExclusiveRunsAlone
  <2>10. CASE UNCHANGED vars
    BY <2>10 DEF vars, scheduling, TypeOK, OwnerMatchesStage, PendingWasCalled,
       ExclusiveRunsAlone
  <2>. QED BY <2>1, <2>2, <2>3, <2>4, <2>5, <2>6, <2>7, <2>8, <2>9, <2>10
           DEF Next, MakeCall, Exclusively, FinishCall
<1>. QED BY <1>1, <1>2, PTL DEF Spec

(* The barrier keeps its types, whatever the calls. *)
THEOREM TypeCorrect == Spec => []TypeOK
<1>1. IInv => TypeOK
  BY DEF IInv
<1>. QED BY <1>1, Inductive, PTL

(* Nothing runs beside exclusive work but its own reentrant calls, whatever *)
(* the number of calls and however they nest or outlive their owners.      *)
THEOREM ExclusionHolds == Spec => []ExclusiveRunsAlone
<1>1. IInv => ExclusiveRunsAlone
  BY DEF IInv
<1>. QED BY <1>1, Inductive, PTL

-----------------------------------------------------------------------------
(* NoOvertaking.  A call is made once, so it waits in one place: what is let *)
(* in stands before what stays in the queue.                                 *)

Once(q) == \A i, j \in 1 .. Len(q) : q[i] = q[j] => i = j
WaitsOnce ==
  /\ Once(queue)
  /\ \A i \in 1 .. Len(queue) : queue[i] \in called

(* The first n calls of q leave it, and only those may be let in. *)
LetsInFirst(q, r, n) ==
  /\ queue' \in Seq(Calls) /\ Len(queue') = Len(q) - n
  /\ \A i \in 1 .. Len(queue') : queue'[i] = q[i + n]
  /\ \A c \in Calls : c \in readers' \ r \/ c = writer' => \E i \in 1 .. n : q[i] = c

(* The leading maintenance of a queue is counted by its last position: a set *)
(* of positions closed downwards has as many members as its greatest one.    *)
LEMMA LeadingIsInterval ==
  ASSUME NEW q \in Seq(Calls)
  PROVE  /\ Cardinality(Leading(q)) \in 0 .. Len(q)
         /\ Leading(q) = 1 .. Cardinality(Leading(q))
<1> DEFINE n == Cardinality(Leading(q))
<1>1. Leading(q) \subseteq 1 .. Len(q)
  BY DEF Leading
<1>2. IsFiniteSet(1 .. Len(q)) /\ Cardinality(1 .. Len(q)) = Len(q) /\ Len(q) \in Nat
  <2>1. Len(q) \in Nat
    OBVIOUS
  <2>. QED BY <2>1, FS_Interval
<1>3. IsFiniteSet(Leading(q)) /\ n \in Nat /\ n <= Len(q)
  BY <1>1, <1>2, FS_Subset, FS_CardinalityType
<1>. HIDE DEF n
<1>4. ASSUME NEW i \in Leading(q) PROVE i \in 1 .. n
  <2>1. 1 .. i \subseteq Leading(q)
    BY DEF Leading
  <2>2. i \in Nat /\ i >= 1
    BY <1>1
  <2>3. Cardinality(1 .. i) = i
    BY <2>2, FS_Interval
  <2>4. Cardinality(1 .. i) <= Cardinality(Leading(q))
    BY <1>3, <2>1, FS_Subset
  <2>. QED BY <1>3, <2>2, <2>3, <2>4 DEF n
<1>5. Leading(q) \subseteq 1 .. n
  BY <1>4
<1>6. IsFiniteSet(1 .. n) /\ Cardinality(1 .. n) = n
  BY <1>3, FS_Interval
<1>7. Cardinality(Leading(q)) = Cardinality(1 .. n)
  BY <1>6 DEF n
<1>8. Leading(q) = 1 .. n
  BY <1>5, <1>6, <1>7, FS_Subset
<1>. QED BY <1>3, <1>8 DEF n

(* Draining takes calls from the front. *)
LEMMA DrainLetsInFirst ==
  ASSUME NEW q \in Seq(Calls), NEW r, Drain(q, r)
  PROVE  \E n \in 0 .. Len(q) : LetsInFirst(q, r, n)
<1>1. CASE q # <<>> /\ Head(q) \in Exclusive /\ r = {}
  <2>1. /\ Tail(q) \in Seq(Calls) /\ Len(Tail(q)) = Len(q) - 1 /\ Head(q) = q[1]
        /\ Len(q) \in Nat /\ Len(q) >= 1
        /\ \A i \in 1 .. Len(Tail(q)) : Tail(q)[i] = q[i + 1]
    BY <1>1
  <2>2. queue' = Tail(q) /\ writer' = Head(q) /\ readers' = r
    BY <1>1 DEF Drain
  <2>3. LetsInFirst(q, r, 1)
    BY <2>1, <2>2 DEF LetsInFirst
  <2>. QED BY <2>1, <2>3
<1>2. CASE q # <<>> /\ Head(q) \in Exclusive /\ r # {}
  <2>1. queue' = q /\ writer' = None /\ readers' = r
    BY <1>2 DEF Drain
  <2>2. LetsInFirst(q, r, 0)
    BY <2>1, CallsAreDistinct DEF LetsInFirst, Calls
  <2>. QED BY <2>2
<1>3. CASE ~(q # <<>> /\ Head(q) \in Exclusive)
  <2> DEFINE n == Cardinality(Leading(q))
  <2>1. n \in 0 .. Len(q) /\ Leading(q) = 1 .. n
    BY LeadingIsInterval
  <2>2. /\ queue' = SubSeq(q, n + 1, Len(q)) /\ writer' = None
        /\ readers' = r \cup {q[i] : i \in Leading(q)}
    BY <1>3 DEF Drain
  <2>. HIDE DEF n
  <2>3. /\ queue' \in Seq(Calls) /\ Len(queue') = Len(q) - n
        /\ \A i \in 1 .. Len(queue') : queue'[i] = q[i + n]
    BY <2>1, <2>2
  <2>4. \A c \in Calls : c \in readers' \ r \/ c = writer'
          => \E i \in 1 .. n : q[i] = c
    BY <2>1, <2>2, CallsAreDistinct DEF Calls
  <2>. QED BY <2>1, <2>3, <2>4 DEF LetsInFirst
<1>. QED BY <1>1, <1>2, <1>3

(* What leaves from the front overtakes nothing, and each call still waits *)
(* once.                                                                   *)
LEMMA FirstOvertakesNothing ==
  ASSUME NEW q \in Seq(Calls), Once(q), queue \in Seq(Calls), Len(queue) <= Len(q),
         \A i \in 1 .. Len(queue) : q[i] = queue[i],
         \A i \in 1 .. Len(q) : q[i] \in called',
         NEW r \in SUBSET readers, NEW n \in 0 .. Len(q), LetsInFirst(q, r, n)
  PROVE  /\ WaitsOnce'
         /\ \A c \in Calls : Enters(c) => Ahead(c) \cap Waiting' = {}
<1>1. /\ Len(q) \in Nat /\ Len(queue) \in Nat /\ Len(queue') = Len(q) - n
      /\ \A i \in 1 .. Len(queue') : i + n \in 1 .. Len(q) /\ queue'[i] = q[i + n]
      /\ queue' \in Seq(Calls)
  BY DEF LetsInFirst
<1>2. WaitsOnce'
  <2>1. Once(queue')
    <3>. SUFFICES ASSUME NEW i \in 1 .. Len(queue'), NEW j \in 1 .. Len(queue'),
                         queue'[i] = queue'[j]
                  PROVE  i = j
      BY DEF Once
    <3>1. q[i + n] = q[j + n] /\ i + n \in 1 .. Len(q) /\ j + n \in 1 .. Len(q)
      BY <1>1
    <3>2. i + n = j + n
      BY <3>1 DEF Once
    <3>. QED BY <3>2
  <2>2. \A i \in 1 .. Len(queue') : queue'[i] \in called'
    BY <1>1
  <2>. QED BY <2>1, <2>2 DEF WaitsOnce
<1>3. ASSUME NEW c \in Calls, Enters(c), NEW a \in Ahead(c), a \in Waiting'
      PROVE  FALSE
  <2>1. c \in readers' \ r \/ c = writer'
    BY <1>3 DEF Enters
  <2>2. PICK i \in 1 .. n : q[i] = c
    BY <2>1 DEF LetsInFirst
  <2>3. PICK k \in DOMAIN queue :
          queue[k] = a /\ \A j \in 1 .. k : queue[j] # c
    BY DEF Ahead
  <2>4. k \in 1 .. Len(queue) /\ k < i
    <3>1. k \in 1 .. Len(queue) /\ i \in Nat /\ i >= 1
      BY <1>1, <2>2
    <3>2. ASSUME i <= k PROVE FALSE
      <4>1. i \in 1 .. k /\ i \in 1 .. Len(queue)
        BY <1>1, <3>1, <3>2
      <4>2. queue[i] = c
        BY <2>2, <4>1
      <4>. QED BY <2>3, <4>1, <4>2
    <3>. QED BY <3>1, <3>2
  <2>5. PICK m \in DOMAIN queue' : queue'[m] = a
    BY <1>3 DEF Waiting
  <2>6. m \in 1 .. Len(queue') /\ m + n \in 1 .. Len(q) /\ q[m + n] = a
    BY <1>1, <2>5
  <2>7. k \in 1 .. Len(q) /\ q[k] = a
    BY <1>1, <2>3, <2>4
  <2>8. k = m + n
    BY <2>6, <2>7 DEF Once
  <2>. QED BY <1>1, <2>2, <2>4, <2>6, <2>8
<1>. QED BY <1>2, <1>3

(* A call that is queued, or let in at once, waits behind all before it. *)
LEMMA EnqueuedInOrder ==
  ASSUME IInv, WaitsOnce, NEW c \in Calls, c \notin called,
         called' = called \cup {c}, Enqueue(c)
  PROVE  /\ WaitsOnce'
         /\ \A e \in Calls : Enters(e) => Ahead(e) \cap Waiting' = {}
<1> DEFINE q == Append(queue, c)
<1>1. /\ queue \in Seq(Calls) /\ q \in Seq(Calls) /\ Len(queue) \in Nat
      /\ Len(q) = Len(queue) + 1 /\ q[Len(queue) + 1] = c
      /\ \A i \in 1 .. Len(queue) : q[i] = queue[i]
  BY DEF IInv, TypeOK
<1>. HIDE DEF q
<1>2. Once(q)
  BY <1>1 DEF WaitsOnce, Once
<1>3. \A i \in 1 .. Len(q) : q[i] \in called'
  BY <1>1 DEF WaitsOnce
<1>4. CASE writer # None
  <2>1. queue' = q /\ UNCHANGED <<readers, writer, stage>>
    BY <1>4 DEF Enqueue, q
  <2>2. WaitsOnce'
    BY <1>2, <1>3, <2>1 DEF WaitsOnce
  <2>. QED BY <2>1, <2>2 DEF Enters
<1>5. CASE writer = None
  <2>1. Drain(q, readers)
    BY <1>5 DEF Enqueue, q
  <2>2. PICK n \in 0 .. Len(q) : LetsInFirst(q, readers, n)
    BY <1>1, <2>1, DrainLetsInFirst
  <2>3. readers \in SUBSET readers /\ Len(queue) <= Len(q)
    BY <1>1
  <2>. QED BY <1>1, <1>2, <1>3, <2>2, <2>3, FirstOvertakesNothing
<1>. QED BY <1>4, <1>5

(* What leaves the barrier lets in what stands at the head of the queue. *)
LEMMA DrainedInOrder ==
  ASSUME IInv, WaitsOnce, called' = called,
         NEW r \in SUBSET readers, Drain(queue, r)
  PROVE  /\ WaitsOnce'
         /\ \A c \in Calls : Enters(c) => Ahead(c) \cap Waiting' = {}
<1>1. queue \in Seq(Calls) /\ Len(queue) \in Nat
  BY DEF IInv, TypeOK
<1>2. PICK n \in 0 .. Len(queue) : LetsInFirst(queue, r, n)
  BY <1>1, DrainLetsInFirst
<1>3. /\ Once(queue) /\ Len(queue) <= Len(queue)
      /\ \A i \in 1 .. Len(queue) : queue[i] \in called'
  BY <1>1 DEF WaitsOnce
<1>. QED BY <1>1, <1>2, <1>3, FirstOvertakesNothing

(* Every action lets calls in that way, or lets none in.                   *)
LEMMA StepKeepsOrder ==
  ASSUME IInv, WaitsOnce, [Next]_vars
  PROVE  /\ WaitsOnce'
         /\ \A c \in Calls : Enters(c) => Ahead(c) \cap Waiting' = {}
<1>1. ASSUME called \subseteq called', UNCHANGED scheduling
      PROVE  /\ WaitsOnce'
             /\ \A c \in Calls : ~Enters(c)
  BY <1>1 DEF scheduling, WaitsOnce, Once, Enters
<1>2. ASSUME NEW c \in Calls, NEW x \in owners \cup {None},
             RunMaintenance(c, x) \/ RunExclusive(c, x)
      PROVE  /\ WaitsOnce'
             /\ \A e \in Calls : Enters(e) => Ahead(e) \cap Waiting' = {}
  <2>1. c \notin called /\ called' = called \cup {c}
    BY <1>2 DEF RunMaintenance, RunExclusive, Call
  <2>2. RunOwned(c) \/ Enqueue(c)
    BY <1>2 DEF RunMaintenance, RunExclusive
  <2>. QED BY <1>1, <2>1, <2>2, EnqueuedInOrder DEF RunOwned
<1>3. CASE Exclusively
  <2>1. CASE LeaveWriter
    BY <2>1, DrainedInOrder DEF LeaveWriter
  <2>2. CASE TakeOwnership \/ FinishBody \/ ReleaseOwner
    <3>1. called' = called
      BY <2>2 DEF TakeOwnership, FinishBody, ReleaseOwner
    <3>2. /\ UNCHANGED <<queue, readers, writer>>
      BY <2>2 DEF TakeOwnership, FinishBody, ReleaseOwner
    <3>. QED BY <3>1, <3>2 DEF WaitsOnce, Once, Enters
  <2>. QED BY <1>3, <2>1, <2>2 DEF Exclusively
<1>4. ASSUME NEW c \in Calls, FinishCall(c)
      PROVE  /\ WaitsOnce'
             /\ \A e \in Calls : Enters(e) => Ahead(e) \cap Waiting' = {}
  <2>1. CASE LeaveReader(c)
    BY <2>1, DrainedInOrder DEF LeaveReader
  <2>2. CASE FinishMaintenance(c) \/ FinishOwned(c)
    BY <1>1, <2>2 DEF FinishMaintenance, FinishOwned
  <2>. QED BY <1>4, <2>1, <2>2 DEF FinishCall
<1>5. CASE UNCHANGED vars
  BY <1>1, <1>5 DEF vars
<1>. QED BY <1>2, <1>3, <1>4, <1>5 DEF Next, MakeCall

(* Nobody waits in two places.                                            *)
LEMMA CallsWaitOnce == Spec => []WaitsOnce
<1>1. Init => WaitsOnce
  BY DEF Init, WaitsOnce, Once
<1>. QED BY <1>1, Inductive, StepKeepsOrder, PTL DEF Spec

(* A call is let in only when no call made before it still waits, for any  *)
(* number of calls.                                                        *)
THEOREM OrderHolds == Spec => NoOvertaking
<1>1. IInv /\ WaitsOnce /\ [Next]_vars
        => [\A c \in Calls : Enters(c) => Ahead(c) \cap Waiting' = {}]_vars
  BY StepKeepsOrder
<1>. QED BY <1>1, Inductive, CallsWaitOnce, PTL DEF Spec, NoOvertaking

-----------------------------------------------------------------------------
(* The locks.  Publications settle in the order of their chain, so a lock   *)
(* that waited for the heartbeat in flight waited for those before it too.  *)

Queued == called \cap Maintenance

(* rank[p] is the place in the chain of p, and n that of its last.          *)
InOrder(rank, n) ==
  /\ \A p \in Queued : rank[p] \in 1 .. n
  /\ \A p, q \in Queued : rank[p] = rank[q] => p = q
  /\ \A p \in Queued :
       IF previous[p] = None THEN rank[p] = 1
       ELSE previous[p] \in Queued /\ rank[previous[p]] = rank[p] - 1
  /\ IF chain = None THEN n = 0 ELSE chain \in Queued /\ rank[chain] = n

SettlesInOrder(rank) ==
  \A p, q \in Queued : q \in settled /\ rank[p] < rank[q] => p \in settled

(* No refresh behind h is outstanding, and none at all when h is none.      *)
LastRefresh(rank, h) ==
  \A r \in Outstanding \cap Refreshes : h \in Queued /\ rank[r] <= rank[h]

RefreshesKnown(rank) ==
  /\ locking \in {"idle", "acquisitions"} => LastRefresh(rank, heartbeat)
  /\ locking = "heartbeat" => LastRefresh(rank, stopped)
  /\ locking = "over" => Outstanding \cap Refreshes = {}

ChainKept(rank, n) == InOrder(rank, n) /\ SettlesInOrder(rank) /\ RefreshesKnown(rank)

CallsKnown ==
  /\ readers \cup (settled \cap Maintenance) \subseteq called
  /\ chain \in Maintenance \cup {None}
  /\ previous \in [Maintenance -> Maintenance \cup {None}]
  /\ locking \in {"idle", "acquisitions", "heartbeat", "over"}

LeaseKnown ==
  /\ Outstanding \cap Acquisitions \subseteq acquiring
  /\ locking \in {"heartbeat", "over"} =>
       acquiring = {} /\ ~armed /\ current = None

ServiceInv ==
  /\ CallsKnown
  /\ LeaseKnown
  /\ \E rank \in [Maintenance -> Nat], n \in Nat : ChainKept(rank, n)

-----------------------------------------------------------------------------

(* Each step of the service or the host is one of the barrier, or leaves it *)
(* alone.                                                                   *)
LEMMA LockStepIsBarrierStep ==
  ASSUME [ServiceNext]_serviceVars
  PROVE  [Next]_vars
<1>1. ASSUME NEW p, QueuePublication(p) PROVE Next
  <2>1. p \in Calls /\ RunMaintenance(p, None)
    BY <1>1 DEF QueuePublication, RunMaintenance, Calls
  <2>. QED BY <2>1 DEF Next, MakeCall
<1>2. CASE Request
  <2>1. ASSUME NEW x \in Exclusive, LockActive(x) PROVE Next
    BY <2>1 DEF LockActive, Next, MakeCall, Calls
  <2>. QED BY <1>1, <1>2, <2>1 DEF Request, SaveDocument, AcquireActiveLease
<1>3. CASE Timer
  BY <1>1, <1>3 DEF Timer, LockInactive, RefreshLease
<1>4. CASE LockStep
  BY <1>4 DEF LockStep, StartLock, AwaitAcquisitions, ClearSession, FinishLock,
     Next, Exclusively
<1>5. CASE LeaveBarrier
  BY <1>5 DEF LeaveBarrier, Next, Exclusively, FinishCall, Calls
<1>6. ASSUME NEW a, AcquireLease(a) PROVE Next
  BY <1>1, <1>6 DEF AcquireLease
<1>7. ASSUME NEW p \in Maintenance, FinishPublication(p) PROVE Next
  BY <1>7 DEF FinishPublication, Next, FinishCall, Calls
<1>8. CASE UNCHANGED serviceVars
  BY <1>8 DEF serviceVars
<1>. QED BY <1>2, <1>3, <1>4, <1>5, <1>6, <1>7, <1>8 DEF ServiceNext, Progress

(* What the service and the host do with the barrier, a barrier does: its   *)
(* exclusion and its order hold of every lock and publication.              *)
THEOREM LocksUseBarrier == ServiceSpec => ImplementsBarrier
<1>1. ServiceInit => Init
  BY DEF ServiceInit
<1>2. [ServiceNext]_serviceVars => [Next]_vars
  BY LockStepIsBarrierStep
<1>. QED BY <1>1, <1>2, PTL DEF ServiceSpec, ImplementsBarrier, Spec

-----------------------------------------------------------------------------

(* A publication that is queued has the last place in the chain.            *)
LEMMA QueueingKeepsChain ==
  ASSUME CallsKnown, NEW rank \in [Maintenance -> Nat], NEW n \in Nat,
         InOrder(rank, n), SettlesInOrder(rank), NEW p, QueuePublication(p)
  PROVE  /\ p \in Maintenance \ called /\ Queued' = Queued \cup {p}
         /\ settled' = settled /\ p \notin settled
         /\ Outstanding' = Outstanding \cup {p}
         /\ InOrder([rank EXCEPT ![p] = n + 1], n + 1)'
         /\ SettlesInOrder([rank EXCEPT ![p] = n + 1])'
<1> DEFINE longer == [rank EXCEPT ![p] = n + 1]
<1>1. /\ p \in Maintenance /\ p \notin called
      /\ called' = called \cup {p} /\ settled' = settled
      /\ previous' = [previous EXCEPT ![p] = chain] /\ chain' = p
  BY DEF QueuePublication, RunMaintenance, Call
<1>2. Queued' = Queued \cup {p} /\ p \notin Queued
  BY <1>1 DEF Queued
<1>3. p \notin settled /\ p # None
  BY <1>1, CallsAreDistinct DEF CallsKnown
<1>4. Outstanding' = Outstanding \cup {p}
  BY <1>1, <1>3 DEF Outstanding
<1>5. /\ longer \in [Maintenance -> Nat] /\ longer[p] = n + 1
      /\ \A q \in Queued : longer[q] = rank[q]
  BY <1>1, <1>2 DEF Queued
<1>6. /\ previous'[p] = chain
      /\ \A q \in Queued : previous'[q] = previous[q]
  BY <1>1, <1>2 DEF CallsKnown, Queued
<1>7. \A q \in Queued : rank[q] \in 1 .. n
  BY DEF InOrder
<1>. HIDE DEF longer
<1>8. \A q \in Queued' : longer[q] \in 1 .. n + 1
  BY <1>2, <1>5, <1>7
<1>9. \A q, r \in Queued' : longer[q] = longer[r] => q = r
  BY <1>2, <1>5, <1>7 DEF InOrder
<1>10. \A q \in Queued' :
         IF previous'[q] = None THEN longer[q] = 1
         ELSE previous'[q] \in Queued' /\ longer[previous'[q]] = longer[q] - 1
  <2>1. CASE chain = None
    BY <2>1, <1>2, <1>5, <1>6, <1>7 DEF InOrder
  <2>2. CASE chain # None
    BY <2>2, <1>2, <1>5, <1>6, <1>7 DEF InOrder
  <2>. QED BY <2>1, <2>2
<1>11. InOrder(longer, n + 1)'
  BY <1>1, <1>2, <1>3, <1>5, <1>8, <1>9, <1>10 DEF InOrder
<1>12. SettlesInOrder(longer)'
  BY <1>1, <1>2, <1>3, <1>5, <1>7 DEF SettlesInOrder
<1>. QED BY <1>1, <1>2, <1>3, <1>4, <1>11, <1>12 DEF longer

(* A publication settles once all before it have.                           *)
LEMMA SettlingKeepsChain ==
  ASSUME IInv, CallsKnown, NEW rank \in [Maintenance -> Nat], NEW n \in Nat,
         InOrder(rank, n), SettlesInOrder(rank), NEW p, FinishPublication(p)
  PROVE  /\ p \in Outstanding /\ Outstanding' = Outstanding \ {p}
         /\ Queued' = Queued /\ settled' = settled \cup {p}
         /\ \A q \in Outstanding' : rank[p] < rank[q]
         /\ InOrder(rank, n)'
         /\ SettlesInOrder(rank)'
<1>1. /\ p \in readers \ settled /\ previous[p] \in settled \cup {None}
      /\ settled' = settled \cup {p} /\ called' = called
      /\ chain' = chain /\ previous' = previous
  BY DEF FinishPublication, FinishMaintenance, publications
<1>2. p \in Queued /\ Queued' = Queued
  BY <1>1 DEF IInv, TypeOK, CallsKnown, Queued
<1>3. p \in Outstanding /\ Outstanding' = Outstanding \ {p}
  BY <1>1, <1>2 DEF Queued, Outstanding
<1>4. \A q \in Queued : rank[q] \in 1 .. n
  BY DEF InOrder
<1>5. ASSUME NEW q \in Queued, rank[q] < rank[p] PROVE q \in settled
  <2>1. rank[q] >= 1 /\ rank[p] \in Nat /\ rank[q] \in Nat
    BY <1>2, <1>4
  <2>2. /\ previous[p] \in Queued /\ rank[previous[p]] = rank[p] - 1
        /\ previous[p] \in settled
    BY <1>1, <1>2, <1>5, <2>1 DEF InOrder
  <2>3. CASE rank[q] = rank[previous[p]]
    BY <2>2, <2>3 DEF InOrder
  <2>4. CASE rank[q] < rank[previous[p]]
    BY <2>2, <2>4 DEF SettlesInOrder
  <2>. QED BY <1>5, <2>1, <2>2, <2>3, <2>4
<1>6. ASSUME NEW q \in Outstanding' PROVE rank[p] < rank[q]
  <2>1. q \in Queued /\ q \notin settled /\ q # p
    BY <1>1, <1>6 DEF Outstanding, Queued
  <2>2. rank[q] # rank[p]
    BY <1>2, <2>1 DEF InOrder
  <2>. QED BY <1>2, <1>4, <1>5, <2>1, <2>2
<1>7. InOrder(rank, n)'
  BY <1>1, <1>2 DEF InOrder
<1>8. SettlesInOrder(rank)'
  BY <1>1, <1>2, <1>5 DEF SettlesInOrder
<1>. QED BY <1>1, <1>2, <1>3, <1>6, <1>7, <1>8

(* What a step lets in has been called.                                     *)
LEMMA DrainedWereCalled ==
  ASSUME NEW q \in Seq(Calls), \A i \in 1 .. Len(q) : q[i] \in called',
         NEW r, r \subseteq called', Drain(q, r)
  PROVE  readers' \subseteq called'
<1>1. CASE q # <<>> /\ Head(q) \in Exclusive
  BY <1>1 DEF Drain
<1>2. CASE ~(q # <<>> /\ Head(q) \in Exclusive)
  BY <1>2, LeadingIsInterval DEF Drain
<1>. QED BY <1>1, <1>2

(* So has what waits, and what only arrives.                                *)
LEMMA EnqueuedWereCalled ==
  ASSUME IInv, WaitsOnce, readers \subseteq called, NEW c \in Calls,
         called' = called \cup {c}, Enqueue(c)
  PROVE  readers' \subseteq called'
<1> DEFINE q == Append(queue, c)
<1>1. /\ queue \in Seq(Calls) /\ q \in Seq(Calls)
      /\ \A i \in 1 .. Len(q) : q[i] = c \/ (i \in 1 .. Len(queue) /\ q[i] = queue[i])
  BY DEF IInv, TypeOK
<1>2. \A i \in 1 .. Len(q) : q[i] \in called'
  BY <1>1 DEF WaitsOnce
<1>3. CASE writer # None
  BY <1>3 DEF Enqueue
<1>4. CASE writer = None
  <2>1. Drain(q, readers)
    BY <1>4 DEF Enqueue
  <2>. HIDE DEF q
  <2>. QED BY <1>1, <1>2, <2>1, DrainedWereCalled
<1>. QED BY <1>3, <1>4

(* Neither a step that only calls, lets in or settles exclusive work nor    *)
(* the start of a lock matters to the chain and the lease.                  *)
LEMMA BesideTheChain ==
  ASSUME ServiceInv, readers' \subseteq called', Queued' = Queued,
         called \subseteq called', settled' \cap Maintenance = settled \cap Maintenance,
         UNCHANGED <<publications, lease, stopped>>,
         locking' = locking \/ (locking = "idle" /\ locking' = "acquisitions")
  PROVE  ServiceInv'
<1>1. Outstanding' = Outstanding
  BY DEF Outstanding, Queued
<1>2. CallsKnown'
  BY DEF ServiceInv, CallsKnown, publications
<1>3. LeaseKnown'
  BY <1>1 DEF ServiceInv, LeaseKnown, lease
<1>4. PICK rank \in [Maintenance -> Nat], n \in Nat : ChainKept(rank, n)
  BY DEF ServiceInv
<1>5. InOrder(rank, n)'
  BY <1>4 DEF ChainKept, InOrder, publications
<1>6. \A p \in Queued : p \in settled' <=> p \in settled
  BY DEF Queued
<1>7. SettlesInOrder(rank)'
  BY <1>4, <1>6 DEF ChainKept, SettlesInOrder
<1>8. RefreshesKnown(rank)'
  BY <1>1, <1>4 DEF ChainKept, RefreshesKnown, LastRefresh, lease
<1>. QED BY <1>2, <1>3, <1>4, <1>5, <1>7, <1>8 DEF ServiceInv, ChainKept

(* A queued refresh is the last; a queued save or acquisition is no refresh. *)
LEMMA QueueingIsSafe ==
  ASSUME KindsAreDistinct, IInv, WaitsOnce, ServiceInv, NEW p, QueuePublication(p),
         UNCHANGED <<acquiring, lock>>,
         \/ p \in Acquisitions \cap acquiring /\ UNCHANGED <<heartbeat, current, armed>>
         \/ p \in Saves /\ UNCHANGED <<heartbeat, current, armed>>
         \/ p \in Refreshes /\ armed /\ heartbeat' = p
  PROVE  ServiceInv'
<1>1. PICK rank \in [Maintenance -> Nat], n \in Nat : ChainKept(rank, n)
  BY DEF ServiceInv
<1> DEFINE longer == [rank EXCEPT ![p] = n + 1]
<1>2. /\ p \in Maintenance \ called /\ Queued' = Queued \cup {p}
      /\ settled' = settled /\ p \notin settled
      /\ Outstanding' = Outstanding \cup {p}
      /\ InOrder(longer, n + 1)'
      /\ SettlesInOrder(longer)'
  BY <1>1, QueueingKeepsChain DEF ServiceInv, ChainKept
<1>3. /\ longer \in [Maintenance -> Nat] /\ longer[p] = n + 1 /\ n + 1 \in Nat
      /\ \A q \in Queued : longer[q] = rank[q] /\ rank[q] <= n
  BY <1>1, <1>2 DEF ChainKept, InOrder, Queued
<1>. HIDE DEF longer
<1>4. called' = called \cup {p} /\ readers' \subseteq called'
  <2>1. /\ p \in Calls /\ called' = called \cup {p}
        /\ Enqueue(p) \/ UNCHANGED scheduling
    BY DEF QueuePublication, RunMaintenance, Call, RunOwned, Calls
  <2>2. readers \subseteq called
    BY DEF ServiceInv, CallsKnown
  <2>. QED BY <2>1, <2>2, EnqueuedWereCalled DEF scheduling
<1>5. CallsKnown'
  BY <1>2, <1>4 DEF ServiceInv, CallsKnown, QueuePublication, lock
<1>6. LeaseKnown'
  BY <1>2 DEF KindsAreDistinct, ServiceInv, LeaseKnown, lock
<1>7. RefreshesKnown(longer)'
  <2>1. Outstanding \subseteq Queued /\ \A q \in Queued' : longer[q] <= n + 1
    BY <1>1, <1>2, <1>3 DEF Outstanding, Queued
  <2>2. CASE p \in Refreshes
    <3>1. locking' \in {"idle", "acquisitions"} /\ heartbeat' = p
      BY <2>2 DEF KindsAreDistinct, ServiceInv, LeaseKnown, CallsKnown, lock
    <3>2. LastRefresh(longer, heartbeat)'
      BY <1>2, <1>3, <2>1, <3>1 DEF LastRefresh
    <3>. QED BY <3>1, <3>2 DEF RefreshesKnown
  <2>3. CASE p \notin Refreshes
    <3>1. Outstanding' \cap Refreshes = Outstanding \cap Refreshes
      BY <1>2, <2>3
    <3>2. heartbeat' = heartbeat /\ locking' = locking /\ stopped' = stopped
      BY <2>3 DEF lock
    <3>3. RefreshesKnown(rank)
      BY <1>1 DEF ChainKept
    <3>4. ASSUME NEW h, LastRefresh(rank, h)
          PROVE  \A r \in Outstanding' \cap Refreshes :
                   h \in Queued' /\ longer[r] <= longer[h]
      BY <1>2, <1>3, <2>1, <3>1, <3>4 DEF LastRefresh
    <3>. QED BY <3>1, <3>2, <3>3, <3>4 DEF RefreshesKnown, LastRefresh
  <2>. QED BY <2>2, <2>3
<1>. QED BY <1>2, <1>3, <1>5, <1>6, <1>7 DEF ServiceInv, ChainKept

(* When the operation a lock or a timer knows of settles, no refresh is left. *)
LEMMA SettlingIsSafe ==
  ASSUME IInv, ServiceInv, NEW p, FinishPublication(p)
  PROVE  ServiceInv'
<1>1. PICK rank \in [Maintenance -> Nat], n \in Nat : ChainKept(rank, n)
  BY DEF ServiceInv
<1>2. /\ p \in Outstanding /\ Outstanding' = Outstanding \ {p}
      /\ Queued' = Queued /\ settled' = settled \cup {p}
      /\ \A q \in Outstanding' : rank[p] < rank[q]
      /\ InOrder(rank, n)'
      /\ SettlesInOrder(rank)'
  BY <1>1, SettlingKeepsChain DEF ServiceInv, ChainKept
<1>3. /\ called' = called /\ readers' = readers /\ stopped' = stopped
      /\ UNCHANGED publications
      /\ acquiring' = acquiring \ {p}
      /\ heartbeat' = IF heartbeat = p THEN None ELSE heartbeat
      /\ Renew(p) \/ FailRefresh(p) \/ RenewNothing(p)
  BY DEF FinishPublication, FinishMaintenance, scheduling
<1>4. \/ locking' = locking
      \/ locking = "idle" /\ locking' = "acquisitions"
  BY <1>3 DEF Renew, FailRefresh, RenewNothing
<1>5. CallsKnown'
  BY <1>2, <1>3, <1>4 DEF ServiceInv, CallsKnown, publications, Outstanding
<1>6. LeaseKnown'
  <2>1. Outstanding' \cap Acquisitions \subseteq acquiring'
    BY <1>2, <1>3 DEF ServiceInv, LeaseKnown
  <2>2. ASSUME locking' \in {"heartbeat", "over"}
        PROVE  acquiring' = {} /\ ~armed' /\ current' = None
    <3>1. locking' = locking /\ acquiring = {} /\ ~armed /\ current = None
      BY <1>4, <2>2 DEF ServiceInv, LeaseKnown
    <3>2. p \notin Acquisitions /\ p # None
      BY <1>2, <3>1, CallsAreDistinct DEF ServiceInv, LeaseKnown, Outstanding
    <3>. QED BY <1>3, <3>1, <3>2 DEF Renew, FailRefresh, RenewNothing
  <2>. QED BY <2>1, <2>2 DEF LeaseKnown
<1>7. RefreshesKnown(rank)'
  <2>1. ASSUME NEW h, LastRefresh(rank, h),
               NEW g, g = h \/ (h = p /\ g = None)
        PROVE  \A r \in Outstanding' \cap Refreshes : g \in Queued /\ rank[r] <= rank[g]
    <3>. SUFFICES ASSUME NEW r \in Outstanding' \cap Refreshes
                  PROVE  g \in Queued /\ rank[r] <= rank[g]
      OBVIOUS
    <3>1. h \in Queued /\ rank[r] <= rank[h] /\ rank[p] < rank[r]
      BY <1>2, <2>1 DEF LastRefresh
    <3>2. rank[r] \in Nat /\ rank[h] \in Nat /\ rank[p] \in Nat
      BY <1>1, <1>2, <3>1 DEF Outstanding, Queued
    <3>3. h # p
      BY <3>1, <3>2
    <3>. QED BY <2>1, <3>1, <3>3
  <2>2. heartbeat' = heartbeat \/ (heartbeat = p /\ heartbeat' = None)
    BY <1>3
  <2>3. RefreshesKnown(rank)
    BY <1>1 DEF ChainKept
  <2>4. CASE locking' \in {"idle", "acquisitions"}
    <3>1. LastRefresh(rank, heartbeat)
      BY <1>4, <2>3, <2>4 DEF RefreshesKnown
    <3>2. LastRefresh(rank, heartbeat)'
      BY <1>2, <2>1, <2>2, <3>1 DEF LastRefresh
    <3>. QED BY <2>4, <3>2 DEF RefreshesKnown
  <2>5. CASE locking' = "heartbeat"
    <3>1. LastRefresh(rank, stopped)
      BY <1>4, <2>3, <2>5 DEF RefreshesKnown
    <3>2. LastRefresh(rank, stopped)'
      BY <1>2, <1>3, <2>1, <3>1 DEF LastRefresh
    <3>. QED BY <2>5, <3>2 DEF RefreshesKnown
  <2>6. CASE locking' = "over"
    BY <1>2, <1>4, <2>3, <2>6 DEF RefreshesKnown
  <2>. QED BY <1>5, <2>4, <2>5, <2>6 DEF CallsKnown
<1>. QED BY <1>1, <1>2, <1>5, <1>6, <1>7 DEF ServiceInv, ChainKept

(* A lock hands the last refresh on to what it waits for, and is over when  *)
(* that has settled.                                                        *)
LEMMA LockingIsSafe ==
  ASSUME ServiceInv, AwaitAcquisitions \/ ClearSession
  PROVE  ServiceInv'
<1>1. PICK rank \in [Maintenance -> Nat], n \in Nat : ChainKept(rank, n)
  BY DEF ServiceInv
<1>2. UNCHANGED <<called, settled, readers, publications>>
  BY DEF AwaitAcquisitions, ClearSession, vars, scheduling
<1>3. Queued' = Queued /\ Outstanding' = Outstanding
  BY <1>2 DEF Queued, Outstanding
<1>4. CallsKnown'
  BY <1>2 DEF ServiceInv, CallsKnown, publications, AwaitAcquisitions, ClearSession
<1>5. LeaseKnown'
  BY <1>3 DEF ServiceInv, LeaseKnown, AwaitAcquisitions, ClearSession, lease
<1>6. InOrder(rank, n)' /\ SettlesInOrder(rank)'
  BY <1>1, <1>2, <1>3 DEF ChainKept, InOrder, SettlesInOrder, publications
<1>7. RefreshesKnown(rank)
  BY <1>1 DEF ChainKept
<1>8. CASE AwaitAcquisitions
  <2>1. locking' = "heartbeat" /\ stopped' = heartbeat /\ LastRefresh(rank, heartbeat)
    BY <1>7, <1>8 DEF AwaitAcquisitions, RefreshesKnown
  <2>2. RefreshesKnown(rank)'
    BY <1>3, <2>1 DEF RefreshesKnown, LastRefresh
  <2>. QED BY <1>1, <1>4, <1>5, <1>6, <2>2 DEF ServiceInv, ChainKept
<1>9. CASE ClearSession
  <2>1. locking' = "over" /\ stopped \in settled \cup {None} /\ LastRefresh(rank, stopped)
    BY <1>7, <1>9 DEF ClearSession, RefreshesKnown
  <2>2. ASSUME NEW r \in Outstanding \cap Refreshes PROVE FALSE
    <3>1. stopped \in Queued /\ rank[r] <= rank[stopped] /\ r \in Queued /\ r \notin settled
      BY <2>1, <2>2 DEF LastRefresh, Outstanding, Queued
    <3>2. stopped \in settled /\ rank[r] \in Nat /\ rank[stopped] \in Nat
      BY <1>1, <2>1, <3>1, CallsAreDistinct DEF Queued
    <3>3. rank[r] # rank[stopped]
      BY <1>1, <3>1, <3>2 DEF ChainKept, InOrder
    <3>. QED BY <1>1, <3>1, <3>2, <3>3 DEF ChainKept, SettlesInOrder
  <2>3. RefreshesKnown(rank)'
    BY <1>3, <2>1, <2>2 DEF RefreshesKnown
  <2>. QED BY <1>1, <1>4, <1>5, <1>6, <2>3 DEF ServiceInv, ChainKept
<1>. QED BY <1>8, <1>9

(* Every step keeps it.                                                     *)
LEMMA ServiceStepIsSafe ==
  ASSUME KindsAreDistinct, IInv, WaitsOnce, ServiceInv, [ServiceNext]_serviceVars
  PROVE  ServiceInv'
<1>1. readers \subseteq called /\ \A i \in 1 .. Len(queue) : queue[i] \in called
  BY DEF ServiceInv, CallsKnown, WaitsOnce
<1>2. ASSUME NEW s \in Saves, SaveDocument(s) PROVE ServiceInv'
  BY <1>2, QueueingIsSafe DEF SaveDocument, lease
<1>3. ASSUME NEW a \in Acquisitions, AcquireLease(a) PROVE ServiceInv'
  BY <1>3, QueueingIsSafe DEF AcquireLease, lease
<1>4. ASSUME NEW h \in Refreshes, RefreshLease(h) PROVE ServiceInv'
  BY <1>4, QueueingIsSafe DEF RefreshLease
<1>5. ASSUME NEW a \in Acquisitions, AcquireActiveLease(a) PROVE ServiceInv'
  <2>1. /\ locking = "idle" /\ acquiring' = acquiring \cup {a}
        /\ UNCHANGED <<called, settled, readers, publications, heartbeat, lock>>
    BY <1>5 DEF AcquireActiveLease, vars, scheduling
  <2>2. Queued' = Queued /\ Outstanding' = Outstanding
    BY <2>1 DEF Queued, Outstanding
  <2>3. CallsKnown'
    BY <2>1 DEF ServiceInv, CallsKnown, publications, lock
  <2>4. LeaseKnown'
    BY <2>1, <2>2 DEF ServiceInv, LeaseKnown, lock
  <2>5. PICK rank \in [Maintenance -> Nat], n \in Nat : ChainKept(rank, n)
    BY DEF ServiceInv
  <2>6. ChainKept(rank, n)'
    BY <2>1, <2>2, <2>5 DEF ChainKept, InOrder, SettlesInOrder, RefreshesKnown,
       LastRefresh, publications, lock
  <2>. QED BY <2>3, <2>4, <2>5, <2>6 DEF ServiceInv
<1>6. ASSUME NEW x \in Exclusive, LockActive(x) PROVE ServiceInv'
  <2>1. /\ x \in Calls /\ called' = called \cup {x} /\ settled' = settled
        /\ Enqueue(x) \/ UNCHANGED scheduling
        /\ UNCHANGED <<publications, lease, lock>>
    BY <1>6 DEF LockActive, RunExclusive, Call, RunOwned, Calls
  <2>2. readers' \subseteq called'
    BY <1>1, <2>1, EnqueuedWereCalled DEF scheduling
  <2>3. Queued' = Queued
    BY <2>1, CallsAreDistinct DEF Queued
  <2>. QED BY <2>1, <2>2, <2>3, BesideTheChain DEF lock
<1>7. CASE LockInactive \/ StartLock \/ FinishLock
  <2>1. /\ UNCHANGED <<called, settled, readers, publications, lease, stopped>>
        /\ locking' = locking \/ (locking = "idle" /\ locking' = "acquisitions")
    BY <1>7 DEF LockInactive, StartLock, FinishLock, TakeOwnership, FinishBody,
       vars, scheduling, lock
  <2>. QED BY <1>1, <2>1, BesideTheChain DEF Queued
<1>8. CASE LeaveBarrier
  <2>1. called' = called /\ UNCHANGED <<publications, lease, lock>>
    BY <1>8 DEF LeaveBarrier, ReleaseOwner, LeaveWriter, LeaveReader
  <2>2. settled' \cap Maintenance = settled \cap Maintenance
    <3>1. stage = "closing" => writer \in Exclusive
      BY DEF IInv, TypeOK, OwnerMatchesStage
    <3>. QED BY <1>8, <3>1, CallsAreDistinct
         DEF LeaveBarrier, ReleaseOwner, LeaveWriter, LeaveReader
  <2>3. readers' \subseteq called'
    <3>1. queue \in Seq(Calls)
      BY DEF IInv, TypeOK
    <3>2. CASE ReleaseOwner
      BY <1>1, <2>1, <3>2 DEF ReleaseOwner
    <3>3. CASE LeaveWriter
      BY <1>1, <2>1, <3>1, <3>3, DrainedWereCalled DEF LeaveWriter
    <3>4. ASSUME NEW p \in Maintenance, LeaveReader(p) PROVE readers' \subseteq called'
      BY <1>1, <2>1, <3>1, <3>4, DrainedWereCalled DEF LeaveReader
    <3>. QED BY <1>8, <3>2, <3>3, <3>4 DEF LeaveBarrier
  <2>. QED BY <2>1, <2>2, <2>3, BesideTheChain DEF Queued, lock
<1>9. CASE AwaitAcquisitions \/ ClearSession
  BY <1>9, LockingIsSafe
<1>10. ASSUME NEW p \in Maintenance, FinishPublication(p) PROVE ServiceInv'
  BY <1>10, SettlingIsSafe
<1>11. CASE UNCHANGED serviceVars
  BY <1>1, <1>11, BesideTheChain DEF serviceVars, vars, scheduling, lock, Queued
<1>. QED BY <1>2, <1>3, <1>4, <1>5, <1>6, <1>7, <1>8, <1>9, <1>10, <1>11
     DEF ServiceNext, Request, Timer, Progress, LockStep

(* The invariant of the composition, for any number of calls of each kind.  *)
THEOREM LocksKeepOrder ==
  ASSUME KindsAreDistinct
  PROVE  ServiceSpec => []ServiceInv
<1>1. ServiceInit => ServiceInv
  <2>. SUFFICES ASSUME ServiceInit PROVE ServiceInv
    OBVIOUS
  <2>1. Queued = {} /\ Outstanding = {} /\ chain = None
    BY DEF ServiceInit, Init, Queued, Outstanding
  <2>2. CallsKnown /\ LeaseKnown
    BY <2>1 DEF ServiceInit, Init, CallsKnown, LeaseKnown
  <2> DEFINE rank == [p \in Maintenance |-> 0]
  <2>3. rank \in [Maintenance -> Nat]
    OBVIOUS
  <2>. HIDE DEF rank
  <2>4. ChainKept(rank, 0)
    BY <2>1 DEF ChainKept, InOrder, SettlesInOrder, RefreshesKnown, LastRefresh
  <2>. QED BY <2>2, <2>3, <2>4 DEF ServiceInv
<1>2. ServiceSpec => Spec
  BY LocksUseBarrier DEF ImplementsBarrier
<1>. QED BY <1>1, <1>2, Inductive, CallsWaitOnce, ServiceStepIsSafe, PTL DEF ServiceSpec

(* A locked document keeps no lease write behind that could renew its lease, *)
(* whatever overlapped when it was locked, in the barrier or outside it.    *)
THEOREM LocksEndTheLease ==
  ASSUME KindsAreDistinct
  PROVE  ServiceSpec => []LockLeavesNoLeaseWrites
<1>1. ServiceInv => LockLeavesNoLeaseWrites
  BY DEF ServiceInv, LeaseKnown, ChainKept, RefreshesKnown, LockLeavesNoLeaseWrites,
     active
<1>. QED BY <1>1, LocksKeepOrder, PTL
=============================================================================
