-------------------------- MODULE LifecycleBarrier --------------------------
(***************************************************************************)
(* The barrier of src/apps/windows/src/lifecycle-barrier.mjs: maintenance  *)
(* (a publication, a lease write) runs beside other maintenance, exclusive *)
(* work (a lock, a replacement, a close) runs alone, in the order of the   *)
(* calls.  Calls made from the asynchronous context of the exclusive owner *)
(* do not queue: they run inside it.                                       *)
(*                                                                         *)
(* A call is made once and is its own identity, and so is the owner object *)
(* of an exclusive call.  `readers' is the set behind the code's counter   *)
(* and `writer' the call behind its flag; `generation', which nothing      *)
(* reads, is left out.  An operation that fails settles like one that      *)
(* succeeds: the barrier treats both alike.                                *)
(***************************************************************************)
EXTENDS Integers, Sequences, FiniteSets

CONSTANTS Maintenance,   \* the calls of runMaintenance
          Exclusive,     \* the calls of runExclusive
          None           \* no call, no owner

(* A call is of one kind, and None is not a call. *)
ASSUME CallsAreDistinct == /\ Maintenance \cap Exclusive = {}
                           /\ None \notin Maintenance \cup Exclusive

Calls == Maintenance \cup Exclusive

VARIABLES
  called,       \* calls made so far
  settled,      \* calls whose promise has settled
  context,      \* context[c]: the owner whose context made the call c, or None
  queue,        \* calls waiting, in order
  readers,      \* maintenance running outside any exclusive work
  writer,       \* the exclusive call let in, or None
  stage,        \* how far that call is: "free" when there is none
  activeOwner,  \* the owner whose context is reentrant now, or None
  pending,      \* reentrant calls of the active owner still running
  owners,       \* owners that exist, expired ones included
  maintenance   \* the counter behind hasMaintenance

scheduling == <<queue, readers, writer, stage>>
vars == <<called, settled, context, scheduling, activeOwner, pending, owners,
          maintenance>>

-----------------------------------------------------------------------------

Init ==
  /\ called = {}
  /\ settled = {}
  /\ context = [c \in Calls |-> None]
  /\ queue = <<>>
  /\ readers = {}
  /\ writer = None
  /\ stage = "free"
  /\ activeOwner = None
  /\ pending = {}
  /\ owners = {}
  /\ maintenance = 0

\* Mutant: any call made during exclusive work counts as part of it.
OwnsWhateverRuns(x) ==
  /\ writer # None
  /\ activeOwner # None

(* Code running with context x belongs to the exclusive work under way.    *)
OwnsExclusive(x) ==
  /\ writer # None
  /\ activeOwner # None
  /\ x = activeOwner

(* The positions of the maintenance calls at the head of a queue. *)
Leading(q) == {i \in DOMAIN q : \A j \in 1 .. i : q[j] \in Maintenance}

(* Lets in what stands at the head of the queue q while the maintenance r  *)
(* runs and no exclusive work does: one exclusive call if r is empty, or   *)
(* every maintenance call before the next exclusive one.                   *)
Drain(q, r) ==
  IF q # <<>> /\ Head(q) \in Exclusive
  THEN /\ readers' = r
       /\ IF r = {}
          THEN /\ queue' = Tail(q)
               /\ writer' = Head(q)
               /\ stage' = "entered"
          ELSE /\ queue' = q
               /\ writer' = None
               /\ stage' = "free"
  ELSE /\ queue' = SubSeq(q, Cardinality(Leading(q)) + 1, Len(q))
       /\ readers' = r \cup {q[i] : i \in Leading(q)}
       /\ writer' = None
       /\ stage' = "free"

\* Mutant: maintenance starts whenever no exclusive work runs.
EnqueueExclusiveOnly(c) ==
  IF c \in Maintenance /\ writer = None
  THEN /\ readers' = readers \cup {c}
       /\ UNCHANGED <<queue, writer, stage>>
  ELSE IF writer # None
       THEN /\ queue' = Append(queue, c)
            /\ UNCHANGED <<readers, writer, stage>>
       ELSE Drain(Append(queue, c), readers)

Enqueue(c) ==
  IF writer # None
  THEN /\ queue' = Append(queue, c)
       /\ UNCHANGED <<readers, writer, stage>>
  ELSE Drain(Append(queue, c), readers)

RunOwned(c) ==
  /\ pending' = pending \cup {c}
  /\ UNCHANGED scheduling

Call(c, x) ==
  /\ c \notin called
  /\ called' = called \cup {c}
  /\ context' = [context EXCEPT ![c] = x]

RunMaintenance(c, x) ==
  /\ c \in Maintenance
  /\ Call(c, x)
  /\ IF OwnsExclusive(x)
     THEN RunOwned(c) /\ UNCHANGED maintenance
     ELSE /\ maintenance' = maintenance + 1
          /\ Enqueue(c)
          /\ UNCHANGED pending
  /\ UNCHANGED <<settled, activeOwner, owners>>

RunExclusive(c, x) ==
  /\ c \in Exclusive
  /\ Call(c, x)
  /\ IF OwnsExclusive(x)
     THEN RunOwned(c)
     ELSE Enqueue(c) /\ UNCHANGED pending
  /\ UNCHANGED <<settled, activeOwner, owners, maintenance>>

-----------------------------------------------------------------------------

(* The queued function of an exclusive call runs: it makes its context the *)
(* reentrant one and starts the operation in it.                           *)
TakeOwnership ==
  /\ stage = "entered"
  /\ stage' = "body"
  /\ activeOwner' = writer
  /\ owners' = owners \cup {writer}
  /\ UNCHANGED <<called, settled, context, queue, readers, writer, pending,
                 maintenance>>

(* The operation of the exclusive call settles. *)
FinishBody ==
  /\ stage = "body"
  /\ stage' = "closing"
  /\ UNCHANGED <<called, settled, context, queue, readers, writer, activeOwner,
                 pending, owners, maintenance>>

\* Mutant: the call is taken for settled under the owner it just cleared.
ReleaseBeforeSettling ==
  /\ stage = "closing"
  /\ pending = {}
  /\ stage' = "over"
  /\ activeOwner' = None
  /\ settled' = settled \cup {activeOwner'}
  /\ UNCHANGED <<called, context, queue, readers, writer, pending, owners,
                 maintenance>>

(* No reentrant work is left: the owner expires and its call settles. *)
ReleaseOwner ==
  /\ stage = "closing"
  /\ pending = {}
  /\ stage' = "over"
  /\ activeOwner' = None
  /\ settled' = settled \cup {writer}
  /\ UNCHANGED <<called, context, queue, readers, writer, pending, owners,
                 maintenance>>

\* Mutant: the queue is not looked at when exclusive work ends.
LeaveWithoutDraining ==
  /\ stage = "over"
  /\ stage' = "free"
  /\ writer' = None
  /\ UNCHANGED <<called, settled, context, queue, readers, activeOwner, pending,
                 owners, maintenance>>

LeaveWriter ==
  /\ stage = "over"
  /\ Drain(queue, readers)
  /\ UNCHANGED <<called, settled, context, activeOwner, pending, owners,
                 maintenance>>

(* Maintenance outside exclusive work settles and is no longer counted; in *)
(* a later turn it leaves the barrier and lets the next calls in.          *)
FinishMaintenance(c) ==
  /\ c \in readers \ settled
  /\ settled' = settled \cup {c}
  /\ maintenance' = maintenance - 1
  /\ UNCHANGED <<called, context, scheduling, activeOwner, pending, owners>>

LeaveReader(c) ==
  /\ c \in readers \cap settled
  /\ Drain(queue, readers \ {c})
  /\ UNCHANGED <<called, settled, context, activeOwner, pending, owners,
                 maintenance>>

FinishOwned(c) ==
  /\ c \in pending
  /\ settled' = settled \cup {c}
  /\ pending' = pending \ {c}
  /\ UNCHANGED <<called, context, scheduling, activeOwner, owners, maintenance>>

-----------------------------------------------------------------------------

(* A call may come from outside (None), from the active owner or from work *)
(* an expired owner left behind.                                           *)
MakeCall == \E c \in Calls, x \in owners \cup {None} :
              RunMaintenance(c, x) \/ RunExclusive(c, x)

FinishCall(c) == FinishMaintenance(c) \/ LeaveReader(c) \/ FinishOwned(c)

Exclusively == TakeOwnership \/ FinishBody \/ ReleaseOwner \/ LeaveWriter

Next == MakeCall \/ Exclusively \/ \E c \in Calls : FinishCall(c)

(* Every operation handed to the barrier settles, and the engine runs the  *)
(* reactions of settled promises; nobody has to make a call.               *)
Fairness ==
  /\ WF_vars(Exclusively)
  /\ \A c \in Calls : WF_vars(FinishCall(c))

Spec == Init /\ [][Next]_vars

FairSpec == Spec /\ Fairness

-----------------------------------------------------------------------------

Waiting == {queue[i] : i \in DOMAIN queue}

(* The calls that wait before c: all of them when c only arrives. *)
Ahead(c) == {queue[i] : i \in {k \in DOMAIN queue :
                                 \A j \in 1 .. k : queue[j] # c}}

(* The step lets c in. *)
Enters(c) == \/ c \in readers' \ readers
             \/ c = writer' /\ c # writer

(* The types, and that a flag, a stage and an owner are those of a writer. *)
TypeOK ==
  /\ called \subseteq Calls
  /\ settled \subseteq Calls
  /\ context \in [Calls -> Exclusive \cup {None}]
  /\ queue \in Seq(Calls)
  /\ readers \subseteq Maintenance
  /\ writer \in Exclusive \cup {None}
  /\ stage \in {"free", "entered", "body", "closing", "over"}
  /\ activeOwner \in Exclusive \cup {None}
  /\ pending \subseteq Calls
  /\ owners \subseteq Exclusive
  /\ maintenance \in Int

(* While an exclusive operation runs, and until its promise has settled,   *)
(* nothing runs beside it but calls made from its own context: no outside  *)
(* maintenance, and no work of an owner that has expired.                  *)
ExclusiveRunsAlone ==
  /\ writer # None => readers = {}
  /\ activeOwner # None => activeOwner = writer
  /\ pending # {} => activeOwner # None
  /\ \A c \in pending : context[c] = activeOwner

(* A call is let in only once no call made before it still waits, so       *)
(* maintenance that arrives later never overtakes exclusive work that      *)
(* waits for the maintenance before it.                                    *)
NoOvertaking ==
  [][\A c \in Calls : Enters(c) => Ahead(c) \cap Waiting' = {}]_vars

(* Every call settles, however readers and writers keep arriving, provided *)
(* the operations do.                                                      *)
EveryCallIsServed == \A c \in Calls : (c \in called) ~> (c \in settled)
=============================================================================
