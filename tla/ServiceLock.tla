---------------------------- MODULE ServiceLock ----------------------------
(***************************************************************************)
(* The locks of a document, composed with the barrier publications run     *)
(* under.  document-lifecycle-host.mjs runs a lock as exclusive work;      *)
(* document-service.mjs also locks by itself, outside the barrier, when    *)
(* nobody works or a lease refresh fails.  Every publication is a          *)
(* maintenance call, and a lock waits for lease acquisitions and for the   *)
(* heartbeat's lease write, which publish.                                 *)
(*                                                                         *)
(* One document is open, in view mode at first, until it is locked.  What  *)
(* a publication writes is the matter of Publication and WorkRecovery:     *)
(* here it only waits its turn and succeeds or fails.                      *)
(***************************************************************************)
EXTENDS LifecycleBarrier

(* The kinds of publication. *)
CONSTANTS Acquisitions,  \* lease acquisitions, each one publication
          Refreshes,     \* heartbeats of the editing lease, likewise
          Saves          \* publications of text, likewise

(* No publication is of two kinds. *)
KindsAreDistinct ==
  /\ Acquisitions \cup Refreshes \cup Saves \subseteq Maintenance
  /\ Acquisitions \cap Refreshes = {}
  /\ Saves \cap (Acquisitions \cup Refreshes) = {}

VARIABLES
  chain,       \* publicationChain: the publication queued last, or None
  previous,    \* previous[p]: the publication p waits for, or None
  acquiring,   \* leaseAcquisitionOperations
  heartbeat,   \* heartbeatOperation, or None
  current,     \* the refresh in flight of the present leaseGeneration, or None
  armed,       \* the heartbeat timer is set
  locking,     \* what lockOperation waits for; "over" when it is locked
  stopped      \* the heartbeat operation #stopHeartbeat waits for, or None

publications == <<chain, previous>>
lease == <<acquiring, heartbeat, current, armed>>
lock == <<locking, stopped>>
serviceVars == <<vars, publications, lease, lock>>

ServiceInit ==
  /\ Init
  /\ chain = None
  /\ previous = [p \in Maintenance |-> None]
  /\ acquiring = {}
  /\ heartbeat = None
  /\ current = None
  /\ armed = FALSE
  /\ locking = "idle"
  /\ stopped = None

-----------------------------------------------------------------------------

(* A document is unlocked. *)
active == locking # "over"

(* Timers and requests wait until the reactions of settled promises have   *)
(* run: the engine empties that queue between any two of them.  A lock's   *)
(* first steps are such reactions when no staged document has to be closed *)
(* first, which is the case here.                                          *)
Quiet == /\ readers \cap settled = {}
         /\ stage \notin {"entered", "over"}
         /\ locking = "acquisitions" => acquiring # {}

(* A publication waits for the barrier, then for the publication queued    *)
(* before it.                                                              *)
QueuePublication(p) ==
  /\ RunMaintenance(p, None)
  /\ previous' = [previous EXCEPT ![p] = chain]
  /\ chain' = p

SaveDocument(s) ==
  /\ active
  /\ QueuePublication(s)
  /\ UNCHANGED <<lease, lock>>

(* An acquisition is under way from here on, but reads the author profile  *)
(* before it queues its publication.                                       *)
AcquireActiveLease(a) ==
  /\ locking = "idle"
  /\ a \notin called \cup acquiring
  /\ acquiring' = acquiring \cup {a}
  /\ UNCHANGED <<vars, publications, heartbeat, current, armed, lock>>

AcquireLease(a) ==
  /\ a \in acquiring
  /\ QueuePublication(a)
  /\ UNCHANGED <<lease, lock>>

(* The heartbeat's timer fires. *)
RefreshLease(h) ==
  /\ armed
  /\ armed' = FALSE
  /\ heartbeat' = h
  /\ current' = h
  /\ QueuePublication(h)
  /\ UNCHANGED <<acquiring, lock>>

(* An acquired lease starts a generation and its heartbeat; a refresh arms *)
(* the next one while its generation lasts.                                *)
Renew(p) ==
  /\ p \in Acquisitions \/ p = current
  /\ armed' = TRUE
  /\ current' = None
  /\ UNCHANGED locking

(* A refresh that fails locks the document, unless it is being locked.     *)
FailRefresh(p) ==
  /\ p = current
  /\ locking' = IF locking = "idle" THEN "acquisitions" ELSE locking
  /\ current' = None
  /\ UNCHANGED armed

(* A save, an acquisition that fails, a refresh whose generation is over.  *)
RenewNothing(p) == p # current /\ UNCHANGED <<armed, current, locking>>

FinishPublication(p) ==
  /\ previous[p] \in settled \cup {None}
  /\ FinishMaintenance(p)
  /\ acquiring' = acquiring \ {p}
  /\ heartbeat' = IF heartbeat = p THEN None ELSE heartbeat
  /\ Renew(p) \/ FailRefresh(p) \/ RenewNothing(p)
  /\ UNCHANGED <<publications, stopped>>

-----------------------------------------------------------------------------

(* The screen locks, the system suspends or the user locks. *)
LockActive(x) ==
  /\ active
  /\ RunExclusive(x, None)
  /\ UNCHANGED <<publications, lease, lock>>

(* The inactivity timer fires: the service locks outside the barrier.      *)
LockInactive ==
  /\ locking = "idle"
  /\ locking' = "acquisitions"
  /\ UNCHANGED <<vars, publications, lease, stopped>>

(* The barrier lets the host's lock in, and it starts the service's lock,  *)
(* joins the one under way or finds the document locked.                   *)
StartLock ==
  /\ TakeOwnership
  /\ locking' = IF locking = "idle" THEN "acquisitions" ELSE locking
  /\ UNCHANGED <<publications, lease, stopped>>

(* No acquisition is left: the generation ends, and with it the heartbeat, *)
(* but for the operation in flight.                                        *)
AwaitAcquisitions ==
  /\ locking = "acquisitions"
  /\ acquiring = {}
  /\ locking' = "heartbeat"
  /\ armed' = FALSE
  /\ current' = None
  /\ stopped' = heartbeat
  /\ UNCHANGED <<vars, publications, acquiring, heartbeat>>

(* The journal is flushed and the plaintext, the key and the password go,  *)
(* whether or not the flush succeeded.                                     *)
ClearSession ==
  /\ locking = "heartbeat"
  /\ stopped \in settled \cup {None}
  /\ locking' = "over"
  /\ UNCHANGED <<vars, publications, lease, stopped>>

FinishLock ==
  /\ locking = "over"
  /\ FinishBody
  /\ UNCHANGED <<publications, lease, lock>>

LeaveBarrier ==
  /\ ReleaseOwner \/ LeaveWriter \/ \E p \in Maintenance : LeaveReader(p)
  /\ UNCHANGED <<publications, lease, lock>>

-----------------------------------------------------------------------------

Request ==
  \/ \E s \in Saves : SaveDocument(s)
  \/ \E a \in Acquisitions : AcquireActiveLease(a)
  \/ \E x \in Exclusive : LockActive(x)

Timer == LockInactive \/ \E h \in Refreshes : RefreshLease(h)

LockStep == StartLock \/ AwaitAcquisitions \/ ClearSession \/ FinishLock

Progress ==
  \/ LockStep
  \/ LeaveBarrier
  \/ \E a \in Acquisitions : AcquireLease(a)
  \/ \E p \in Maintenance : FinishPublication(p)

ServiceNext == (Quiet /\ (Request \/ Timer)) \/ Progress

(* Everything already under way goes on: promises settle, files are read   *)
(* and written.  Requests and timers need not come.                        *)
ServiceFairness ==
  /\ WF_serviceVars(LockStep)
  /\ WF_serviceVars(LeaveBarrier)
  /\ \A a \in Acquisitions : WF_serviceVars(AcquireLease(a))
  /\ \A p \in Maintenance : WF_serviceVars(FinishPublication(p))

ServiceSpec == ServiceInit /\ [][ServiceNext]_serviceVars /\ ServiceFairness

-----------------------------------------------------------------------------

(* What the service and the host do with the barrier is what a barrier     *)
(* allows, so that its exclusion and its order hold of them.               *)
ImplementsBarrier == Spec

(* Publications whose promise has not settled. *)
Outstanding == (called \cap Maintenance) \ settled

(* A document that is locked stays without an editing lease: the lock      *)
(* leaves no acquisition and no heartbeat behind, however they overlapped, *)
(* that could still write a lease, nor a timer that would start one.       *)
LockLeavesNoLeaseWrites ==
  ~active => /\ acquiring = {}
             /\ ~armed
             /\ Outstanding \cap (Acquisitions \cup Refreshes) = {}

(* A lock that was asked for clears the plaintext.  The specification      *)
(* promises it of every lock: "An open document automatically re-locks".   *)
HostLockCompletes == \A x \in Exclusive : (x \in called) ~> ~active
=============================================================================
