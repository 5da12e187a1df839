-------------------------- MODULE WorkRecoveryHost --------------------------
(***************************************************************************)
(* WorkRecovery under the locks of the host.  A command of the user, the   *)
(* screen lock or a suspension locks through lockActive, as exclusive work *)
(* of the barrier every publication runs under: publications queued before *)
(* the request run first, those queued after it run when the lock is over. *)
(* The locks the service starts itself, when nobody works or a refresh     *)
(* fails, are WorkRecovery's Lock and Fail, outside the barrier.           *)
(*                                                                         *)
(* Every step of this module is one of WorkRecovery or leaves its          *)
(* variables alone; the barrier only takes interleavings away.  A lease    *)
(* acquisition that is queued behind a host's lock is in ServiceLock.      *)
(***************************************************************************)
EXTENDS WorkRecovery

VARIABLES
  host,   \* the host's lock: "free", "waiting" for the barrier or "inside" it
  ahead   \* how many of the queued publications it lets pass first

hostLock == <<host, ahead>>
hostVars == <<vars, hostLock>>

HostInit == Init /\ host = "free" /\ ahead = 0

-----------------------------------------------------------------------------
\* lockActive
RequestLock ==
  /\ host = "free" /\ mode # "closed"
  /\ host' = "waiting" /\ ahead' = Len(queue)
  /\ UNCHANGED vars

\* The publications before it are over: secureLocks.lock locks the service,
\* joins the lock under way or finds the document locked.
EnterLock ==
  /\ host = "waiting" /\ ahead = 0 /\ pub = None
  /\ host' = "inside"
  /\ \/ Lock \/ Close
     \/ mode \in {"closed", "locking", "flushing"} /\ UNCHANGED vars
  /\ UNCHANGED ahead

\* The lock is over, and with it the exclusive work.
LeaveLock ==
  /\ host = "inside" /\ mode = "closed"
  /\ host' = "free"
  /\ UNCHANGED <<vars, ahead>>

-----------------------------------------------------------------------------

\* The barrier lets the next publication in, unless the host's lock is next.
Admit ==
  \/ host = "free" /\ UNCHANGED hostLock
  \/ host = "waiting" /\ ahead > 0 /\ ahead' = ahead - 1 /\ UNCHANGED host

Admitted ==
  /\ BeginRefresh \/ BeginManual \/ BeginRegular \/ Refuse
  /\ Admit

PublicationStep ==
  /\ \/ WriteRecord \/ Replace \/ Cleanup \/ Acquired \/ Refreshed
     \/ ManualPublished \/ AdoptManual \/ RegularPublished
  /\ UNCHANGED hostLock

HostPublishing == Admitted \/ PublicationStep

\* The reactions to a settled lock run before the next request: nothing is
\* opened while the host is still leaving the barrier.
HostUser ==
  /\ \/ host # "inside" /\ Open
     \/ host = "free" /\ (Acquire \/ Retry)
     \/ DiscardWork \/ Close \/ Edit \/ SubmitManual \/ Lock
  /\ UNCHANGED hostLock

HostCheckpointing == Checkpointing /\ UNCHANGED hostLock
HostTimers == Timers /\ UNCHANGED hostLock
HostLockFlush == LockFlush /\ UNCHANGED hostLock

HostFaults ==
  \/ (Fail \/ FailFlush \/ FailLate) /\ UNCHANGED hostLock
  \/ Crash /\ host' = "free" /\ ahead' = 0

HostNext ==
  \/ RequestLock \/ EnterLock \/ LeaveLock
  \/ HostUser \/ HostTimers \/ HostCheckpointing \/ HostPublishing
  \/ HostLockFlush \/ HostFaults

HostSpec == HostInit /\ [][HostNext]_hostVars

\* An awaited call eventually settles, and the barrier lets in what is next.
\* Nothing is assumed of the user or of the timers.
HostFairSpec ==
  /\ HostSpec
  /\ WF_hostVars(HostCheckpointing) /\ WF_hostVars(HostPublishing)
  /\ WF_hostVars(HostLockFlush)
  /\ WF_hostVars(EnterLock) /\ WF_hostVars(LeaveLock)

-----------------------------------------------------------------------------
(* Properties *)


\* The host's lock runs and the heartbeat it waits for stands behind it in the
\* barrier's queue: neither ever ends (ServiceLock's HostLockCompletes).
Hung ==
  /\ host = "inside"
  /\ \E i \in DOMAIN queue : i > ahead /\ queue[i] = "refresh"

\* A lock, the service's or one the host asked for, finishes whatever it waits
\* for: the publications before it, the heartbeat and the checkpoint in
\* flight.  The one exception is the heartbeat that is queued behind it.
LockCompletes == mode = "locking" \/ host # "free" ~> mode = "closed" \/ Hung

\* A manual save is answered, also when a lock of either kind or a failure
\* overtakes it, unless a hung lock keeps it out for ever.
SaveSettles == manual # None ~> manual = None \/ Hung
=============================================================================
