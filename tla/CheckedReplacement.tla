------------------------- MODULE CheckedReplacement -------------------------
(***************************************************************************)
(* What the publication service promises about one shared file.  A pending *)
(* replacement survives until it has been installed or discarded; only a   *)
(* replacement that resolves a conflict may take its place; and the file   *)
(* is replaced, whole, only after it was compared with the replacement's   *)
(* base.  The comparison and the replacement are two steps, because the    *)
(* file systems and sync providers that hold the file offer no             *)
(* compare-and-swap: other clients may write between them.                 *)
(***************************************************************************)
CONSTANTS Contents, Absent

VARIABLES
  file,       \* the shared file
  pending,    \* the pending replacement, or None
  phase,      \* "open", "checked" (just compared) or "dropping"
  installed   \* candidates that have been installed

abstractVars == <<file, pending, phase, installed>>

None == [base |-> Absent, candidate |-> Absent, state |-> "pending"]
Replacement == [base: Contents, candidate: Contents, state: {"pending", "conflict"}]

Init ==
  /\ file \in Contents /\ pending = None /\ phase = "open" /\ installed = {}

\* A replacement becomes durable, or the pending one turns into a conflict.
Propose ==
  \E r \in Replacement :
    /\ \/ pending = None
       \/ pending.state = "conflict"
       \/ r.base = pending.base /\ r.candidate = pending.candidate
    /\ pending' = r /\ phase' = "open" /\ UNCHANGED <<file, installed>>

Check ==
  /\ pending # None /\ file = pending.base
  /\ phase' = "checked" /\ UNCHANGED <<file, pending, installed>>

Install ==
  /\ phase = "checked"
  /\ file' = pending.candidate
  /\ installed' = installed \cup {pending.candidate}
  /\ phase' = "open" /\ UNCHANGED pending

\* A failure, a crash or a decision of the user.
Turn ==
  /\ phase' \in {"open", "dropping"}
  /\ UNCHANGED <<file, pending, installed>>

\* The pending replacement is forgotten: it was installed, or is dropped.
Forget ==
  /\ pending.candidate \in installed \/ phase = "dropping"
  /\ pending' = None /\ phase' = "open" /\ UNCHANGED <<file, installed>>

OthersWrite ==
  /\ file' \in Contents \cup {Absent}
  /\ UNCHANGED <<pending, phase, installed>>

Next == Propose \/ Check \/ Install \/ Turn \/ Forget \/ OthersWrite

Spec == Init /\ [][Next]_abstractVars
=============================================================================
