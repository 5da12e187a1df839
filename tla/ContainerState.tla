--------------------------- MODULE ContainerState ---------------------------
(***************************************************************************)
(* The state manager of one container (container_state.cpp): a pure table  *)
(* of transitions.  Each transition T of the code is here                  *)
(*   MayT(s, ...)     the facts it requires, or it is refused,             *)
(*   T(s, ...)        the state it proposes, and                           *)
(*   TEffects(s, ...) what the host must do once the state is installed.   *)
(* Container.tla installs these transitions after checking the facts they  *)
(* carry, as container.cpp does.                                           *)
(***************************************************************************)
EXTENDS Naturals

CONSTANTS
  Slots,  \* password slots
  None    \* no slot, no operation, no kind

ASSUME NoneIsNoSlot == None \notin Slots

(***************************************************************************)
(* Rights are the permission bits of a slot.  Adding or removing passwords *)
(* implies editing.                                                        *)
(***************************************************************************)
Permissions == SUBSET {"edit", "add", "remove"}
WellFormed(p) == p \cap {"add", "remove"} # {} => "edit" \in p
AllRights == {"edit", "add", "remove"}

Phases == {"idle", "publishing", "awaiting_host_action", "outcome_pending",
           "recovery_required"}
Attempts == {"backup_attempt", "export_attempt"}
Kinds == Attempts \cup
  {"save", "slot_change", "lease_change", "compaction", "activity_outcome"}
Attentions == {"none", "conflict", "target_replaced", "reauthenticate"}
Leases == {"none", "held", "other_holder"}
\* The rights an observed target grants, kept until the container is closed.
Overlays == [slot: Slots, rights: Permissions, changed: BOOLEAN]

\* operation and last are host-chosen numbers; last is 0 before the first.
ContainerStates ==
  [open: BOOLEAN, unlocked: BOOLEAN, slot: Slots \cup {None},
   rights: Permissions, overlay: Overlays \cup {None}, editing: BOOLEAN,
   lease: Leases, attention: Attentions, phase: Phases,
   operation: Nat \cup {None}, last: Nat, kind: Kinds \cup {None}]

ClosedState ==
  [open |-> FALSE, unlocked |-> FALSE, slot |-> None, rights |-> {},
   overlay |-> None, editing |-> FALSE, lease |-> "none", attention |-> "none",
   phase |-> "idle", operation |-> None, last |-> 0, kind |-> None]

Idle(s) == s.open /\ s.phase = "idle"
Shown(s) == s.open /\ s.unlocked /\ s.phase = "idle"

\* What stops when editing stops.
Stop(s) == IF s.editing THEN {"stop_heartbeat"} ELSE {}

-----------------------------------------------------------------------------
(* Access *)

MayOpen(s) == ~s.open
Open(s) == [s EXCEPT !.open = TRUE]

MayUnlock(s, slot, rights, target) ==
  /\ Idle(s) /\ ~s.unlocked /\ WellFormed(rights)
  /\ s.overlay # None =>
       (s.overlay.changed => target) /\ s.overlay.slot = slot
Unlock(s, slot, rights, lease) ==
  [s EXCEPT !.unlocked = TRUE, !.slot = slot, !.lease = lease,
     !.rights = IF s.overlay # None THEN s.overlay.rights ELSE rights,
     !.attention = IF @ = "reauthenticate" THEN "none" ELSE @]

MayLock(s) == Shown(s)
Lock(s) ==
  [s EXCEPT !.unlocked = FALSE, !.editing = FALSE, !.slot = None, !.rights = {}]
LockEffects(s) == Stop(s) \cup {"clear_display"}

MayClose(s) == s.open /\ s.phase \notin {"publishing", "awaiting_host_action"}
\* Mutant: closing preserves work where an outcome is pending.
PreserveInstead(s) ==
  Stop(s) \cup (IF s.phase = "idle" THEN {} ELSE {"preserve_unsaved_work"})
  \cup (IF s.lease = "held" THEN {"release_lease"} ELSE {})
  \cup (IF s.unlocked THEN {"clear_display"} ELSE {})
CloseEffects(s) ==
  Stop(s)
  \cup (IF s.phase = "idle" THEN {}
        ELSE IF s.kind = "activity_outcome" \/ s.phase = "outcome_pending"
             THEN {"journal_activity_outcome"} ELSE {"preserve_unsaved_work"})
  \cup (IF s.lease = "held" THEN {"release_lease"} ELSE {})
  \cup (IF s.unlocked THEN {"clear_display"} ELSE {})

-----------------------------------------------------------------------------
(* Rights *)

\* The rights of the active slot once a slot change is adopted.
MayRefreshRights(s, rights) == Shown(s) /\ WellFormed(rights)
LosesEdit(s, rights, mayEdit) ==
  s.editing /\ ("edit" \notin rights \/ ~mayEdit)
RefreshRights(s, rights, mayEdit) ==
  [s EXCEPT !.rights = rights,
            !.editing = @ /\ ~LosesEdit(s, rights, mayEdit)]
RefreshEffects(s, rights, mayEdit) ==
  IF LosesEdit(s, rights, mayEdit)
  THEN {"stop_heartbeat", "preserve_unsaved_work"} ELSE {}

\* The rights an observed target grants the active slot.
MayApplyTarget(s, rights) == Shown(s) /\ WellFormed(rights) /\ s.slot # None
ApplyTarget(s, rights, changed) ==
  LET effective == IF changed THEN {} ELSE rights
  IN [s EXCEPT
        !.overlay = [slot |-> s.slot, rights |-> rights, changed |-> changed],
        !.rights = effective,
        !.attention = IF changed THEN "reauthenticate" ELSE @,
        !.unlocked = ~changed,
        !.slot = IF changed THEN None ELSE @,
        !.editing = @ /\ "edit" \in effective]
ApplyTargetEffects(s, rights, changed) ==
  (IF changed THEN {"clear_display"} ELSE {})
  \cup (IF s.editing /\ (changed \/ "edit" \notin rights)
        THEN {"stop_heartbeat", "preserve_unsaved_work"} ELSE {})

MayRaise(s) == Idle(s)
Raise(s, reason) == [s EXCEPT !.attention = reason]

-----------------------------------------------------------------------------
(* Editing *)

MayAcquire(s) == Shown(s) /\ "edit" \in s.rights /\ s.attention = "none"
Acquire(s) == [s EXCEPT !.lease = "held", !.editing = TRUE]
AcquireEffects(s) == IF s.editing THEN {} ELSE {"start_heartbeat"}

\* Mutant: editing may end under a publication.
MayReleaseAnyTime(s) == s.open /\ s.editing
MayRelease(s) == Idle(s) /\ s.editing
Release(s) == [s EXCEPT !.editing = FALSE, !.lease = "none"]
ReleaseEffects == {"stop_heartbeat", "release_lease"}

\* The lease a verified lease candidate leaves; a locked session may only
\* have released it.
MayPublishLease(s, held) == Idle(s) /\ (s.unlocked \/ ~held)
PublishLease(s, held) ==
  [s EXCEPT !.lease = IF held THEN "held" ELSE "none",
            !.editing = held /\ s.unlocked /\ "edit" \in s.rights]
\* Mutant: a released lease leaves the heartbeat running.
StartHeartbeatOnly(s, held) ==
  IF PublishLease(s, held).editing /\ ~s.editing THEN {"start_heartbeat"} ELSE {}
PublishLeaseEffects(s, held) ==
  LET after == PublishLease(s, held)
  IN IF after.editing = s.editing THEN {}
     ELSE IF after.editing THEN {"start_heartbeat"} ELSE {"stop_heartbeat"}

-----------------------------------------------------------------------------
(* Publication: one candidate at a time, named by its operation. *)

MayBegin(s, operation, kind) ==
  /\ s.open /\ (s.unlocked \/ kind = "lease_change")
  /\ s.attention = "none" /\ operation > s.last
  /\ IF kind = "activity_outcome"
     THEN s.phase = "outcome_pending" /\ s.operation # operation
     ELSE s.phase = "idle"
  /\ kind \in {"save", "compaction"} =>
       s.editing /\ "edit" \in s.rights /\ s.lease = "held"
  /\ kind = "compaction" => {"add", "remove"} \subseteq s.rights
  /\ kind = "lease_change" => ~s.unlocked \/ "edit" \in s.rights
Begin(s, operation, kind) ==
  [s EXCEPT !.phase = "publishing", !.operation = operation, !.last = operation,
            !.kind = kind]
BeginEffects == {"reread_target", "journal_candidate", "publish_candidate"}

Cleared(s) == [s EXCEPT !.phase = "idle", !.operation = None, !.kind = None]

\* The host has verified the candidate on the target.
Verified(s) ==
  IF s.kind \in Attempts THEN [s EXCEPT !.phase = "awaiting_host_action"]
  ELSE Cleared(s)
VerifiedEffects(s) ==
  {"adopt_candidate", "clear_journal"}
  \cup (CASE s.kind = "backup_attempt" -> {"perform_backup"}
          [] s.kind = "export_attempt" -> {"perform_export"}
          [] OTHER -> {})

\* Mutant: a failed outcome is forgotten.
RejectedForgets(s) == Cleared(s)
\* The candidate is definitely not on the target.
Rejected(s) ==
  IF s.kind = "activity_outcome" THEN [s EXCEPT !.phase = "outcome_pending"]
  ELSE Cleared(s)
RejectedEffects(s) ==
  IF s.kind = "activity_outcome" THEN {"journal_activity_outcome"}
  ELSE {"clear_journal"}

\* Nobody knows whether it is.
Ambiguous(s) == [s EXCEPT !.phase = "recovery_required"]
AmbiguousEffects == {"recover_candidate"}

MayComplete(s, operation) ==
  s.operation = operation /\ s.phase = "awaiting_host_action"
Complete(s) == [s EXCEPT !.phase = "outcome_pending"]
CompleteEffects(succeeded) ==
  {"journal_activity_outcome",
   IF succeeded THEN "record_success_outcome" ELSE "record_failure_outcome"}

\* A journaled outcome whose attempt is the head of the reopened document.
MayRestore(s, operation, kind) ==
  /\ Shown(s) /\ s.attention = "none" /\ operation > s.last /\ kind \in Attempts
Restore(s, operation, kind) ==
  [s EXCEPT !.phase = "outcome_pending", !.operation = operation,
            !.last = operation, !.kind = kind]
=============================================================================
