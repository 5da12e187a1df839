---------------------------- MODULE NativeContext ----------------------------
(***************************************************************************)
(* The C interface of the container library (context_abi.cpp) and the Node *)
(* addon above it (addon.cpp).  A context has at most one live container.  *)
(* Each function of the interface checks its arguments, finds the handle   *)
(* live, calls the container, and turns what it throws into a status; a    *)
(* refused call changes nothing.  Each method of the addon is the sequence *)
(* of functions it calls, and the first refusal ends it with an exception. *)
(*                                                                         *)
(* Arguments are those the addon has already checked.  Any call that       *)
(* allocates or decrypts may fail, whatever the container would answer.    *)
(* apply_target is not called by the addon and not modelled.               *)
(***************************************************************************)
EXTENDS Container, Sequences

VARIABLES
  active,  \* has the context a live container handle?
  owned,   \* does the addon hold it?
  answer   \* how the last function answered

native == <<active, owned, answer>>

Answers == {"ok", "clear", "invalid_state", "locked", "must_change",
            "stale_operation", "refused"}
Accepted(a) == a \in {"ok", "clear"}

-----------------------------------------------------------------------------
(* Calling the container *)

Refused(a) == answer' = a /\ UNCHANGED <<vars, active, owned>>
Performed(Operation) ==
  Operation /\ answer' = "ok" /\ UNCHANGED <<active, owned>>
Reads(a) == answer' = a /\ UNCHANGED <<vars, active, owned>>

live == active

\* A function that may fail, and one that only the container may refuse.
Calls(Operation) ==
  IF live THEN Performed(Operation) \/ Refused("refused")
  ELSE Refused("invalid_state")
Asks(allowed, Operation) ==
  IF live /\ allowed THEN Performed(Operation) ELSE Refused("invalid_state")

requires_password_change ==
  state.open /\ state.unlocked /\ unlocked # None /\ unlocked.invited

-----------------------------------------------------------------------------
(* The life of a handle *)

scpefe_container_open ==
  IF active THEN Refused("invalid_state")
  ELSE \/ Refused("refused")
       \/ OpenDocument /\ active' = TRUE /\ answer' = "ok" /\ UNCHANGED owned

\* The owner's slot of a new document, which has no other yet.
NewImage(t) ==
  [rights |-> [s \in Slots |-> IF s = Owner THEN AllRights ELSE None],
   invited |-> {}, lease |-> None, provisional |-> FALSE, text |-> t, sealed |-> t,
   attempt |-> None]
\* Mutant: the handle is installed before the owner is unlocked.
CreatedHandleSurvives(t) ==
  IF active THEN Refused("invalid_state")
  ELSE \/ Refused("refused")
       \/ /\ state' = Open(state) /\ committed' = NewImage(t) /\ active' = TRUE
          /\ answer' = "refused"
          /\ UNCHANGED <<target, unlocked, text, generation, operations, outside,
                         duties, raised, owned>>
       \/ /\ state' = Unlock(Open(state), Owner, AllRights, "none")
          /\ committed' = NewImage(t) /\ unlocked' = Decoded(NewImage(t), Owner)
          /\ text' = t /\ active' = TRUE /\ answer' = "ok"
          /\ UNCHANGED <<target, generation, operations, outside, duties, raised,
                         owned>>
\* A new document is opened and unlocked by its owner; if it cannot be
\* unlocked it is closed and released again, and no handle is installed.
scpefe_container_create(t) ==
  IF active THEN Refused("invalid_state")
  ELSE \/ Refused("refused")
       \/ /\ state' = Unlock(Open(state), Owner, AllRights, "none")
          /\ committed' = NewImage(t) /\ unlocked' = Decoded(NewImage(t), Owner)
          /\ text' = t /\ active' = TRUE /\ answer' = "ok"
          /\ UNCHANGED <<target, generation, operations, outside, duties, raised,
                         owned>>

scpefe_container_unlock(slot) == Calls(UnlockDocument(slot))
scpefe_container_lock == Asks(~wedged /\ MayLock(state), LockContainer)
scpefe_container_close ==
  IF live /\ ~wedged /\ MayClose(state)
  THEN CloseContainer /\ active' = FALSE /\ answer' = "ok" /\ UNCHANGED owned
  ELSE Refused("invalid_state")

\* The context is destroyed with all it holds, whatever state that is in.
scpefe_context_destroy ==
  /\ state' = ClosedState /\ committed' = None /\ target' = None
  /\ unlocked' = None /\ text' = None /\ generation' = 0
  /\ candidate' = None /\ activity' = None /\ session' = None
  /\ written' = FALSE /\ raised' = FALSE /\ wedged' = FALSE
  /\ heartbeat' = FALSE /\ display' = FALSE
  /\ active' = FALSE /\ owned' = FALSE /\ answer' = "ok"
  /\ UNCHANGED <<journal, disk>>

-----------------------------------------------------------------------------
(* Reading *)

\* Mutant: text is returned to a slot that must change its password.
ReadsUnclaimed(a) ==
  \/ ~live /\ Reads("invalid_state")
  \/ live /\ ~state.unlocked /\ Reads("locked")
  \/ live /\ state.unlocked /\ (Reads(a) \/ Reads("refused"))
\* Clear content is for an unlocked slot that has claimed its invitation.
ReadsClear(a) ==
  \/ ~live /\ Reads("invalid_state")
  \/ live /\ requires_password_change /\ Reads("must_change")
  \/ live /\ ~requires_password_change /\ ~CanReadClear /\ Reads("locked")
  \/ live /\ ~requires_password_change /\ CanReadClear /\ (Reads(a) \/ Reads("refused"))
scpefe_container_read == ReadsClear("clear")
scpefe_container_revision_graph == ReadsClear("clear")

\* What authenticates a session is for an unlocked slot, claimed or not.
ReadsUnlocked ==
  IF ~live THEN Reads("invalid_state")
  ELSE IF state.unlocked /\ unlocked # None THEN Reads("ok") ELSE Reads("locked")
scpefe_container_authenticated_state == ReadsUnlocked \/ (live /\ Reads("refused"))
scpefe_container_lease_mode == ReadsUnlocked

\* These ask nothing of the session.  The advice compares the observed lease.
ReadsState == IF live THEN Reads("ok") ELSE Reads("invalid_state")
scpefe_container_status == ReadsState
scpefe_container_activity_status == ReadsState
scpefe_container_copy_bytes == ReadsState
scpefe_container_lease_advice ==
  IF live /\ unlocked # None /\ Shown(state) /\ state.attention = "none"
     /\ "edit" \in state.rights /\ ~state.editing /\ ~unlocked.invited
  THEN Reads("ok") ELSE Reads("invalid_state")

\* A context of its own is asked whether what was edited over an older image may
\* be merged into this one by the slot; what the histories say is left open.
scpefe_container_assess_merge(image, slot) ==
  /\ slot \in Present(image) \ image.invited /\ "edit" \in image.rights[slot]

\* The retained candidate is copied for the operation that prepared it.
scpefe_container_copy_candidate(operation) ==
  IF ~live THEN Reads("invalid_state")
  ELSE IF candidate # None /\ candidate.operation = operation THEN Reads("ok")
  ELSE Reads("stale_operation")

-----------------------------------------------------------------------------
(* Editing and candidates *)

scpefe_container_confirm_edit_lease == Calls(ConfirmEditLease)
scpefe_container_submit_content(t) == Calls(SubmitContent(t))
scpefe_container_prepare_save ==
  Calls((\E regular \in BOOLEAN : PrepareSave(regular)) \/ PrepareDiscard)
scpefe_container_prepare_merge == Calls(\E t \in Texts : PrepareMerge(t))
scpefe_container_prepare_compaction == Calls(PrepareCompaction)
scpefe_container_prepare_lease_change ==
  Calls(\/ \E s \in OwnSessions : AcquireLease(s)
        \/ \E s \in OwnSessions, stale \in BOOLEAN : TakeOverLease(s, stale)
        \/ RenewLease \/ ReleaseLease)
scpefe_container_prepare_slot_change ==
  Calls(\/ ChangeOwnSlot \/ ClaimInvitation
        \/ \E s \in Slots, r \in Grants : AddInvitation(s, r) \/ UpdatePermissions(s, r)
        \/ \E s \in Slots : RemoveSlot(s))

scpefe_container_prepare_activity_attempt == Calls(\E k \in Attempts : PrepareAttempt(k))
scpefe_container_prepare_activity_outcome == Calls(PrepareOutcome)
scpefe_container_complete_activity == Calls(\E b \in BOOLEAN : CompleteActivity(b))
scpefe_container_restore_activity_outcome ==
  Calls(\E k \in Attempts, b \in BOOLEAN : RestoreActivity(k, b))

\* What became of the candidate; only its own operation may be settled.
Settles(operation, phase, Operation) ==
  IF live /\ ~wedged /\ candidate # None /\ candidate.operation = operation
     /\ state.phase = phase
  THEN Performed(Operation) ELSE Refused("invalid_state")
scpefe_container_acknowledge_save(operation, outcome) ==
  Settles(operation, "publishing",
    IF outcome = "verified" THEN Adopt
    ELSE IF outcome = "definite-failure" THEN Reject ELSE AcknowledgeAmbiguous)
scpefe_container_resolve_save(operation, published) ==
  Settles(operation, "recovery_required", IF published THEN Adopt ELSE Reject)
=============================================================================
