---------------------------- MODULE NativeSession ----------------------------
(***************************************************************************)
(* The document service's use of its native container                      *)
(* (document-service.mjs, candidate-publication.mjs) through the methods   *)
(* of the Node addon (addon.cpp).  An operation of the service runs one    *)
(* synchronous stretch of calls: todo is what it still calls, and rescue   *)
(* what it does instead once a call is refused, the first time, the second *)
(* time.  Between two stretches the target may change, the service writes  *)
(* its candidate, or the user locks, unlocks and closes the document.  The *)
(* lock itself is two stretches: it first locks the container, then waits  *)
(* for what it overtook, and at last forgets the password.                 *)
(*                                                                         *)
(* There is one target, and one context; what the journal and the working  *)
(* copy hold is Publication's and WorkRecovery's.                          *)
(***************************************************************************)
EXTENDS NativeContext

VARIABLES
  containerTarget,         \* does the service know an open container?
  containerBytes,          \* the image it believes the container has confirmed
  pendingNativeCandidate,  \* the operation it has to settle
  base,                    \* the image its active document was read from
  screen,                  \* no document, an open one, one being locked, a locked one
  slot,                    \* the slot whose password it was given
  overtaken,               \* history: has an operation gone on since the lock?
  todo, rescue

service == <<containerTarget, containerBytes, pendingNativeCandidate>>
view == <<base, screen, slot, overtaken>>
calls == <<todo, rescue>>
allVars == <<vars, native, service, view, calls>>

-----------------------------------------------------------------------------
(* The methods of the addon, as the functions they call.  own and disown    *)
(* are the addon's own assignments to the handle it keeps.                  *)

container_open == <<"open", "own">>
container_create == <<"create", "own", "copy_bytes">>
container_unlock == <<"unlock">>
container_lock == <<"lock">>
container_close == <<"close", "disown">>
container_read == <<"read">>
container_bytes == <<"copy_bytes">>
container_status == <<"status">>
container_lease_mode == <<"lease_mode">>
container_authenticated_lease == <<"authenticated_state">>
container_lease_advice == <<"lease_advice">>
container_activity_status == <<"activity_status">>
container_history_page == <<"revision_graph">>
container_confirm_edit_lease == <<"confirm_edit_lease">>
container_complete_activity == <<"complete_activity">>
container_restore_activity == <<"restore_activity_outcome">>

\* Every preparation ends with a copy of the candidate it retained.
container_prepare_save == <<"submit_content", "prepare_save", "copy_candidate">>
container_prepare_merge == <<"prepare_merge", "copy_candidate">>
container_prepare_compaction == <<"prepare_compaction", "copy_candidate">>
container_prepare_lease_change == <<"prepare_lease_change", "copy_candidate">>
container_prepare_slot_change == <<"prepare_slot_change", "copy_candidate">>
container_prepare_activity(phase) ==
  <<IF phase = "attempt" THEN "prepare_activity_attempt"
    ELSE "prepare_activity_outcome", "copy_candidate">>
container_finish_save(outcome) == <<outcome>>
container_resolve_save(published) == <<IF published THEN "adopt" ELSE "drop">>

\* The number the service gives its next candidate.
Operation == IF candidate # None THEN candidate.operation ELSE None

Call(f) ==
  \/ f = "open" /\ scpefe_container_open
  \/ f = "create" /\ \E t \in Texts : scpefe_container_create(t)
  \/ f = "unlock" /\ scpefe_container_unlock(slot)
  \/ f = "lock" /\ scpefe_container_lock
  \/ f = "close" /\ scpefe_container_close
  \/ f = "read" /\ scpefe_container_read
  \/ f = "copy_bytes" /\ scpefe_container_copy_bytes
  \/ f = "status" /\ scpefe_container_status
  \/ f = "lease_mode" /\ scpefe_container_lease_mode
  \/ f = "authenticated_state" /\ scpefe_container_authenticated_state
  \/ f = "lease_advice" /\ scpefe_container_lease_advice
  \/ f = "activity_status" /\ scpefe_container_activity_status
  \/ f = "revision_graph" /\ scpefe_container_revision_graph
  \/ f = "confirm_edit_lease" /\ scpefe_container_confirm_edit_lease
  \/ f = "submit_content" /\ \E t \in Texts : scpefe_container_submit_content(t)
  \/ f = "prepare_save" /\ scpefe_container_prepare_save
  \/ f = "prepare_merge" /\ scpefe_container_prepare_merge
  \/ f = "prepare_compaction" /\ scpefe_container_prepare_compaction
  \/ f = "prepare_lease_change" /\ scpefe_container_prepare_lease_change
  \/ f = "prepare_slot_change" /\ scpefe_container_prepare_slot_change
  \/ f = "prepare_activity_attempt" /\ scpefe_container_prepare_activity_attempt
  \/ f = "prepare_activity_outcome" /\ scpefe_container_prepare_activity_outcome
  \/ f = "complete_activity" /\ scpefe_container_complete_activity
  \/ f = "restore_activity_outcome" /\ scpefe_container_restore_activity_outcome
  \/ f = "copy_candidate" /\ scpefe_container_copy_candidate(Operation)
  \/ /\ f \in {"verified", "definite-failure", "ambiguous"}
     /\ scpefe_container_acknowledge_save(pendingNativeCandidate, f)
  \/ f = "adopt" /\ scpefe_container_resolve_save(pendingNativeCandidate, TRUE)
  \/ f = "drop" /\ scpefe_container_resolve_save(pendingNativeCandidate, FALSE)

-----------------------------------------------------------------------------
(* Running a stretch of calls *)

Proceed(more) ==
  /\ todo' = more \o Tail(todo)
  /\ rescue' = IF todo' = <<>> THEN <<>> ELSE rescue
Throw ==
  IF rescue = <<>> THEN todo' = <<>> /\ rescue' = <<>>
  ELSE todo' = Head(rescue) /\ rescue' = Tail(rescue)

Functions ==
  {"open", "create", "unlock", "lock", "close", "read", "copy_bytes", "status",
   "lease_mode", "authenticated_state", "lease_advice",
   "activity_status", "revision_graph", "confirm_edit_lease", "submit_content",
   "prepare_save", "prepare_merge", "prepare_compaction", "prepare_lease_change",
   "prepare_slot_change", "prepare_activity_attempt", "prepare_activity_outcome",
   "complete_activity", "restore_activity_outcome", "copy_candidate", "verified",
   "definite-failure", "ambiguous", "adopt", "drop"}
CallFunction ==
  /\ todo # <<>> /\ Head(todo) \in Functions
  /\ Call(Head(todo))
  /\ IF Accepted(answer') THEN Proceed(<<>>) ELSE Throw
  /\ UNCHANGED <<service, view>>

\* The addon keeps the handle it was given, and forgets it once it is closed.
KeepHandle ==
  /\ todo # <<>> /\ Head(todo) \in {"own", "disown"}
  /\ owned' = (Head(todo) = "own") /\ Proceed(<<>>)
  /\ UNCHANGED <<vars, active, answer, service, view>>

\* What the service decides between two calls.
unlockIfLocked == IF state.unlocked THEN <<>> ELSE container_unlock
\* Mutant: the service forgets a container it could not close.
ForgetsContainer == IF containerTarget THEN <<"forget">> ELSE <<>>
closeContainer == IF containerTarget THEN container_close \o <<"forget">> ELSE <<>>
relock == IF state.unlocked THEN container_lock ELSE <<>>
confirmIfReading ==
  IF state.editing /\ state.lease = "held" THEN <<>> ELSE container_confirm_edit_lease
sameImage == containerTarget /\ containerBytes = disk
\* syncNativeLeaseSource, and what the other preparations do instead.  The
\* service remembers the container only once it is unlocked.
reopen == <<"closeContainer">> \o container_open \o container_unlock \o <<"assign">>
syncNativeLeaseSource ==
  IF sameImage THEN container_status \o <<"unlockIfLocked">> ELSE reopen
syncImage == IF sameImage THEN <<>> ELSE reopen
\* What an activity that was cut short still lacks.
missingOutcome ==
  IF activity = None THEN container_history_page \o container_restore_activity
  ELSE IF activity.done = "unknown" THEN container_complete_activity ELSE <<>>
Decisions ==
  [unlockIfLocked |-> unlockIfLocked, closeContainer |-> closeContainer,
   relock |-> relock, confirmIfReading |-> confirmIfReading,
   syncNativeLeaseSource |-> syncNativeLeaseSource, syncImage |-> syncImage,
   missingOutcome |-> missingOutcome]
Decide ==
  /\ todo # <<>> /\ Head(todo) \in DOMAIN Decisions
  /\ Proceed(Decisions[Head(todo)])
  /\ UNCHANGED <<vars, native, service, view>>

\* A context of its own opens an image with a password, reads what it shows that
\* slot, clear content only once the invitation is claimed, and is destroyed.
open_revised_document(image, s) ==
  [slotId |-> s, mustBeChanged |-> s \in image.invited,
   content |-> IF s \in image.invited THEN None ELSE image.text]
ShowsDocument ==
  LET opened == open_revised_document(disk, slot)
  IN unlocked # None /\ unlocked.slot = opened.slotId /\ text = opened.content

\* What the service requires of the container before it goes on.
Requirements ==
  [held |-> state.editing /\ state.lease = "held", source |-> committed = disk,
   unreplaced |-> ~containerTarget \/ sameImage, agrees |-> ShowsDocument]
Require ==
  /\ todo # <<>> /\ Head(todo) \in DOMAIN Requirements
  /\ IF Requirements[Head(todo)] THEN Proceed(<<>>) ELSE Throw
  /\ UNCHANGED <<vars, native, service, view>>

\* The service's assignments.  A new context holds nothing of the old one.
Assigned ==
  LET step == Head(todo)
  IN /\ step \in {"assign", "forget", "track", "untrack", "adopted", "discard"}
     /\ containerTarget' = CASE step = "assign" -> TRUE
                             [] step \in {"forget", "discard"} -> FALSE
                             [] OTHER -> containerTarget
     /\ containerBytes' = CASE step \in {"assign", "adopted"} -> committed
                            [] step \in {"forget", "discard"} -> None
                            [] OTHER -> containerBytes
     /\ pendingNativeCandidate' = CASE step = "assign" -> pendingNativeCandidate
                                    [] step = "track" -> Operation
                                    [] OTHER -> None
     /\ base' = IF step = "adopted" THEN committed ELSE base
     /\ IF step = "discard" THEN scpefe_context_destroy ELSE UNCHANGED <<vars, native>>
Remember ==
  todo # <<>> /\ Assigned /\ Proceed(<<>>) /\ UNCHANGED <<screen, slot, overtaken>>

\* openDocument guards what follows with a catch of its own.
TryOpen ==
  /\ todo # <<>> /\ Head(todo) = "try"
  /\ todo' = Tail(todo)
  /\ rescue' = <<IF containerTarget THEN <<"relock">> ELSE <<"closeContainer">>,
                 <<"discard">>>>
  /\ UNCHANGED <<vars, native, service, view>>
\* The document is shown, being locked, locked or closed; a created one is written.
Settle ==
  /\ todo # <<>> /\ Head(todo) \in {"shown", "locking", "locked", "closed", "created"}
  /\ screen' = CASE Head(todo) = "shown" -> "open"
                 [] Head(todo) \in {"locking", "locked"} -> Head(todo)
                 [] OTHER -> "none"
  /\ base' = CASE Head(todo) = "shown" -> disk [] Head(todo) = "locking" -> base
               [] OTHER -> None
  /\ slot' = IF Head(todo) \in {"shown", "locking"} THEN slot ELSE None
  /\ overtaken' = (overtaken /\ Head(todo) = "locked")
  /\ disk' = IF Head(todo) = "created" THEN committed ELSE disk
  /\ Proceed(<<>>)
  /\ UNCHANGED <<state, document, operations, written, duties, raised, native, service>>

-----------------------------------------------------------------------------
(* The operations of the service *)

Run(program, onThrow) ==
  /\ todo = <<>> /\ todo' = program /\ rescue' = onThrow
  /\ UNCHANGED <<vars, native, service>>

createDocument ==
  /\ screen = "none"
  /\ \E ending \in {<<"created">>, <<"closeContainer">>} :
       Run(container_create \o <<"assign">> \o ending, <<>>)
  /\ UNCHANGED view

\* The password has been found to open the target (inspectDocument); the
\* native container must then agree.
openDocument(s) ==
  /\ screen \in {"none", "locked"} /\ s \in Present(disk)
  /\ Run((IF sameImage THEN <<>> ELSE <<"closeContainer">>) \o <<"try">>
         \o (IF sameImage /\ pendingNativeCandidate # None
             THEN container_finish_save("definite-failure") \o <<"untrack">> ELSE <<>>)
         \o (IF sameImage THEN container_status \o <<"unlockIfLocked">>
             ELSE container_open \o <<"assign">> \o container_unlock)
         \o (IF open_revised_document(disk, s).mustBeChanged THEN <<>>
             ELSE container_read \o <<"agrees">>)
         \o <<"shown">>, <<>>)
  /\ slot' = s /\ UNCHANGED <<base, screen, overtaken>>

\* An operation goes on while its document is open, or being locked: the lock
\* does not stop what has been queued or is reading the target, and the password
\* is still there.
CarryOn(program, onThrow) ==
  /\ Run(program, onThrow)
  /\ overtaken' = (overtaken \/ screen # "open") /\ UNCHANGED <<base, screen>>
Asking(program) ==
  screen \in {"open", "locking"} /\ CarryOn(program, <<>>) /\ UNCHANGED slot
\* What it may prepare, while nothing else is pending.
Preparing(program) == pendingNativeCandidate = None /\ Asking(program \o <<"track">>)
LeaseSource == <<"unreplaced", "syncNativeLeaseSource">> \o container_lease_mode
prepareSaveCandidate ==
  disk = base /\ Preparing(LeaseSource \o <<"held">> \o container_prepare_save)
prepareSlotCandidate ==
  disk = base /\ Preparing(<<"syncImage">> \o container_prepare_slot_change)
prepareMergeResolution ==
  /\ disk # base /\ disk.lease \in OwnSessions
  /\ scpefe_container_assess_merge(disk, slot)
  /\ Preparing(<<"syncImage">> \o container_lease_mode \o <<"confirmIfReading">>
               \o container_prepare_merge)
publishNativeLease ==
  Preparing(<<"syncNativeLeaseSource">> \o container_bytes \o <<"source">>
            \o container_prepare_lease_change)
compactHistory ==
  disk = base /\ Preparing(LeaseSource \o <<"held">> \o container_prepare_compaction)
\* The password of a slot is changed with the one the user types, also after
\* the lock has ended; every other operation is refused for want of a password.
changePasswordLate(s) ==
  /\ screen = "locked" /\ s \in Present(disk) /\ pendingNativeCandidate = None
  /\ CarryOn(<<"syncImage">> \o container_prepare_slot_change \o <<"track", "locked">>,
            <<<<"locked">>>>)
  /\ slot' = s
\* An activity asks for a document that is not being locked.
publishActivity(phase) ==
  /\ screen = "open" /\ disk = base /\ containerBytes = disk
  /\ Preparing(container_prepare_activity(phase))
completeActivity == screen = "open" /\ Asking(container_complete_activity)
restoreActivity ==
  /\ screen = "open" /\ disk = base
  /\ Asking(container_activity_status \o <<"missingOutcome">>)
\* An acquisition that is refused once it has been advised, or has seen the lock.
acquireLease ==
  Asking(<<"syncNativeLeaseSource">> \o container_authenticated_lease
         \o container_lease_advice)

\* Publication writes the candidate over its base and reports the outcome.
publishCandidate ==
  /\ todo = <<>> /\ pendingNativeCandidate # None
  /\ WriteCandidate /\ UNCHANGED <<native, service, view, calls>>
Reporting(program) ==
  /\ pendingNativeCandidate # None /\ Run(program, <<>>) /\ UNCHANGED view
finishSave ==
  \/ written /\ Reporting(container_finish_save("verified") \o container_bytes
                          \o <<"adopted">>)
  \/ ~written /\ Reporting(container_finish_save("definite-failure") \o <<"untrack">>)
  \/ Reporting(container_finish_save("ambiguous"))
resolveSave ==
  \/ written /\ Reporting(container_resolve_save(TRUE) \o container_bytes
                          \o <<"adopted">>)
  \/ ~written /\ Reporting(container_resolve_save(FALSE) \o <<"untrack">>)

lockOrClose ==
  IF ~containerTarget THEN <<>>
  ELSE IF pendingNativeCandidate # None THEN <<"closeContainer">> ELSE container_lock
\* Mutant: a container that can be neither locked nor closed is left alone.
LockWithoutDiscard ==
  /\ screen = "open" /\ UNCHANGED view
  /\ Run(lockOrClose \o <<"locking">>,
         <<<<"closeContainer", "locking">>, <<"locking">>>>)
\* The container is locked, or else closed, or else thrown away; then the lock
\* waits for acquisitions, the heartbeat and the flush of the text.
finishLock ==
  /\ screen = "open" /\ UNCHANGED view
  /\ Run(lockOrClose \o <<"locking">>,
         <<<<"closeContainer", "locking">>, <<"discard", "locking">>>>)
\* A lease held at the lock is prepared for its release, unless the container
\* shows another image or has another candidate.
prepareSuspendedLeaseRelease ==
  IF containerTarget /\ containerBytes = base /\ base.lease \in OwnSessions
     /\ pendingNativeCandidate = None
  THEN container_prepare_lease_change \o <<"track">> ELSE <<>>
\* Then the session is forgotten with its password, also when that preparation
\* fails; there is none without a lease or over a pending publication.
clearSession ==
  /\ screen = "locking" /\ UNCHANGED view
  /\ \E release \in {prepareSuspendedLeaseRelease, <<>>} :
       Run(release \o <<"locked">>, <<<<"locked">>>>)
closeDocument ==
  /\ screen = "locked"
  /\ Run(<<"closeContainer", "closed">>, <<>>) /\ UNCHANGED view

\* Another client changes the text of the target.
foreignWrite ==
  /\ todo = <<>>
  /\ \E t \in Texts : disk' = [disk EXCEPT !.text = t, !.sealed = t, !.provisional = FALSE]
  /\ UNCHANGED <<state, document, operations, written, duties, raised, native, service,
                 view, calls>>

InitSession ==
  /\ Init /\ active = FALSE /\ owned = FALSE /\ answer = "ok"
  /\ containerTarget = FALSE /\ containerBytes = None /\ pendingNativeCandidate = None
  /\ base = None /\ screen = "none" /\ slot = None /\ overtaken = FALSE
  /\ todo = <<>> /\ rescue = <<>>

Running == CallFunction \/ KeepHandle \/ Decide \/ Require \/ Remember \/ TryOpen \/ Settle
Starting ==
  \/ createDocument \/ \E s \in Slots : openDocument(s)
  \/ prepareSaveCandidate \/ prepareSlotCandidate \/ prepareMergeResolution
  \/ publishNativeLease \/ compactHistory
  \/ \E phase \in {"attempt", "outcome"} : publishActivity(phase)
  \/ completeActivity \/ restoreActivity \/ acquireLease
  \/ publishCandidate \/ finishSave \/ resolveSave
  \/ finishLock \/ clearSession \/ \E s \in Slots : changePasswordLate(s)
  \/ closeDocument \/ foreignWrite

NextSession == Running \/ Starting
SpecSession == InitSession /\ [][NextSession]_allVars

-----------------------------------------------------------------------------
(* Properties *)

\* Between two operations the layers agree on what there is: the context has a
\* handle just while a container is open, the addon holds just that handle, the
\* service knows no container but that one, at the image it has confirmed, and
\* the operation it has to settle is the retained candidate's.
LayersAgree ==
  todo = <<>> =>
    /\ active = state.open /\ owned = active
    /\ containerTarget => active /\ containerBytes = committed
    /\ pendingNativeCandidate = Operation

\* Once a document's lock has run its first stretch, also when the container could
\* be neither locked nor closed, the native container is locked or gone, and what
\* the lock does at its end and a failed attempt to unlock leave it so; only an
\* operation the lock has overtaken unlocks it again (finishLock, openActiveContainer).
LockedIsLocked ==
  screen \in {"locking", "locked"} /\ todo = <<>> /\ ~overtaken => ~state.unlocked

\* Clear text and history are only ever answered to an unlocked slot
\* that has claimed its invitation (context_abi.cpp).
ClearIsAuthenticated ==
  answer = "clear" => state.open /\ state.unlocked /\ ~unlocked.invited

\* A password that opens the target unlocks the document: the native container
\* then shows that slot the target's text, where no overtaken operation has left
\* the container unlocked for another slot (openActiveContainer).
UnlockShowsDocument ==
  todo # <<>> /\ Head(todo) = "agrees" /\ ~overtaken => ShowsDocument
=============================================================================
