------------------------- MODULE NativeSessionProofs -------------------------
(***************************************************************************)
(* Three things the service may rely on, for every set of slots, rights,   *)
(* texts and sessions and any number of calls, whichever are refused.      *)
(*                                                                         *)
(* Clear text is only ever answered to an authenticated session: this      *)
(* invariant is inductive by itself.                                       *)
(*                                                                         *)
(* The layers agree between two operations, and a document being locked or *)
(* locked has its container locked unless an operation the lock has        *)
(* overtaken went on.  Within an operation they need not: the invariant of *)
(* these says what each step of a stretch still finds undone, and that the *)
(* stretches the service runs have every such step followed by the one     *)
(* that mends it, also where the service puts calls in or falls back on    *)
(* others.                                                                 *)
(***************************************************************************)
EXTENDS NativeSession, SequenceTheorems, TLAPS

-----------------------------------------------------------------------------
(* Clear text *)

\* A reading function answers with clear text only to a claimed, unlocked slot,
\* and leaves that slot unlocked.
LEMMA ReadsClearly ==
  ASSUME ReadsClear("clear") PROVE ClearIsAuthenticated'
<1>1. ASSUME answer' = "clear"
      PROVE  CanReadClear /\ UNCHANGED vars
  BY <1>1 DEF ReadsClear, Reads
<1> QED BY <1>1 DEF ClearIsAuthenticated, CanReadClear, vars, document

\* The functions that open, unlock, lock, close or ask about the container
\* answer no clear text.
LEMMA LifeAnswers ==
  ASSUME NEW f,
         \/ f = "open" /\ scpefe_container_open
         \/ f = "create" /\ \E t \in Texts : scpefe_container_create(t)
         \/ f = "unlock" /\ scpefe_container_unlock(slot)
         \/ f = "lock" /\ scpefe_container_lock
         \/ f = "close" /\ scpefe_container_close
         \/ f = "copy_bytes" /\ scpefe_container_copy_bytes
         \/ f = "status" /\ scpefe_container_status
         \/ f = "lease_mode" /\ scpefe_container_lease_mode
         \/ f = "authenticated_state" /\ scpefe_container_authenticated_state
         \/ f = "lease_advice" /\ scpefe_container_lease_advice
         \/ f = "activity_status" /\ scpefe_container_activity_status
         \/ f = "copy_candidate" /\ scpefe_container_copy_candidate(Operation)
  PROVE  answer' # "clear"
<1>1. scpefe_container_open => answer' # "clear"
  BY DEF scpefe_container_open, Refused
<1>2. ASSUME NEW t \in Texts PROVE scpefe_container_create(t) => answer' # "clear"
  BY DEF scpefe_container_create, Refused
<1>3. scpefe_container_unlock(slot) => answer' # "clear"
  BY DEF scpefe_container_unlock, Calls, Performed, Refused
<1>4. scpefe_container_lock => answer' # "clear"
  BY DEF scpefe_container_lock, Asks, Performed, Refused
<1>5. scpefe_container_close => answer' # "clear"
  BY DEF scpefe_container_close, Refused
<1>6. /\ scpefe_container_copy_bytes => answer' # "clear"
      /\ scpefe_container_status => answer' # "clear"
      /\ scpefe_container_activity_status => answer' # "clear"
  BY DEF scpefe_container_copy_bytes, scpefe_container_status,
         scpefe_container_activity_status, ReadsState, Reads
<1>7. /\ scpefe_container_lease_mode => answer' # "clear"
      /\ scpefe_container_authenticated_state => answer' # "clear"
  BY DEF scpefe_container_lease_mode, scpefe_container_authenticated_state,
         ReadsUnlocked, Reads
<1>8. /\ scpefe_container_lease_advice => answer' # "clear"
      /\ scpefe_container_copy_candidate(Operation) => answer' # "clear"
  BY DEF scpefe_container_lease_advice,
         scpefe_container_copy_candidate, Reads
<1> QED BY <1>1, <1>2, <1>3, <1>4, <1>5, <1>6, <1>7, <1>8

\* Nor do the functions that prepare, publish or settle.
LEMMA ChangesAnswer ==
  ASSUME NEW f,
         \/ f = "confirm_edit_lease" /\ scpefe_container_confirm_edit_lease
         \/ f = "submit_content" /\ \E t \in Texts : scpefe_container_submit_content(t)
         \/ f = "prepare_save" /\ scpefe_container_prepare_save
         \/ f = "prepare_merge" /\ scpefe_container_prepare_merge
         \/ f = "prepare_compaction" /\ scpefe_container_prepare_compaction
         \/ f = "prepare_lease_change" /\ scpefe_container_prepare_lease_change
         \/ f = "prepare_slot_change" /\ scpefe_container_prepare_slot_change
         \/ f = "prepare_activity_attempt" /\ scpefe_container_prepare_activity_attempt
         \/ f = "prepare_activity_outcome" /\ scpefe_container_prepare_activity_outcome
         \/ f = "complete_activity" /\ scpefe_container_complete_activity
         \/ f = "restore_activity_outcome" /\ scpefe_container_restore_activity_outcome
         \/ /\ f \in {"verified", "definite-failure", "ambiguous"}
            /\ scpefe_container_acknowledge_save(pendingNativeCandidate, f)
         \/ f = "adopt" /\ scpefe_container_resolve_save(pendingNativeCandidate, TRUE)
         \/ f = "drop" /\ scpefe_container_resolve_save(pendingNativeCandidate, FALSE)
  PROVE  answer' # "clear"
<1>1. scpefe_container_confirm_edit_lease => answer' # "clear"
  BY DEF scpefe_container_confirm_edit_lease, Calls, Performed, Refused
<1>2. ASSUME NEW t \in Texts
      PROVE  scpefe_container_submit_content(t) => answer' # "clear"
  BY DEF scpefe_container_submit_content, Calls, Performed, Refused
<1>3. scpefe_container_prepare_save => answer' # "clear"
  BY DEF scpefe_container_prepare_save, Calls, Performed, Refused
<1>4. scpefe_container_prepare_merge => answer' # "clear"
  BY DEF scpefe_container_prepare_merge, Calls, Performed, Refused
<1>5. scpefe_container_prepare_compaction => answer' # "clear"
  BY DEF scpefe_container_prepare_compaction, Calls, Performed, Refused
<1>6. scpefe_container_prepare_lease_change => answer' # "clear"
  BY DEF scpefe_container_prepare_lease_change, Calls, Performed, Refused
<1>7. scpefe_container_prepare_slot_change => answer' # "clear"
  BY DEF scpefe_container_prepare_slot_change, Calls, Performed, Refused
<1>8. /\ scpefe_container_prepare_activity_attempt => answer' # "clear"
      /\ scpefe_container_prepare_activity_outcome => answer' # "clear"
  BY DEF scpefe_container_prepare_activity_attempt,
         scpefe_container_prepare_activity_outcome, Calls, Performed, Refused
<1>9. /\ scpefe_container_complete_activity => answer' # "clear"
      /\ scpefe_container_restore_activity_outcome => answer' # "clear"
  BY DEF scpefe_container_complete_activity,
         scpefe_container_restore_activity_outcome, Calls, Performed, Refused
<1>10. scpefe_container_acknowledge_save(pendingNativeCandidate, f)
         => answer' # "clear"
  BY DEF scpefe_container_acknowledge_save, Settles, Performed, Refused
<1>11. ASSUME NEW published \in BOOLEAN
       PROVE  scpefe_container_resolve_save(pendingNativeCandidate, published)
                => answer' # "clear"
  BY DEF scpefe_container_resolve_save, Settles, Performed, Refused
<1> QED BY <1>1, <1>2, <1>3, <1>4, <1>5, <1>6, <1>7, <1>8, <1>9, <1>10, <1>11

\* Whatever is called, clear text is answered to such a session.
LEMMA CallKeepsClear ==
  ASSUME NEW f, Call(f) PROVE ClearIsAuthenticated'
<1>1. CASE scpefe_container_read \/ scpefe_container_revision_graph
  BY <1>1, ReadsClearly DEF scpefe_container_read, scpefe_container_revision_graph
<1>2. CASE ~(scpefe_container_read \/ scpefe_container_revision_graph)
  <2>1. answer' # "clear"
    BY <1>2, LifeAnswers, ChangesAnswer DEF Call
  <2> QED BY <2>1 DEF ClearIsAuthenticated
<1> QED BY <1>1, <1>2

\* Steps that call nothing leave the session and the last answer.
LEMMA StillClear ==
  ASSUME ClearIsAuthenticated, UNCHANGED <<state, unlocked, answer>>
  PROVE  ClearIsAuthenticated'
BY DEF ClearIsAuthenticated

\* No step makes it otherwise.
LEMMA NextKeepsClear ==
  ASSUME ClearIsAuthenticated, NextSession PROVE ClearIsAuthenticated'
<1>1. CASE CallFunction
  BY <1>1, CallKeepsClear DEF CallFunction
<1>2. CASE Remember
  <2>1. CASE UNCHANGED <<vars, native>>
    BY <2>1, StillClear DEF vars, document, native
  <2>2. CASE scpefe_context_destroy
    BY <2>2 DEF scpefe_context_destroy, ClearIsAuthenticated
  <2> QED BY <1>2, <2>1, <2>2 DEF Remember, Assigned
<1>3. CASE KeepHandle \/ Decide \/ Require \/ TryOpen
  BY <1>3, StillClear DEF KeepHandle, Decide, Require, TryOpen, vars, document, native
<1>4. CASE Settle
  BY <1>4, StillClear DEF Settle, document, native
<1>5. CASE publishCandidate
  BY <1>5, StillClear DEF publishCandidate, WriteCandidate, document, native
<1>6. CASE foreignWrite
  BY <1>6, StillClear DEF foreignWrite, document, native
<1>7. CASE Starting /\ ~publishCandidate /\ ~foreignWrite
  <2>1. UNCHANGED <<vars, native>>
    BY <1>7
       DEF Starting, createDocument, openDocument, prepareSaveCandidate,
           prepareSlotCandidate, prepareMergeResolution, publishNativeLease,
           compactHistory, publishActivity, completeActivity, restoreActivity,
           acquireLease, finishSave, resolveSave, finishLock, clearSession,
           changePasswordLate, closeDocument, Preparing, Asking, CarryOn,
           Reporting, Run
  <2> QED BY <2>1, StillClear DEF vars, document, native
<1> QED BY <1>1, <1>2, <1>3, <1>4, <1>5, <1>6, <1>7 DEF NextSession, Running

\* Clear text and history are only ever answered to an unlocked slot
\* that has claimed its invitation, whatever the service calls in whatever
\* order and whichever calls fail (context_abi.cpp, document-service.mjs).
THEOREM ClearStaysAuthenticated == SpecSession => []ClearIsAuthenticated
<1>1. InitSession => ClearIsAuthenticated
  BY DEF InitSession, ClearIsAuthenticated
<1>2. ClearIsAuthenticated /\ [NextSession]_allVars => ClearIsAuthenticated'
  <2>1. CASE NextSession
    BY <2>1, NextKeepsClear
  <2>2. CASE UNCHANGED allVars
    BY <2>2, StillClear DEF allVars, vars, document, native
  <2> QED BY <2>1, <2>2
<1> QED BY <1>1, <1>2, PTL DEF SpecSession

-----------------------------------------------------------------------------
(***************************************************************************)
(* The order of the calls.  Some steps are only due after another: after a *)
(* container is closed the addon drops its handle and the service forgets  *)
(* it.  While one is due the layers disagree in the way it will mend.      *)
(***************************************************************************)

Step(p, k) == IF k \in 1 .. Len(p) THEN p[k] ELSE "end"

Preparations ==
  {"prepare_save", "prepare_merge", "prepare_compaction", "prepare_lease_change",
   "prepare_slot_change", "prepare_activity_attempt", "prepare_activity_outcome"}
Dues ==
  {"own", "disown", "forget", "copy_candidate", "track", "untrack", "adopted", "assign"}

\* Is step a, before b, due?
Due(a, b) == a \in Dues \/ (a = "copy_bytes" /\ b \in {"adopted", "assign"})
\* What may come when the layers agree.
Plain(a, b) ==
  /\ ~Due(a, b) /\ a \notin {"locking", "status", "unlockIfLocked", "definite-failure"}
  /\ a = "unlock" => b = "assign"
  /\ a = "try" => b \notin {"status", "definite-failure"}

\* What may come after step a.
Follows(a, b, c) ==
  CASE a = "open" -> b = "own" /\ c \in {"unlock", "assign"}
    [] a = "create" -> b = "own" /\ c = "copy_bytes"
    [] a = "own" -> b = "assign" \/ (b \in {"copy_bytes", "unlock"} /\ c = "assign")
    [] a = "close" -> b = "disown"
    [] a = "disown" -> b = "forget"
    [] a \in Preparations -> b = "copy_candidate"
    [] a = "copy_candidate" -> b = "track"
    [] a \in {"verified", "adopt"} -> b = "copy_bytes" /\ c = "adopted"
    [] a = "definite-failure" -> b = "untrack" /\ c \in {"status", "end"}
    [] a = "drop" -> b = "untrack" /\ c = "end"
    [] a = "untrack" -> b = "status" \/ Plain(b, c)
    [] a = "try" -> b \in {"status", "definite-failure"} \/ Plain(b, c)
    [] a = "status" -> b = "unlockIfLocked"
    [] a = "copy_bytes" -> b \in {"adopted", "assign"} \/ Plain(b, c)
    [] a = "unlock" -> b = "assign" \/ Plain(b, c)
    [] a = "assign" -> b = "unlock" \/ Plain(b, c)
    [] a \in {"closeContainer", "forget", "lock", "discard"} -> b = "locking" \/ Plain(b, c)
    [] OTHER -> Plain(b, c)

Steps ==
  Functions \cup
  {"own", "disown", "unlockIfLocked", "closeContainer", "relock", "confirmIfReading",
   "syncNativeLeaseSource", "syncImage", "missingOutcome", "held", "source", "unreplaced",
   "agrees", "assign", "forget", "track", "untrack", "adopted", "discard", "try", "shown",
   "locking", "locked", "closed", "created"}
\* What ends a stretch.
Endings == {"shown", "locking", "locked", "closed", "created"}
\* A stretch of calls as the service makes them.
Legal(p) ==
  /\ p \in Seq(Steps)
  /\ \A i \in 1 .. Len(p) :
       /\ Follows(Step(p, i), Step(p, i + 1), Step(p, i + 2))
       /\ p[i] \in Endings => i = Len(p)

-----------------------------------------------------------------------------
(* What the layers know at each step *)

Agreed ==
  /\ owned = active /\ (containerTarget => active /\ containerBytes = committed)
  /\ pendingNativeCandidate = Operation
  /\ containerTarget \/ ~state.unlocked

\* Steps taken only while the service knows its container.
Knows(a, b, c) ==
  \/ a = "unlockIfLocked" \/ (a = "status" /\ b = "unlockIfLocked")
  \/ (a = "untrack" /\ b = "status") \/ (a = "definite-failure" /\ c = "status")
  \/ (a = "try" /\ b \in {"status", "definite-failure"})
  \/ (a = "unlock" /\ b # "assign")

Expects(a, b, c) ==
  /\ ~Due(a, b) => Agreed
  /\ Knows(a, b, c) => containerTarget
  /\ a = "locking" => ~state.unlocked
  /\ a = "own" =>
       /\ active /\ ~containerTarget /\ pendingNativeCandidate = Operation
       /\ b = "unlock" => ~state.unlocked
  /\ a = "disown" => ~active
  /\ a = "forget" => ~active /\ ~owned
  /\ a \in {"copy_candidate", "track", "untrack"} =>
       /\ owned = active /\ (containerTarget => active /\ containerBytes = committed)
       /\ containerTarget \/ ~state.unlocked
  /\ a \in {"copy_candidate", "track"} => active /\ pendingNativeCandidate = None
  /\ a = "untrack" => candidate = None
  /\ a = "adopted" \/ (a = "copy_bytes" /\ b = "adopted") =>
       /\ active /\ owned /\ candidate = None
       /\ containerTarget \/ ~state.unlocked
  /\ a = "assign" \/ (a = "copy_bytes" /\ b = "assign") =>
       active /\ owned /\ pendingNativeCandidate = Operation

\* What the service falls back on: openDocument, finishLock, and clearSession.
Guarded == rescue \in {<<<<"relock">>, <<"discard">>>>, <<<<"closeContainer">>, <<"discard">>>>}
Rescues ==
  {<<>>, <<<<"relock">>, <<"discard">>>>, <<<<"closeContainer">>, <<"discard">>>>,
   <<<<"discard">>>>,
   <<<<"closeContainer", "locking">>, <<"discard", "locking">>>>, <<<<"discard", "locking">>>>,
   <<<<"locked">>>>}

\* What openDocument catches ends with the document shown.
Shows(p) == Len(p) > 0 /\ p[Len(p)] = "shown"
Tries(p) == \E i \in 1 .. Len(p) : p[i] = "try"
ShowsInEnd == Guarded \/ Tries(todo) => Shows(todo)

\* A lock ends only one that has begun.
Locks(p) == \E i \in 1 .. Len(p) : p[i] = "locked"
LocksOnly == Locks(todo) \/ rescue = <<<<"locked">>>> => screen \in {"locking", "locked"}

\* A locked document that no overtaken operation has touched is unlocked only under
\* openDocument's own catch, ...
Shut == screen \in {"locking", "locked"} /\ ~overtaken
Unlocking == {"create", "unlock", "unlockIfLocked", "syncNativeLeaseSource", "syncImage"}
TriesFirst(p) ==
  \A i \in 1 .. Len(p) : p[i] \in Unlocking => \E j \in 1 .. i - 1 : p[j] = "try"
UnlocksGuarded == Shut /\ ~Guarded => TriesFirst(todo)
\* ... which shows the document, or locks, closes or discards the container.
LocksAgain ==
  Shut /\ state.unlocked =>
    \/ Guarded
    \/ /\ rescue = <<<<"discard">>>>
       /\ Step(todo, 1) \in {"relock", "lock", "closeContainer", "close"}
    \/ Step(todo, 1) = "discard" /\ rescue = <<>>

Lived ==
  /\ DOMAIN state = DOMAIN ClosedState /\ active = state.open
  /\ active \in BOOLEAN /\ owned \in BOOLEAN
  /\ ~active => candidate = None /\ ~state.unlocked

\* The step to come finds what it expects; and what is caught stays guarded.
InStep == Legal(todo) /\ Expects(Step(todo, 1), Step(todo, 2), Step(todo, 3))
Caught ==
  rescue \in Rescues /\ ShowsInEnd /\ LocksOnly /\ UnlocksGuarded /\ LocksAgain

LayersInv == Lived /\ InStep /\ Caught

-----------------------------------------------------------------------------
(* What the functions do to the container *)

\* The container stays as open as it was, and no slot is unlocked.
Stays ==
  /\ DOMAIN state' = DOMAIN ClosedState /\ state'.open = state.open
  /\ state'.unlocked => state.unlocked
Same == committed' = committed /\ candidate' = candidate

\* Nothing but unlocking unlocks: every other transition leaves the container open
\* and a locked one locked.
LEMMA TransitionsStay ==
  ASSUME NEW s, DOMAIN s = DOMAIN ClosedState,
         NEW n, NEW k, NEW r, NEW b, NEW t,
         t \in {Lock(s), Acquire(s), Begin(s, n, k), Cleared(s), Verified(s), Rejected(s),
                Ambiguous(s), Complete(s), Restore(s, n, k), RefreshRights(s, r, b),
                PublishLease(s, b)}
  PROVE  /\ DOMAIN t = DOMAIN ClosedState /\ t.open = s.open
         /\ t.unlocked => s.unlocked
BY DEF ClosedState, Lock, Acquire, Begin, Cleared, Verified, Rejected, Ambiguous, Complete,
       Restore, RefreshRights, PublishLease

\* What every preparation does.
LEMMA ProposesOne ==
  ASSUME Lived, NEW change, NEW kind, NEW image, NEW removes, NEW after,
         Propose(change, kind, image, removes, after)
  PROVE  Stays /\ committed' = committed
<1>1. state' = Begin(state, NextOperation, kind) /\ committed' = committed
  BY DEF Propose
<1>. QED BY <1>1, TransitionsStay DEF Lived, Stays

\* A preparation begins without a candidate.
LEMMA Prepares ==
  ASSUME Lived,
         \/ (\E regular \in BOOLEAN : PrepareSave(regular)) \/ PrepareDiscard
         \/ \E t \in Texts : PrepareMerge(t)
         \/ PrepareCompaction
         \/ \E s \in OwnSessions : AcquireLease(s)
         \/ \E s \in OwnSessions, stale \in BOOLEAN : TakeOverLease(s, stale)
         \/ RenewLease \/ ReleaseLease
         \/ ChangeOwnSlot \/ ClaimInvitation
         \/ \E s \in Slots, r \in Grants : AddInvitation(s, r) \/ UpdatePermissions(s, r)
         \/ \E s \in Slots : RemoveSlot(s)
         \/ \E k \in Attempts : PrepareAttempt(k)
         \/ PrepareOutcome
  PROVE  Stays /\ committed' = committed /\ candidate = None
<1>1. \E change, kind, image, removes, after : Propose(change, kind, image, removes, after)
  BY DEF PrepareSave, PrepareDiscard, PrepareMerge, PrepareCompaction, AcquireLease,
         TakeOverLease, RenewLease, ReleaseLease, PrepareLease, ChangeOwnSlot,
         ClaimInvitation, AddInvitation, UpdatePermissions, RemoveSlot, PrepareSlots,
         PrepareAttempt, PrepareOutcome, Retain
<1>2. candidate = None
  BY DEF PrepareSave, PrepareDiscard, PrepareMerge, PrepareCompaction, AcquireLease,
         TakeOverLease, RenewLease, ReleaseLease, PrepareLease, ChangeOwnSlot,
         ClaimInvitation, AddInvitation, UpdatePermissions, RemoveSlot, PrepareSlots,
         PrepareAttempt, PrepareOutcome, MayEdit, Ready
<1>. QED BY <1>1, <1>2, ProposesOne

\* An adoption ends the candidate, whatever follows it up.
LEMMA AdoptEnds ==
  ASSUME Lived, Adopt PROVE Stays /\ candidate' = None
<1>. DEFINE settled == Verified(state)
            next == FollowUp(settled)
<1>1. DOMAIN settled = DOMAIN ClosedState /\ settled.open = state.open
      /\ (settled.unlocked => state.unlocked)
  BY TransitionsStay DEF Lived
<1>. HIDE DEF settled
<1>2. PICK r, b : next.state \in {Lock(settled), RefreshRights(settled, r, b),
                                  PublishLease(settled, b), settled}
  BY DEF FollowUp
<1>3. DOMAIN next.state = DOMAIN ClosedState /\ next.state.open = settled.open
      /\ (next.state.unlocked => settled.unlocked)
  BY <1>1, <1>2, TransitionsStay
<1>4. state' \in {next.state, settled} /\ candidate' = None
  BY DEF Adopt, settled
<1>. QED BY <1>1, <1>3, <1>4 DEF Stays

\* The other outcomes of a publication, and the functions that edit.
LEMMA EditsStay ==
  ASSUME Lived
  PROVE  /\ Reject => Stays /\ candidate' = None /\ committed' = committed
         /\ AcknowledgeAmbiguous => Stays /\ Same
         /\ ConfirmEditLease => Stays /\ Same
         /\ \A t \in Texts : SubmitContent(t) => Stays /\ Same
         /\ \A b \in BOOLEAN : CompleteActivity(b) => Stays /\ Same
         /\ \A k \in Attempts, b \in BOOLEAN : RestoreActivity(k, b) => Stays /\ Same
<1>1. Reject => Stays /\ candidate' = None /\ committed' = committed
  <2>. SUFFICES ASSUME Reject
                PROVE  Stays /\ candidate' = None /\ committed' = committed
    OBVIOUS
  <2>1. state' = Rejected(state) /\ candidate' = None /\ committed' = committed
    BY DEF Reject, document
  <2>. QED BY <2>1, TransitionsStay DEF Stays, Lived
<1>2. AcknowledgeAmbiguous => Stays /\ Same
  <2>. SUFFICES ASSUME AcknowledgeAmbiguous PROVE Stays /\ Same
    OBVIOUS
  <2>1. state' = Ambiguous(state) /\ Same
    BY DEF AcknowledgeAmbiguous, document, operations, Same
  <2>. QED BY <2>1, TransitionsStay DEF Stays, Lived
<1>3. ConfirmEditLease => Stays /\ Same
  <2>. SUFFICES ASSUME ConfirmEditLease PROVE Stays /\ Same
    OBVIOUS
  <2>1. state' = Acquire(state) /\ Same
    BY DEF ConfirmEditLease, document, operations, Same
  <2>. QED BY <2>1, TransitionsStay DEF Stays, Lived
<1>4. ASSUME NEW t \in Texts, SubmitContent(t) PROVE Stays /\ Same
  BY <1>4 DEF SubmitContent, Stays, Same, Lived, operations
<1>5. ASSUME NEW b \in BOOLEAN, CompleteActivity(b) PROVE Stays /\ Same
  <2>1. state' = Complete(state) /\ Same
    BY <1>5 DEF CompleteActivity, document, Same
  <2>. QED BY <2>1, TransitionsStay DEF Stays, Lived
<1>6. ASSUME NEW k \in Attempts, NEW b \in BOOLEAN, RestoreActivity(k, b) PROVE Stays /\ Same
  <2>1. state' = Restore(state, NextOperation, k) /\ Same
    BY <1>6 DEF RestoreActivity, document, Same
  <2>. QED BY <2>1, TransitionsStay DEF Stays, Lived
<1>. QED BY <1>1, <1>2, <1>3, <1>4, <1>5, <1>6

\* The functions of a container's life.
LEMMA LifeStays ==
  ASSUME Lived
  PROVE  /\ OpenDocument => /\ DOMAIN state' = DOMAIN ClosedState /\ state'.open
                            /\ state'.unlocked = state.unlocked /\ candidate' = candidate
         /\ \A s : UnlockDocument(s) =>
              DOMAIN state' = DOMAIN ClosedState /\ state'.open = state.open /\ Same
         /\ LockContainer => Stays /\ Same /\ ~state'.unlocked
         /\ CloseContainer => state' = ClosedState /\ candidate' = None
         /\ \A t : scpefe_container_create(t) /\ Accepted(answer') =>
              /\ DOMAIN state' = DOMAIN ClosedState /\ state'.open /\ ~active
              /\ candidate' = candidate /\ active' = TRUE /\ owned' = owned
<1>1. OpenDocument => /\ DOMAIN state' = DOMAIN ClosedState /\ state'.open
                      /\ state'.unlocked = state.unlocked /\ candidate' = candidate
  BY DEF OpenDocument, Open, Lived, ClosedState, operations
<1>2. ASSUME NEW s, UnlockDocument(s)
      PROVE  DOMAIN state' = DOMAIN ClosedState /\ state'.open = state.open /\ Same
  <2>1. PICK r, l : state' = Unlock(state, s, r, l)
    BY <1>2 DEF UnlockDocument
  <2>2. Same
    BY <1>2 DEF UnlockDocument, operations, Same
  <2>. QED BY <2>1, <2>2 DEF Unlock, Lived, ClosedState
<1>3. LockContainer => Stays /\ Same /\ ~state'.unlocked
  BY DEF LockContainer, Lock, Stays, Same, Lived, ClosedState, document, operations
<1>4. CloseContainer => state' = ClosedState /\ candidate' = None
  BY DEF CloseContainer
<1>5. ASSUME NEW t, scpefe_container_create(t), Accepted(answer')
      PROVE  /\ DOMAIN state' = DOMAIN ClosedState /\ state'.open /\ ~active
             /\ candidate' = candidate /\ active' = TRUE /\ owned' = owned
  <2>1. /\ state' = Unlock(Open(state), Owner, AllRights, "none")
        /\ ~active /\ candidate' = candidate /\ active' = TRUE /\ owned' = owned
    BY <1>5 DEF scpefe_container_create, Refused, Accepted, operations
  <2>. QED BY <2>1 DEF Unlock, Open, Lived, ClosedState
<1>. QED BY <1>1, <1>2, <1>3, <1>4, <1>5

-----------------------------------------------------------------------------
(* What a call leaves *)

Settling == {"verified", "definite-failure", "adopt", "drop"}
Answered(f) ==
  /\ DOMAIN state' = DOMAIN ClosedState /\ owned' = owned
  /\ active' = state'.open /\ active' \in BOOLEAN
  /\ ~Accepted(answer') => UNCHANGED <<state, committed, candidate, active>>
  /\ f \in {"open", "create"} /\ Accepted(answer') => ~active /\ active'
  /\ f = "close" /\ Accepted(answer') => ~active'
  /\ f \notin {"open", "create", "close"} => active' = active
  /\ f \in Preparations \cup Settling \cup {"unlock"} /\ Accepted(answer') => active
  /\ f \notin {"unlock", "create"} => (state'.unlocked => state.unlocked)
  /\ f \in {"lock", "close"} /\ Accepted(answer') => ~state'.unlocked
  /\ f \notin {"open", "create", "close", "verified", "adopt"} => committed' = committed
  /\ f \in Preparations /\ Accepted(answer') => candidate = None
  /\ f \in Settling \cup {"close"} /\ Accepted(answer') => candidate' = None
  /\ f \notin Preparations \cup Settling \cup {"close"} => candidate' = candidate
  /\ f = "copy_bytes" /\ active => Accepted(answer')
  /\ f = "copy_candidate" /\ active /\ candidate # None => Accepted(answer')

\* A call that is refused leaves everything.
LEMMA RefusedLeaves ==
  ASSUME Lived, NEW f, NEW a, Refused(a), ~Accepted(a)
  PROVE  Answered(f) \/ f \in {"copy_bytes", "copy_candidate"}
BY DEF Refused, Accepted, Answered, Lived, vars, document, operations

\* A function that reads changes nothing.
LEMMA ReadsLeave ==
  ASSUME Lived,
         NEW f \in {"read", "revision_graph", "copy_bytes", "status", "lease_mode",
                    "authenticated_state", "lease_advice", "activity_status",
                    "copy_candidate"},
         Call(f)
  PROVE  Answered(f)
<1>1. UNCHANGED <<vars, active, owned>>
  BY DEF Call, scpefe_container_read, scpefe_container_revision_graph, ReadsClear, Reads,
         scpefe_container_copy_bytes, scpefe_container_status, ReadsState,
         scpefe_container_lease_mode, scpefe_container_authenticated_state, ReadsUnlocked,
         scpefe_container_lease_advice, scpefe_container_activity_status,
         scpefe_container_copy_candidate
<1>2. UNCHANGED <<state, committed, candidate, active, owned>>
  BY <1>1 DEF vars, document, operations
<1>3. f = "copy_bytes" /\ active => Accepted(answer')
  BY DEF Call, scpefe_container_copy_bytes, ReadsState, Reads, live, Accepted
<1>4. f = "copy_candidate" /\ active /\ candidate # None => Accepted(answer')
  BY DEF Call, scpefe_container_copy_candidate, Reads, live, Accepted, Operation
<1>. QED BY <1>2, <1>3, <1>4 DEF Answered, Lived, Preparations, Settling

\* A preparation retains a candidate or is refused.
LEMMA PreparationsAnswer ==
  ASSUME Lived, NEW f \in Preparations, Call(f) PROVE Answered(f)
<1>. DEFINE Prepared == /\ answer' = "ok" /\ active /\ UNCHANGED <<active, owned>>
                        /\ Stays /\ committed' = committed /\ candidate = None
            Failed == Refused("refused") \/ Refused("invalid_state")
<1>1. scpefe_container_prepare_save => Prepared \/ Failed
  BY Prepares DEF scpefe_container_prepare_save, Calls, Performed, live
<1>2. scpefe_container_prepare_merge => Prepared \/ Failed
  BY Prepares DEF scpefe_container_prepare_merge, Calls, Performed, live
<1>3. scpefe_container_prepare_compaction => Prepared \/ Failed
  BY Prepares DEF scpefe_container_prepare_compaction, Calls, Performed, live
<1>4. scpefe_container_prepare_lease_change => Prepared \/ Failed
  BY Prepares DEF scpefe_container_prepare_lease_change, Calls, Performed, live
<1>5. scpefe_container_prepare_slot_change => Prepared \/ Failed
  BY Prepares DEF scpefe_container_prepare_slot_change, Calls, Performed, live
<1>6. scpefe_container_prepare_activity_attempt => Prepared \/ Failed
  BY Prepares DEF scpefe_container_prepare_activity_attempt, Calls, Performed, live
<1>7. scpefe_container_prepare_activity_outcome => Prepared \/ Failed
  BY Prepares DEF scpefe_container_prepare_activity_outcome, Calls, Performed, live
<1>8. Prepared \/ Failed
  BY <1>1, <1>2, <1>3, <1>4, <1>5, <1>6, <1>7 DEF Call, Preparations
<1>9. CASE Prepared
  BY <1>9 DEF Answered, Stays, Accepted, Lived, Preparations, Settling
<1>10. CASE Failed
  BY <1>10, RefusedLeaves DEF Accepted, Preparations
<1>. QED BY <1>8, <1>9, <1>10

\* Once the result of a publication is known its candidate is no more.
LEMMA SettlingAnswers ==
  ASSUME Lived, NEW f \in Settling \cup {"ambiguous"}, Call(f) PROVE Answered(f)
<1>. DEFINE Settled == /\ answer' = "ok" /\ active /\ UNCHANGED <<active, owned>> /\ Stays
                       /\ f \in Settling => candidate' = None
                       /\ f \notin {"verified", "adopt"} => committed' = committed
                       /\ f = "ambiguous" => candidate' = candidate
<1>1. \/ /\ f \in {"verified", "definite-failure", "ambiguous"}
         /\ scpefe_container_acknowledge_save(pendingNativeCandidate, f)
      \/ f = "adopt" /\ scpefe_container_resolve_save(pendingNativeCandidate, TRUE)
      \/ f = "drop" /\ scpefe_container_resolve_save(pendingNativeCandidate, FALSE)
  BY DEF Call, Settling
<1>2. \/ Refused("invalid_state")
      \/ /\ answer' = "ok" /\ active /\ UNCHANGED <<active, owned>>
         /\ \/ f \in {"verified", "adopt"} /\ Adopt
            \/ f \in {"definite-failure", "drop"} /\ Reject
            \/ f = "ambiguous" /\ AcknowledgeAmbiguous
  BY <1>1 DEF scpefe_container_acknowledge_save, scpefe_container_resolve_save, Settles,
              Performed, live
<1>3. CASE Refused("invalid_state")
  BY <1>3, RefusedLeaves DEF Accepted, Settling
<1>4. CASE /\ answer' = "ok" /\ active /\ UNCHANGED <<active, owned>>
           /\ \/ f \in {"verified", "adopt"} /\ Adopt
              \/ f \in {"definite-failure", "drop"} /\ Reject
              \/ f = "ambiguous" /\ AcknowledgeAmbiguous
  <2>1. Settled
    BY <1>4, AdoptEnds, EditsStay DEF Settling, Same
  <2>. QED BY <2>1 DEF Answered, Stays, Accepted, Lived, Preparations, Settling
<1>. QED BY <1>2, <1>3, <1>4

\* What edits leaves the candidate and the confirmed image.
LEMMA EditsAnswer ==
  ASSUME Lived,
         NEW f \in {"confirm_edit_lease", "submit_content", "complete_activity",
                    "restore_activity_outcome"},
         Call(f)
  PROVE  Answered(f)
<1>1. \/ Refused("invalid_state") \/ Refused("refused")
      \/ answer' = "ok" /\ UNCHANGED <<active, owned>> /\ Stays /\ Same
  BY EditsStay DEF Call, Calls, Performed, live, scpefe_container_confirm_edit_lease,
     scpefe_container_submit_content, scpefe_container_complete_activity,
     scpefe_container_restore_activity_outcome
<1>2. CASE Refused("invalid_state") \/ Refused("refused")
  BY <1>2, RefusedLeaves DEF Accepted
<1>3. CASE answer' = "ok" /\ UNCHANGED <<active, owned>> /\ Stays /\ Same
  BY <1>3 DEF Answered, Stays, Same, Accepted, Lived, Preparations, Settling
<1>. QED BY <1>1, <1>2, <1>3

\* The handle is live just while the container is open.
LEMMA LifeAnswersFor ==
  ASSUME Lived, NEW f \in {"open", "create", "unlock", "lock", "close"}, Call(f)
  PROVE  Answered(f)
<1>. DEFINE Failed == Refused("refused") \/ Refused("invalid_state")
<1>1. CASE Failed
  BY <1>1, RefusedLeaves DEF Accepted
<1>2. CASE f = "open" /\ ~Failed
  <2>1. OpenDocument /\ ~active /\ active' = TRUE /\ answer' = "ok" /\ owned' = owned
    BY <1>2 DEF Call, scpefe_container_open
  <2>. QED BY <1>2, <2>1, LifeStays DEF Answered, Accepted, Lived, Preparations, Settling
<1>3. CASE f = "create" /\ ~Failed
  <2>1. PICK t \in Texts : scpefe_container_create(t)
    BY <1>3 DEF Call
  <2>2. answer' = "ok"
    BY <1>3, <2>1 DEF scpefe_container_create
  <2>. QED BY <1>3, <2>1, <2>2, LifeStays
           DEF Answered, Accepted, Lived, Preparations, Settling
<1>4. CASE f = "unlock" /\ ~Failed
  <2>1. UnlockDocument(slot) /\ active /\ answer' = "ok" /\ UNCHANGED <<active, owned>>
    BY <1>4 DEF Call, scpefe_container_unlock, Calls, Performed, live
  <2>. QED BY <1>4, <2>1, LifeStays DEF Answered, Accepted, Same, Lived, Preparations, Settling
<1>5. CASE f = "lock" /\ ~Failed
  <2>1. LockContainer /\ answer' = "ok" /\ UNCHANGED <<active, owned>>
    BY <1>5 DEF Call, scpefe_container_lock, Asks, Performed, live
  <2>. QED BY <1>5, <2>1, LifeStays
           DEF Answered, Accepted, Stays, Same, Lived, Preparations, Settling
<1>6. CASE f = "close" /\ ~Failed
  <2>1. CloseContainer /\ active' = FALSE /\ answer' = "ok" /\ owned' = owned
    BY <1>6 DEF Call, scpefe_container_close, live
  <2>2. state' = ClosedState /\ candidate' = None
    BY <2>1, LifeStays
  <2>. QED BY <1>6, <2>1, <2>2
           DEF Answered, Accepted, ClosedState, Lived, Preparations, Settling
<1>. QED BY <1>1, <1>2, <1>3, <1>4, <1>5, <1>6

\* Every function answers so.
LEMMA CallsAnswer ==
  ASSUME Lived, NEW f \in Functions, Call(f) PROVE Answered(f) /\ Lived'
<1>1. Answered(f)
  BY ReadsLeave, PreparationsAnswer, SettlingAnswers, EditsAnswer, LifeAnswersFor
     DEF Functions, Preparations, Settling
<1>2. Lived'
  <2>1. CASE ~Accepted(answer')
    BY <1>1, <2>1 DEF Answered, Lived
  <2>2. CASE Accepted(answer') /\ f \in {"open", "create", "close"}
    BY <1>1, <2>2 DEF Answered, Lived, Preparations, Settling
  <2>3. CASE Accepted(answer') /\ f \notin {"open", "create", "close"}
    BY <1>1, <2>3 DEF Answered, Lived
  <2>. QED BY <2>1, <2>2, <2>3
<1>. QED BY <1>1, <1>2

-----------------------------------------------------------------------------
(* What each step leaves to the next *)

\* When the layers agree, any plain step may come.
LEMMA PlainIsExpected ==
  ASSUME CONSTANT a, CONSTANT b, CONSTANT c, Plain(a, b)
  PROVE  (Agreed => Expects(a, b, c)) /\ (Agreed' => Expects(a, b, c)')
<1>1. /\ ~Due(a, b) /\ ~Knows(a, b, c) /\ a # "locking" /\ a \notin Dues
      /\ a = "copy_bytes" => b \notin {"adopted", "assign"}
  BY DEF Plain, Due, Knows, Dues
<1>. QED BY <1>1 DEF Expects, Dues

\* A call that is refused leaves the layers in agreement.
LEMMA RefusalsAgree ==
  ASSUME Lived, NEW a \in Functions, NEW b, NEW c, Expects(a, b, c), Answered(a),
         UNCHANGED service, ~Accepted(answer')
  PROVE  Agreed'
<1>1. Agreed
  <2>1. CASE ~Due(a, b)
    BY <2>1 DEF Expects
  <2>2. CASE Due(a, b)
    <3>1. a \in {"copy_bytes", "copy_candidate"}
      BY <2>2 DEF Due, Dues, Functions
    <3>2. a = "copy_bytes" => active
      BY <2>2, <3>1 DEF Due, Dues, Expects
    <3>3. a = "copy_candidate" => active
      BY DEF Expects
    <3>4. a = "copy_candidate" /\ candidate = None
      BY <3>1, <3>2, <3>3 DEF Answered
    <3>. QED BY <3>3, <3>4 DEF Expects, Agreed, Operation
  <2>. QED BY <2>1, <2>2
<1>. QED BY <1>1 DEF Answered, Agreed, Operation, service

\* One that is taken leaves what the next step expects.
LEMMA CallsLead ==
  ASSUME Lived, Lived', NEW a \in Functions, CONSTANT b, CONSTANT c, CONSTANT d,
         Expects(a, b, c), Follows(a, b, c),
         Answered(a), UNCHANGED service, Accepted(answer')
  PROVE  Expects(b, c, d)'
<1>. USE DEF service
<1>1. ~Due(a, b) => Agreed
  BY DEF Expects
<1>2. CASE a = "open"
  <2>1. /\ ~containerTarget' /\ pendingNativeCandidate' = Operation' /\ active'
        /\ ~state'.unlocked
    BY <1>1, <1>2 DEF Due, Dues, Agreed, Answered, Lived, Operation, Preparations, Settling
  <2>2. b = "own"
    BY <1>2 DEF Follows, Preparations
  <2>. QED BY <2>1, <2>2 DEF Expects, Due, Knows, Dues
<1>3. CASE a = "create"
  <2>1. ~containerTarget' /\ pendingNativeCandidate' = Operation' /\ active'
    BY <1>1, <1>3 DEF Due, Dues, Agreed, Answered, Lived, Operation, Preparations, Settling
  <2>2. b = "own" /\ c = "copy_bytes"
    BY <1>3 DEF Follows, Preparations
  <2>. QED BY <2>1, <2>2 DEF Expects, Due, Knows, Dues
<1>4. CASE a = "close"
  <2>1. b = "disown" /\ ~active'
    BY <1>4 DEF Follows, Answered, Preparations, Settling
  <2>. QED BY <2>1 DEF Expects, Due, Knows, Dues
<1>5. CASE a \in Preparations
  <2>1. /\ owned' = active' /\ (containerTarget' => active' /\ containerBytes' = committed')
        /\ containerTarget' \/ ~state'.unlocked
        /\ active' /\ pendingNativeCandidate' = None
    BY <1>1, <1>5 DEF Due, Dues, Agreed, Answered, Operation, Preparations, Settling
  <2>2. b = "copy_candidate"
    BY <1>5 DEF Follows, Preparations
  <2>. QED BY <2>1, <2>2 DEF Expects, Due, Knows, Dues
<1>6. CASE a = "copy_candidate"
  <2>1. /\ owned' = active' /\ (containerTarget' => active' /\ containerBytes' = committed')
        /\ containerTarget' \/ ~state'.unlocked
        /\ active' /\ pendingNativeCandidate' = None
    BY <1>6 DEF Expects, Answered, Preparations, Settling
  <2>2. b = "track"
    BY <1>6 DEF Follows, Preparations
  <2>. QED BY <2>1, <2>2 DEF Expects, Due, Knows, Dues
<1>7. CASE a \in {"verified", "adopt"}
  <2>1. active' /\ owned' /\ candidate' = None /\ (containerTarget' \/ ~state'.unlocked)
    BY <1>1, <1>7 DEF Due, Dues, Agreed, Answered, Preparations, Settling
  <2>2. b = "copy_bytes" /\ c = "adopted"
    BY <1>7 DEF Follows, Preparations
  <2>. QED BY <2>1, <2>2 DEF Expects, Due, Knows, Dues
<1>8. CASE a \in {"definite-failure", "drop"}
  <2>1. /\ owned' = active' /\ (containerTarget' => active' /\ containerBytes' = committed')
        /\ containerTarget' \/ ~state'.unlocked
        /\ candidate' = None
    BY <1>1, <1>8 DEF Due, Dues, Agreed, Answered, Preparations, Settling
  <2>2. b = "untrack" /\ (c = "status" => a = "definite-failure")
    BY <1>8 DEF Follows, Preparations
  <2>3. c = "status" => containerTarget'
    BY <2>2 DEF Expects, Knows
  <2>. QED BY <2>1, <2>2, <2>3 DEF Expects, Due, Knows, Dues
<1>9. CASE a = "copy_bytes"
  <2>1. UNCHANGED <<committed, candidate, active, owned>> /\ (state'.unlocked => state.unlocked)
    BY <1>9 DEF Answered, Preparations, Settling
  <2>2. CASE b = "adopted"
    <3>1. active' /\ owned' /\ candidate' = None /\ (containerTarget' \/ ~state'.unlocked)
      BY <1>9, <2>1, <2>2 DEF Expects, Due
    <3>. QED BY <2>2, <3>1 DEF Expects, Due, Knows, Dues
  <2>3. CASE b = "assign"
    <3>1. active' /\ owned' /\ pendingNativeCandidate' = Operation'
      BY <1>9, <2>1, <2>3 DEF Expects, Due, Operation
    <3>. QED BY <2>3, <3>1 DEF Expects, Due, Knows, Dues
  <2>4. CASE b \notin {"adopted", "assign"}
    <3>1. Plain(b, c)
      BY <1>9, <2>4 DEF Follows, Preparations
    <3>2. Agreed'
      BY <1>1, <1>9, <2>1, <2>4 DEF Due, Dues, Agreed, Operation
    <3>. QED BY <3>1, <3>2, PlainIsExpected
  <2>. QED BY <2>2, <2>3, <2>4
<1>10. CASE a = "unlock"
  <2>1. /\ UNCHANGED <<committed, candidate, active, owned>> /\ Agreed
        /\ b # "assign" => containerTarget
    BY <1>1, <1>10 DEF Answered, Preparations, Settling, Due, Dues, Expects, Knows
  <2>2. CASE b = "assign"
    <3>1. active' /\ owned' /\ pendingNativeCandidate' = Operation'
      BY <1>10, <2>1 DEF Agreed, Answered, Operation
    <3>. QED BY <2>2, <3>1 DEF Expects, Due, Knows, Dues
  <2>3. CASE b # "assign"
    <3>1. Plain(b, c)
      BY <1>10, <2>3 DEF Follows, Preparations
    <3>2. Agreed'
      BY <2>1, <2>3 DEF Agreed, Operation
    <3>. QED BY <3>1, <3>2, PlainIsExpected
  <2>. QED BY <2>2, <2>3
<1>11. CASE a \notin Preparations \cup Settling
                     \cup {"open", "create", "close", "copy_candidate", "copy_bytes", "unlock"}
  <2>1. Agreed /\ Agreed'
    <3>1. ~Due(a, b)
      BY <1>11 DEF Due, Dues, Functions
    <3>2. /\ owned' = owned /\ active' = active /\ committed' = committed
          /\ candidate' = candidate /\ (state'.unlocked => state.unlocked)
      BY <1>11 DEF Answered, Settling
    <3>. QED BY <1>1, <3>1, <3>2 DEF Agreed, Operation
  <2>2. CASE a = "status"
    <3>1. b = "unlockIfLocked" /\ containerTarget'
      BY <2>2 DEF Follows, Preparations, Expects, Knows
    <3>. QED BY <2>1, <3>1 DEF Expects, Due, Knows, Dues
  <2>3. CASE a = "lock"
    <3>1. b = "locking" \/ Plain(b, c)
      BY <2>3 DEF Follows, Preparations
    <3>2. ~state'.unlocked
      BY <2>3 DEF Answered
    <3>3. b = "locking" => Expects(b, c, d)'
      BY <2>1, <3>2 DEF Expects, Due, Knows, Dues
    <3>. QED BY <2>1, <3>1, <3>3, PlainIsExpected
  <2>4. CASE a \notin {"status", "lock"}
    <3>1. Plain(b, c)
      BY <1>11, <2>4 DEF Follows, Functions, Settling
    <3>. QED BY <2>1, <3>1, PlainIsExpected
  <2>. QED BY <2>2, <2>3, <2>4
<1>. QED BY <1>2, <1>3, <1>4, <1>5, <1>6, <1>7, <1>8, <1>9, <1>10, <1>11 DEF Settling

-----------------------------------------------------------------------------
(* Stretches of calls *)

\* What is left of a stretch is one.
LEMMA TailIsLegal ==
  ASSUME NEW p, Legal(p), p # <<>>
  PROVE  /\ Legal(Tail(p)) /\ Step(p, 1) = Head(p) /\ Head(p) \in Steps
         /\ Len(Tail(p)) = Len(p) - 1 /\ (Step(p, 1) \in Endings => Len(Tail(p)) = 0)
         /\ \A k \in Nat \ {0} : Step(Tail(p), k) = Step(p, k + 1)
         /\ Follows(Step(p, 1), Step(p, 2), Step(p, 3))
<1>. DEFINE n == Len(p)
            q == Tail(p)
<1>1. p \in Seq(Steps) /\ n \in Nat \ {0} /\ Head(p) = p[1] /\ Head(p) \in Steps
  BY DEF Legal
<1>2. q \in Seq(Steps) /\ Len(q) = n - 1 /\ \A i \in 1 .. n - 1 : q[i] = p[i + 1]
  BY <1>1, HeadTailProperties
<1>3. /\ \A i \in 1 .. n : Follows(Step(p, i), Step(p, i + 1), Step(p, i + 2))
      /\ \A i \in 1 .. n : p[i] \in Endings => i = n
  BY DEF Legal
<1>. HIDE DEF n, q
<1>4. ASSUME NEW k \in Nat \ {0} PROVE Step(q, k) = Step(p, k + 1)
  <2>1. k \in 1 .. n - 1 <=> k + 1 \in 1 .. n
    BY <1>1
  <2>. QED BY <1>2, <2>1 DEF Step, n
<1>5. ASSUME NEW i \in 1 .. Len(q)
      PROVE  /\ Follows(Step(q, i), Step(q, i + 1), Step(q, i + 2))
             /\ q[i] \in Endings => i = Len(q)
  <2>1. i + 1 \in 1 .. n /\ i \in Nat \ {0} /\ i + 1 \in Nat \ {0} /\ i + 2 \in Nat \ {0}
        /\ (i + 1) + 1 = i + 2 /\ (i + 1) + 2 = (i + 2) + 1
    BY <1>1, <1>2
  <2>2. Follows(Step(p, i + 1), Step(p, (i + 1) + 1), Step(p, (i + 1) + 2))
    BY <1>3, <2>1
  <2>3. /\ Step(q, i) = Step(p, i + 1) /\ Step(q, i + 1) = Step(p, (i + 1) + 1)
        /\ Step(q, i + 2) = Step(p, (i + 2) + 1)
    BY <1>4, <2>1
  <2>4. q[i] \in Endings => i + 1 = n
    BY <1>2, <1>3, <2>1
  <2>. QED BY <1>1, <1>2, <2>1, <2>2, <2>3, <2>4
<1>6. Legal(q)
  BY <1>2, <1>5 DEF Legal
<1>7. /\ Step(p, 1) = p[1] /\ (p[1] \in Endings => Len(q) = 0)
      /\ Follows(Step(p, 1), Step(p, 1 + 1), Step(p, 1 + 2))
  <2>1. 1 \in 1 .. n
    BY <1>1
  <2>. QED BY <1>1, <1>2, <1>3, <2>1 DEF Step, n
<1>. QED BY <1>1, <1>2, <1>4, <1>6, <1>7 DEF n, q

\* The steps of two stretches, one after the other.
LEMMA StepsOfJoin ==
  ASSUME NEW more \in Seq(Steps), NEW q \in Seq(Steps), NEW k \in Nat \ {0}
  PROVE  Step(more \o q, k) = IF k <= Len(more) THEN more[k] ELSE Step(q, k - Len(more))
<1>. DEFINE m == Len(more)
            n == Len(q)
            p == more \o q
<1>1. /\ m \in Nat /\ n \in Nat /\ Len(p) = m + n
      /\ \A i \in 1 .. m + n : p[i] = IF i <= m THEN more[i] ELSE q[i - m]
  BY ConcatProperties
<1>. HIDE DEF m, n, p
<1>2. CASE k <= m
  BY <1>1, <1>2 DEF Step, m, p
<1>3. CASE ~(k <= m)
  <2>1. k \in 1 .. m + n <=> k - m \in 1 .. n
    BY <1>1, <1>3
  <2>. QED BY <1>1, <1>3, <2>1 DEF Step, m, n, p
<1>. QED BY <1>2, <1>3

\* They are one if the first leads to the second.
LEMMA JoinIsLegal ==
  ASSUME NEW more \in Seq(Steps), NEW q, Legal(q),
         \A i \in 1 .. Len(more) :
           /\ more[i] \notin Endings
           /\ Follows(Step(more \o q, i), Step(more \o q, i + 1), Step(more \o q, i + 2))
  PROVE  Legal(more \o q)
<1>. DEFINE m == Len(more)
            n == Len(q)
            p == more \o q
<1>1. /\ m \in Nat /\ n \in Nat /\ Len(p) = m + n /\ p \in Seq(Steps)
      /\ \A i \in 1 .. m + n : p[i] = IF i <= m THEN more[i] ELSE q[i - m]
  BY ConcatProperties DEF Legal
<1>2. /\ \A i \in 1 .. m : more[i] \notin Endings
      /\ \A i \in 1 .. m : Follows(Step(p, i), Step(p, i + 1), Step(p, i + 2))
      /\ \A i \in 1 .. n : Follows(Step(q, i), Step(q, i + 1), Step(q, i + 2))
      /\ \A i \in 1 .. n : q[i] \in Endings => i = n
  BY DEF Legal
<1>3. \A k \in Nat \ {0} : k > m => Step(p, k) = Step(q, k - m)
  BY <1>1, StepsOfJoin DEF Legal
<1>. HIDE DEF m, n, p
<1>4. ASSUME NEW i \in 1 .. m + n
      PROVE  /\ Follows(Step(p, i), Step(p, i + 1), Step(p, i + 2))
             /\ p[i] \in Endings => i = m + n
  <2>1. CASE i <= m
    <3>1. i \in 1 .. m /\ p[i] = more[i]
      BY <1>1, <2>1
    <3>. QED BY <1>2, <3>1
  <2>2. CASE i > m
    <3>. DEFINE j == i - m
    <3>1. /\ j \in 1 .. n /\ (i + 1) - m = j + 1 /\ (i + 2) - m = j + 2
          /\ i \in Nat \ {0} /\ i + 1 \in Nat \ {0} /\ i + 2 \in Nat \ {0}
          /\ i + 1 > m /\ i + 2 > m /\ i = m + j /\ ~(i <= m)
      BY <1>1, <2>2
    <3>2. p[i] = q[j]
      BY <1>1, <3>1
    <3>. HIDE DEF j
    <3>3. Step(p, i + 1) = Step(q, j + 1) /\ Step(p, i + 2) = Step(q, j + 2)
      BY <1>3, <3>1
    <3>4. Step(p, i) = Step(q, j)
      BY <1>3, <2>2, <3>1 DEF j
    <3>. QED BY <1>2, <3>1, <3>2, <3>3, <3>4
  <2>. QED BY <1>1, <2>1, <2>2
<1>. QED BY <1>1, <1>4 DEF Legal, p

-----------------------------------------------------------------------------
(* The steps between the calls *)

\* A step that nothing is due before needs no more than agreement.
LEMMA FreelyExpected ==
  ASSUME CONSTANT a, CONSTANT b, CONSTANT c, a \notin Dues \cup {"copy_bytes", "locking"}
  PROVE  /\ Agreed /\ (Knows(a, b, c) => containerTarget) => Expects(a, b, c)
         /\ Agreed' /\ (Knows(a, b, c) => containerTarget') => Expects(a, b, c)'
<1>1. ~Due(a, b) /\ a \notin Dues
  BY DEF Due, Dues
<1>. QED BY <1>1 DEF Expects, Dues

\* A call is due only while the layers do not agree otherwise.
LEMMA NothingDue ==
  ASSUME NEW a, NEW b, NEW c, Expects(a, b, c), a \notin Dues \cup {"copy_bytes"}
  PROVE  Agreed
BY DEF Expects, Due

\* The addon takes and drops its handle.
LEMMA HandlesLead ==
  ASSUME Lived, CONSTANT b, CONSTANT c, CONSTANT d,
         NEW a \in {"own", "disown"}, Expects(a, b, c), Follows(a, b, c),
         owned' = (a = "own"), UNCHANGED <<vars, active, service>>
  PROVE  Lived' /\ Expects(b, c, d)'
<1>1. UNCHANGED <<state, committed, candidate, active, containerTarget, containerBytes,
                  pendingNativeCandidate>>
  BY DEF vars, document, operations, service
<1>2. Lived'
  BY <1>1 DEF Lived
<1>3. CASE a = "own"
  <2>1. /\ active' = TRUE /\ owned' = TRUE /\ ~containerTarget'
        /\ pendingNativeCandidate' = Operation'
        /\ b = "unlock" => ~state'.unlocked
    BY <1>1, <1>3 DEF Expects, Operation, Lived
  <2>2. b = "assign" \/ (b = "copy_bytes" /\ c = "assign")
        \/ (b = "unlock" /\ c = "assign")
    BY <1>3 DEF Follows, Preparations
  <2>3. CASE b = "unlock" /\ c = "assign"
    BY <1>2, <2>1, <2>3, FreelyExpected DEF Agreed, Dues, Knows
  <2>4. CASE b = "assign" \/ (b = "copy_bytes" /\ c = "assign")
    BY <1>2, <2>1, <2>4 DEF Expects, Due, Knows, Dues
  <2>. QED BY <2>2, <2>3, <2>4
<1>4. CASE a = "disown"
  <2>1. b = "forget" /\ active' = FALSE /\ owned' = FALSE
    BY <1>1, <1>4 DEF Expects, Follows, Preparations, Lived
  <2>. QED BY <1>2, <2>1 DEF Expects, Due, Knows, Dues
<1>. QED BY <1>3, <1>4

\* The service's assignments bring the layers to agree.
LEMMA AssignmentsLead ==
  ASSUME Lived, CONSTANT b, CONSTANT c, CONSTANT d, todo # <<>>,
         Expects(Head(todo), b, c), Follows(Head(todo), b, c), Assigned
  PROVE  /\ Lived' /\ Agreed' /\ Expects(b, c, d)'
         /\ state'.unlocked => state.unlocked
         /\ Head(todo) = "discard" => ~state'.unlocked
<1>. DEFINE a == Head(todo)
<1>1. a \in {"assign", "forget", "track", "untrack", "adopted", "discard"}
  BY DEF Assigned
<1>2. a # "discard" => UNCHANGED <<state, committed, candidate, active, owned>>
  BY DEF Assigned, vars, native, document, operations
<1>3. CASE a = "assign"
  <2>1. Agreed' /\ containerTarget'
    BY <1>2, <1>3 DEF Assigned, Expects, Agreed, Operation
  <2>2. b = "unlock" \/ Plain(b, c)
    BY <1>3 DEF Follows, Preparations
  <2>3. Expects(b, c, d)'
    BY <2>1, <2>2, PlainIsExpected, FreelyExpected DEF Dues
  <2>. QED BY <1>2, <1>3, <2>1, <2>3 DEF Lived
<1>4. CASE a = "forget"
  <2>1. active = FALSE /\ owned = FALSE /\ candidate = None /\ ~state.unlocked
    BY <1>4 DEF Expects, Lived
  <2>2. Agreed' /\ ~state'.unlocked
    BY <1>2, <1>4, <2>1 DEF Assigned, Agreed, Operation
  <2>3. b = "locking" \/ Plain(b, c)
    BY <1>4 DEF Follows, Preparations
  <2>4. b = "locking" => Expects(b, c, d)'
    BY <2>2 DEF Expects, Due, Dues, Knows
  <2>. QED BY <1>2, <1>4, <2>2, <2>3, <2>4, PlainIsExpected DEF Lived
<1>5. CASE a = "discard"
  <2>1. /\ state' = ClosedState /\ candidate' = None /\ active' = FALSE /\ owned' = FALSE
        /\ ~containerTarget' /\ pendingNativeCandidate' = None
    BY <1>5 DEF Assigned, scpefe_context_destroy
  <2>2. Lived' /\ Agreed' /\ ~state'.unlocked
    BY <2>1 DEF Lived, Agreed, Operation, ClosedState
  <2>3. b = "locking" \/ Plain(b, c)
    BY <1>5 DEF Follows, Preparations
  <2>4. b = "locking" => Expects(b, c, d)'
    BY <2>2 DEF Expects, Due, Dues, Knows
  <2>. QED BY <2>2, <2>3, <2>4, PlainIsExpected
<1>6. CASE a = "track"
  <2>1. Agreed'
    BY <1>2, <1>6 DEF Assigned, Expects, Agreed, Operation
  <2>2. Plain(b, c)
    BY <1>6 DEF Follows, Preparations
  <2>. QED BY <1>2, <1>6, <2>1, <2>2, PlainIsExpected DEF Lived
<1>7. CASE a = "untrack"
  <2>1. Agreed'
    BY <1>2, <1>7 DEF Assigned, Expects, Agreed, Operation
  <2>2. b = "status" \/ Plain(b, c)
    BY <1>7 DEF Follows, Preparations
  <2>3. b = "status" => containerTarget'
    BY <1>7 DEF Assigned, Expects, Knows
  <2>4. Expects(b, c, d)'
    BY <2>1, <2>2, <2>3, PlainIsExpected, FreelyExpected DEF Dues
  <2>. QED BY <1>2, <1>7, <2>1, <2>4 DEF Lived
<1>8. CASE a = "adopted"
  <2>1. Agreed'
    BY <1>2, <1>8 DEF Assigned, Expects, Agreed, Operation
  <2>2. Plain(b, c)
    BY <1>8 DEF Follows, Preparations
  <2>. QED BY <1>2, <1>8, <2>1, <2>2, PlainIsExpected DEF Lived
<1>. QED BY <1>1, <1>3, <1>4, <1>5, <1>6, <1>7, <1>8

\* A requirement, the start of a catch, and what settles a document leave the
\* layers as they are.
LEMMA OthersLead ==
  ASSUME Lived, CONSTANT b, CONSTANT c, CONSTANT d,
         NEW a \in {"held", "source", "unreplaced", "agrees", "try"} \cup Endings,
         Expects(a, b, c), Follows(a, b, c),
         UNCHANGED <<state, committed, candidate, active, owned, service>>
  PROVE  Lived' /\ Agreed' /\ Expects(b, c, d)'
<1>1. Agreed
  BY NothingDue DEF Dues, Endings
<1>2. Agreed' /\ Lived'
  BY <1>1 DEF Agreed, Lived, Operation, service
<1>3. CASE a = "try"
  <2>1. b \in {"status", "definite-failure"} \/ Plain(b, c)
    BY <1>3 DEF Follows, Preparations
  <2>2. b \in {"status", "definite-failure"} => containerTarget'
    BY <1>3 DEF Expects, Knows, service
  <2>. QED BY <1>2, <2>1, <2>2, PlainIsExpected, FreelyExpected DEF Dues
<1>4. CASE a # "try"
  <2>1. Plain(b, c)
    BY <1>4 DEF Follows, Preparations, Endings
  <2>. QED BY <1>2, <2>1, PlainIsExpected
<1>. QED BY <1>3, <1>4

-----------------------------------------------------------------------------
(* What the service decides *)

Reopening == <<"closeContainer", "open", "own", "unlock", "assign">>

\* The stretches the service may put in.
LEMMA DecisionsAre ==
  /\ unlockIfLocked \in {<<>>, <<"unlock">>}
  /\ \/ ~containerTarget /\ closeContainer = <<>>
     \/ containerTarget /\ closeContainer = <<"close", "disown", "forget">>
  /\ \/ ~state.unlocked /\ relock = <<>>
     \/ relock = <<"lock">>
  /\ confirmIfReading \in {<<>>, <<"confirm_edit_lease">>}
  /\ \/ containerTarget /\ syncNativeLeaseSource = <<"status", "unlockIfLocked">>
     \/ syncNativeLeaseSource = Reopening
  /\ syncImage \in {<<>>, Reopening}
  /\ missingOutcome \in {<<>>, <<"complete_activity">>,
                         <<"revision_graph", "restore_activity_outcome">>}
<1>1. reopen = Reopening
  <2>. DEFINE s == reopen
              t == Reopening
  <2>1. /\ s \in Seq(Steps) /\ Len(s) = 5
        /\ s[1] = "closeContainer" /\ s[2] = "open" /\ s[3] = "own"
        /\ s[4] = "unlock" /\ s[5] = "assign"
    BY DEF reopen, container_open, container_unlock, Steps, Functions
  <2>2. /\ t \in Seq(Steps) /\ Len(t) = 5
        /\ t[1] = "closeContainer" /\ t[2] = "open" /\ t[3] = "own"
        /\ t[4] = "unlock" /\ t[5] = "assign"
    BY DEF Reopening, Steps, Functions
  <2>. HIDE DEF s, t
  <2>3. \A i \in 1 .. 5 : s[i] = t[i]
    BY <2>1, <2>2
  <2>4. s = t
    BY <2>1, <2>2, <2>3, SeqEqual
  <2>. QED BY <2>4 DEF s, t
<1>2. container_status \o <<"unlockIfLocked">> = <<"status", "unlockIfLocked">>
  <2>. DEFINE s == container_status \o <<"unlockIfLocked">>
              t == <<"status", "unlockIfLocked">>
  <2>1. /\ s \in Seq(Steps) /\ Len(s) = 2
        /\ s[1] = "status" /\ s[2] = "unlockIfLocked"
    BY DEF container_status, Steps, Functions
  <2>2. /\ t \in Seq(Steps) /\ Len(t) = 2
        /\ t[1] = "status" /\ t[2] = "unlockIfLocked"
    BY DEF Steps, Functions
  <2>. HIDE DEF s, t
  <2>3. \A i \in 1 .. 2 : s[i] = t[i]
    BY <2>1, <2>2
  <2>4. s = t
    BY <2>1, <2>2, <2>3, SeqEqual
  <2>. QED BY <2>4 DEF s, t
<1>3. container_history_page \o container_restore_activity
        = <<"revision_graph", "restore_activity_outcome">>
  <2>. DEFINE s == container_history_page \o container_restore_activity
              t == <<"revision_graph", "restore_activity_outcome">>
  <2>1. /\ s \in Seq(Steps) /\ Len(s) = 2
        /\ s[1] = "revision_graph" /\ s[2] = "restore_activity_outcome"
    BY DEF container_history_page, container_restore_activity, Steps, Functions
  <2>2. /\ t \in Seq(Steps) /\ Len(t) = 2
        /\ t[1] = "revision_graph" /\ t[2] = "restore_activity_outcome"
    BY DEF Steps, Functions
  <2>. HIDE DEF s, t
  <2>3. \A i \in 1 .. 2 : s[i] = t[i]
    BY <2>1, <2>2
  <2>4. s = t
    BY <2>1, <2>2, <2>3, SeqEqual
  <2>. QED BY <2>4 DEF s, t
<1>4. container_close \o <<"forget">> = <<"close", "disown", "forget">>
  <2>. DEFINE s == container_close \o <<"forget">>
              t == <<"close", "disown", "forget">>
  <2>1. /\ s \in Seq(Steps) /\ Len(s) = 3
        /\ s[1] = "close" /\ s[2] = "disown" /\ s[3] = "forget"
    BY DEF container_close, Steps, Functions
  <2>2. /\ t \in Seq(Steps) /\ Len(t) = 3
        /\ t[1] = "close" /\ t[2] = "disown" /\ t[3] = "forget"
    BY DEF Steps, Functions
  <2>. HIDE DEF s, t
  <2>3. \A i \in 1 .. 3 : s[i] = t[i]
    BY <2>1, <2>2
  <2>4. s = t
    BY <2>1, <2>2, <2>3, SeqEqual
  <2>. QED BY <2>4 DEF s, t
<1>5. /\ unlockIfLocked \in {<<>>, <<"unlock">>}
      /\ \/ ~state.unlocked /\ relock = <<>>
         \/ relock = <<"lock">>
      /\ confirmIfReading \in {<<>>, <<"confirm_edit_lease">>}
  BY DEF unlockIfLocked, relock, confirmIfReading, container_unlock, container_lock,
         container_confirm_edit_lease
<1>6. \/ ~containerTarget /\ closeContainer = <<>>
      \/ containerTarget /\ closeContainer = <<"close", "disown", "forget">>
  BY <1>4 DEF closeContainer
<1>7. /\ \/ containerTarget /\ syncNativeLeaseSource = <<"status", "unlockIfLocked">>
         \/ syncNativeLeaseSource = Reopening
      /\ syncImage \in {<<>>, Reopening}
  BY <1>1, <1>2 DEF syncNativeLeaseSource, syncImage, sameImage
<1>8. missingOutcome \in {<<>>, <<"complete_activity">>,
                          <<"revision_graph", "restore_activity_outcome">>}
  BY <1>3 DEF missingOutcome, container_complete_activity
<1>. QED BY <1>5, <1>6, <1>7, <1>8

\* What the service puts in.
Inserted == {<<"unlock">>, <<"lock">>, <<"confirm_edit_lease">>,
             <<"complete_activity">>, <<"close", "disown", "forget">>,
             <<"status", "unlockIfLocked">>, Reopening,
             <<"revision_graph", "restore_activity_outcome">>}

\* What is put in leads on to what it is put before.
LEMMA PutIn ==
  ASSUME NEW q, Legal(q),
         NEW more \in Inserted,
         \/ Plain(Step(q, 1), Step(q, 2))
         \/ Step(q, 1) = "locking" /\ more = <<"close", "disown", "forget">>
  PROVE  /\ Legal(more \o q) /\ Step(more \o q, 1) = more[1]
         /\ more[1] = "status" => Step(more \o q, 2) = "unlockIfLocked"
         /\ more \o q # <<>> /\ Len(more \o q) = Len(more) + Len(q)
         /\ \A i \in 1 .. Len(q) : (more \o q)[Len(more) + i] = q[i]
<1>. DEFINE p == more \o q
            m == Len(more)
            n == Len(q)
<1>1. more \in Seq(Steps) /\ m \in 1 .. 5 /\ q \in Seq(Steps) /\ n \in Nat
  <2>1. q \in Seq(Steps) /\ n \in Nat
    BY DEF Legal
  <2>2. more \in Seq(Steps) /\ m \in 1 .. 5
    <3>1. CASE more = <<"unlock">>
      BY <3>1 DEF Steps, Functions
    <3>2. CASE more = <<"lock">>
      BY <3>2 DEF Steps, Functions
    <3>3. CASE more = <<"confirm_edit_lease">>
      BY <3>3 DEF Steps, Functions
    <3>4. CASE more = <<"complete_activity">>
      BY <3>4 DEF Steps, Functions
    <3>5. CASE more = <<"close", "disown", "forget">>
      BY <3>5 DEF Steps, Functions
    <3>6. CASE more = <<"status", "unlockIfLocked">>
      BY <3>6 DEF Steps, Functions
    <3>7. CASE more = Reopening
      BY <3>7 DEF Reopening, Steps, Functions
    <3>8. CASE more = <<"revision_graph", "restore_activity_outcome">>
      BY <3>8 DEF Steps, Functions
    <3>. QED BY <3>1, <3>2, <3>3, <3>4, <3>5, <3>6, <3>7, <3>8 DEF Inserted
  <2>. QED BY <2>1, <2>2
<1>2. \A k \in Nat \ {0} : Step(p, k) = IF k <= m THEN more[k] ELSE Step(q, k - m)
  BY <1>1, StepsOfJoin
<1>. HIDE DEF p, m
<1>3. /\ Step(p, 1) = more[1]
      /\ Step(p, 2) = IF 2 <= m THEN more[2] ELSE Step(q, 2 - m)
      /\ Step(p, 3) = IF 3 <= m THEN more[3] ELSE Step(q, 3 - m)
      /\ Step(p, 4) = IF 4 <= m THEN more[4] ELSE Step(q, 4 - m)
      /\ Step(p, 5) = IF 5 <= m THEN more[5] ELSE Step(q, 5 - m)
      /\ Step(p, 6) = Step(q, 6 - m) /\ Step(p, 7) = Step(q, 7 - m)
  BY <1>1, <1>2
<1>4. ASSUME NEW i \in 1 .. Len(more)
      PROVE  /\ more[i] \notin Endings
             /\ Follows(Step(p, i), Step(p, i + 1), Step(p, i + 2))
  <2>1. CASE more \in {<<"unlock">>, <<"lock">>, <<"confirm_edit_lease">>,
                       <<"complete_activity">>}
    <3>1. /\ m = 1 /\ Step(p, 1) \in {"unlock", "lock", "confirm_edit_lease",
                                      "complete_activity"}
          /\ Step(p, 1) = more[1] /\ Step(p, 2) = Step(q, 1) /\ Step(p, 3) = Step(q, 2)
      BY <1>3, <2>1 DEF m
    <3>2. i = 1
      BY <3>1 DEF m
    <3>3. Plain(Step(q, 1), Step(q, 2))
      BY <2>1
    <3>. QED BY <3>1, <3>2, <3>3 DEF Follows, Preparations, Endings
  <2>2. CASE more = <<"close", "disown", "forget">>
    <3>1. /\ m = 3 /\ Step(p, 1) = "close" /\ Step(p, 2) = "disown" /\ Step(p, 3) = "forget"
          /\ Step(p, 4) = Step(q, 1) /\ Step(p, 5) = Step(q, 2)
      BY <1>3, <2>2 DEF m
    <3>2. i = 1 \/ i = 2 \/ i = 3
      BY <3>1 DEF m
    <3>. QED BY <2>2, <3>1, <3>2 DEF Follows, Preparations, Endings
  <2>3. CASE more = <<"status", "unlockIfLocked">>
    <3>1. /\ m = 2 /\ Step(p, 1) = "status" /\ Step(p, 2) = "unlockIfLocked"
          /\ Step(p, 3) = Step(q, 1) /\ Step(p, 4) = Step(q, 2)
      BY <1>3, <2>3 DEF m
    <3>2. i = 1 \/ i = 2
      BY <3>1 DEF m
    <3>. QED BY <2>3, <3>1, <3>2 DEF Follows, Preparations, Endings
  <2>4. CASE more = <<"revision_graph", "restore_activity_outcome">>
    <3>1. /\ m = 2 /\ Step(p, 1) = "revision_graph" /\ Step(p, 2) = "restore_activity_outcome"
          /\ Step(p, 3) = Step(q, 1) /\ Step(p, 4) = Step(q, 2)
      BY <1>3, <2>4 DEF m
    <3>2. i = 1 \/ i = 2
      BY <3>1 DEF m
    <3>. QED BY <2>4, <3>1, <3>2 DEF Follows, Preparations, Endings, Plain, Due, Dues
  <2>5. CASE more = Reopening
    <3>1. /\ m = 5 /\ Step(p, 1) = "closeContainer" /\ Step(p, 2) = "open" /\ Step(p, 3) = "own"
          /\ Step(p, 4) = "unlock" /\ Step(p, 5) = "assign"
          /\ Step(p, 6) = Step(q, 1) /\ Step(p, 7) = Step(q, 2)
      BY <1>3, <2>5 DEF m, Reopening
    <3>2. i = 1 \/ i = 2 \/ i = 3 \/ i = 4 \/ i = 5
      BY <3>1 DEF m
    <3>. QED BY <2>5, <3>1, <3>2 DEF Reopening, Endings, Follows, Preparations, Plain, Due, Dues
  <2>. QED BY <2>1, <2>2, <2>3, <2>4, <2>5 DEF Inserted
<1>5. Legal(p)
  BY <1>1, <1>4, JoinIsLegal DEF p, m
<1>6. Len(p) = m + n /\ \A i \in 1 .. n : p[m + i] = q[i]
  <2>1. \A i \in 1 .. m + n : p[i] = IF i <= m THEN more[i] ELSE q[i - m]
    BY <1>1, ConcatProperties DEF p, m
  <2>2. \A i \in 1 .. n : m + i \in 1 .. m + n /\ ~(m + i <= m) /\ (m + i) - m = i
    BY <1>1
  <2>3. Len(p) = m + n
    BY <1>1, ConcatProperties DEF p, m
  <2>. QED BY <2>1, <2>2, <2>3
<1>7. more[1] = "status" => Step(p, 2) = "unlockIfLocked"
  BY <1>3 DEF Inserted, Reopening, m
<1>8. p # <<>>
  BY <1>1, <1>6
<1>. QED BY <1>3, <1>5, <1>6, <1>7, <1>8 DEF p

-----------------------------------------------------------------------------
(* What the service starts *)

\* A stretch that may be started while the layers agree, with no catch of its own.
Begun(p) ==
  /\ Legal(p) /\ Plain(Step(p, 1), Step(p, 2))
  /\ ~Tries(p)
\* One that does not end a lock either.
Starts(p) == Begun(p) /\ ~Locks(p)
\* One that unlocks nothing.
Quiet(p) == Starts(p) /\ \A i \in 1 .. Len(p) : p[i] \notin Unlocking

\* A created document is written, or closed again (createDocument).
LEMMA CreationStarts ==
  /\ Starts(container_create \o <<"assign">> \o <<"created">>)
  /\ Starts(container_create \o <<"assign">> \o <<"closeContainer">>)
<1>1. Starts(container_create \o <<"assign">> \o <<"created">>)
  <2>. DEFINE p == container_create \o <<"assign">> \o <<"created">>
  <2>1. /\ p \in Seq(Steps) /\ Len(p) = 5
        /\ p[1] = "create" /\ p[2] = "own" /\ p[3] = "copy_bytes" /\ p[4] = "assign"
        /\ p[5] = "created"
    BY DEF container_create, Steps, Functions
  <2>. HIDE DEF p
  <2>2. Starts(p)
    BY <2>1 DEF Starts, Begun, Tries, Locks, Endings, Legal, Step, Follows, Plain, Due, Dues, Preparations
  <2>. QED BY <2>2 DEF p
<1>2. Starts(container_create \o <<"assign">> \o <<"closeContainer">>)
  <2>. DEFINE p == container_create \o <<"assign">> \o <<"closeContainer">>
  <2>1. /\ p \in Seq(Steps) /\ Len(p) = 5
        /\ p[1] = "create" /\ p[2] = "own" /\ p[3] = "copy_bytes" /\ p[4] = "assign"
        /\ p[5] = "closeContainer"
    BY DEF container_create, Steps, Functions
  <2>. HIDE DEF p
  <2>2. Starts(p)
    BY <2>1 DEF Starts, Begun, Tries, Locks, Endings, Legal, Step, Follows, Plain, Due, Dues, Preparations
  <2>. QED BY <2>2 DEF p
<1>. QED BY <1>1, <1>2

\* What an open document may prepare (prepareSaveCandidate and the others).
LEMMA PreparationsStart ==
  /\ Starts((LeaseSource \o <<"held">> \o container_prepare_save) \o <<"track">>)
  /\ Starts((<<"syncImage">> \o container_prepare_slot_change) \o <<"track">>)
  /\ Starts((<<"syncImage">> \o container_lease_mode \o <<"confirmIfReading">>
            \o container_prepare_merge) \o <<"track">>)
  /\ Starts((<<"syncNativeLeaseSource">> \o container_bytes \o <<"source">>
            \o container_prepare_lease_change) \o <<"track">>)
  /\ Starts((LeaseSource \o <<"held">> \o container_prepare_compaction) \o <<"track">>)
  /\ Starts(container_prepare_activity("attempt") \o <<"track">>)
  /\ Starts(container_prepare_activity("outcome") \o <<"track">>)
<1>1. Starts((LeaseSource \o <<"held">> \o container_prepare_save) \o <<"track">>)
  <2>. DEFINE p == (LeaseSource \o <<"held">> \o container_prepare_save) \o <<"track">>
  <2>1. /\ p \in Seq(Steps) /\ Len(p) = 8
        /\ p[1] = "unreplaced" /\ p[2] = "syncNativeLeaseSource" /\ p[3] = "lease_mode"
        /\ p[4] = "held" /\ p[5] = "submit_content" /\ p[6] = "prepare_save"
        /\ p[7] = "copy_candidate" /\ p[8] = "track"
    BY DEF LeaseSource, container_lease_mode, container_prepare_save, Steps, Functions
  <2>. HIDE DEF p
  <2>2. Starts(p)
    BY <2>1 DEF Starts, Begun, Tries, Locks, Endings, Legal, Step, Follows, Plain, Due, Dues, Preparations
  <2>. QED BY <2>2 DEF p
<1>2. Starts((<<"syncImage">> \o container_prepare_slot_change) \o <<"track">>)
  <2>. DEFINE p == (<<"syncImage">> \o container_prepare_slot_change) \o <<"track">>
  <2>1. /\ p \in Seq(Steps) /\ Len(p) = 4
        /\ p[1] = "syncImage" /\ p[2] = "prepare_slot_change" /\ p[3] = "copy_candidate"
        /\ p[4] = "track"
    BY DEF container_prepare_slot_change, Steps, Functions
  <2>. HIDE DEF p
  <2>2. Starts(p)
    BY <2>1 DEF Starts, Begun, Tries, Locks, Endings, Legal, Step, Follows, Plain, Due, Dues, Preparations
  <2>. QED BY <2>2 DEF p
<1>3. Starts((<<"syncImage">> \o container_lease_mode \o <<"confirmIfReading">>
            \o container_prepare_merge) \o <<"track">>)
  <2>. DEFINE p == (<<"syncImage">> \o container_lease_mode \o <<"confirmIfReading">>
            \o container_prepare_merge) \o <<"track">>
  <2>1. /\ p \in Seq(Steps) /\ Len(p) = 6
        /\ p[1] = "syncImage" /\ p[2] = "lease_mode" /\ p[3] = "confirmIfReading"
        /\ p[4] = "prepare_merge" /\ p[5] = "copy_candidate" /\ p[6] = "track"
    BY DEF container_lease_mode, container_prepare_merge, Steps, Functions
  <2>. HIDE DEF p
  <2>2. Starts(p)
    BY <2>1 DEF Starts, Begun, Tries, Locks, Endings, Legal, Step, Follows, Plain, Due, Dues, Preparations
  <2>. QED BY <2>2 DEF p
<1>4. Starts((<<"syncNativeLeaseSource">> \o container_bytes \o <<"source">>
            \o container_prepare_lease_change) \o <<"track">>)
  <2>. DEFINE p == (<<"syncNativeLeaseSource">> \o container_bytes \o <<"source">>
            \o container_prepare_lease_change) \o <<"track">>
  <2>1. /\ p \in Seq(Steps) /\ Len(p) = 6
        /\ p[1] = "syncNativeLeaseSource" /\ p[2] = "copy_bytes" /\ p[3] = "source"
        /\ p[4] = "prepare_lease_change" /\ p[5] = "copy_candidate" /\ p[6] = "track"
    BY DEF container_bytes, container_prepare_lease_change, Steps, Functions
  <2>. HIDE DEF p
  <2>2. Starts(p)
    BY <2>1 DEF Starts, Begun, Tries, Locks, Endings, Legal, Step, Follows, Plain, Due, Dues, Preparations
  <2>. QED BY <2>2 DEF p
<1>5. Starts((LeaseSource \o <<"held">> \o container_prepare_compaction) \o <<"track">>)
  <2>. DEFINE p == (LeaseSource \o <<"held">> \o container_prepare_compaction) \o <<"track">>
  <2>1. /\ p \in Seq(Steps) /\ Len(p) = 7
        /\ p[1] = "unreplaced" /\ p[2] = "syncNativeLeaseSource" /\ p[3] = "lease_mode"
        /\ p[4] = "held" /\ p[5] = "prepare_compaction" /\ p[6] = "copy_candidate"
        /\ p[7] = "track"
    BY DEF LeaseSource, container_lease_mode, container_prepare_compaction, Steps, Functions
  <2>. HIDE DEF p
  <2>2. Starts(p)
    BY <2>1 DEF Starts, Begun, Tries, Locks, Endings, Legal, Step, Follows, Plain, Due, Dues, Preparations
  <2>. QED BY <2>2 DEF p
<1>6. Starts(container_prepare_activity("attempt") \o <<"track">>)
  <2>. DEFINE p == container_prepare_activity("attempt") \o <<"track">>
  <2>1. /\ p \in Seq(Steps) /\ Len(p) = 3
        /\ p[1] = "prepare_activity_attempt" /\ p[2] = "copy_candidate"
        /\ p[3] = "track"
    BY DEF container_prepare_activity, Steps, Functions
  <2>. HIDE DEF p
  <2>2. Starts(p)
    BY <2>1 DEF Starts, Begun, Tries, Locks, Endings, Legal, Step, Follows, Plain, Due, Dues, Preparations
  <2>. QED BY <2>2 DEF p
<1>7. Starts(container_prepare_activity("outcome") \o <<"track">>)
  <2>. DEFINE p == container_prepare_activity("outcome") \o <<"track">>
  <2>1. /\ p \in Seq(Steps) /\ Len(p) = 3
        /\ p[1] = "prepare_activity_outcome" /\ p[2] = "copy_candidate"
        /\ p[3] = "track"
    BY DEF container_prepare_activity, Steps, Functions
  <2>. HIDE DEF p
  <2>2. Starts(p)
    BY <2>1 DEF Starts, Begun, Tries, Locks, Endings, Legal, Step, Follows, Plain, Due, Dues, Preparations
  <2>. QED BY <2>2 DEF p
<1>. QED BY <1>1, <1>2, <1>3, <1>4, <1>5, <1>6, <1>7

\* What an open document asks (completeActivity, restoreActivity, acquireLease).
LEMMA QuestionsStart ==
  /\ Starts(container_complete_activity)
  /\ Starts(container_activity_status \o <<"missingOutcome">>)
  /\ Starts(<<"syncNativeLeaseSource">> \o container_authenticated_lease
            \o container_lease_advice)
<1>1. Starts(container_complete_activity)
  <2>. DEFINE p == container_complete_activity
  <2>1. /\ p \in Seq(Steps) /\ Len(p) = 1
        /\ p[1] = "complete_activity"
    BY DEF container_complete_activity, Steps, Functions
  <2>. HIDE DEF p
  <2>2. Starts(p)
    BY <2>1 DEF Starts, Begun, Tries, Locks, Endings, Legal, Step, Follows, Plain, Due, Dues, Preparations
  <2>. QED BY <2>2 DEF p
<1>2. Starts(container_activity_status \o <<"missingOutcome">>)
  <2>. DEFINE p == container_activity_status \o <<"missingOutcome">>
  <2>1. /\ p \in Seq(Steps) /\ Len(p) = 2
        /\ p[1] = "activity_status" /\ p[2] = "missingOutcome"
    BY DEF container_activity_status, Steps, Functions
  <2>. HIDE DEF p
  <2>2. Starts(p)
    BY <2>1 DEF Starts, Begun, Tries, Locks, Endings, Legal, Step, Follows, Plain, Due, Dues, Preparations
  <2>. QED BY <2>2 DEF p
<1>3. Starts(<<"syncNativeLeaseSource">> \o container_authenticated_lease
            \o container_lease_advice)
  <2>. DEFINE p == <<"syncNativeLeaseSource">> \o container_authenticated_lease
            \o container_lease_advice
  <2>1. /\ p \in Seq(Steps) /\ Len(p) = 3
        /\ p[1] = "syncNativeLeaseSource" /\ p[2] = "authenticated_state"
        /\ p[3] = "lease_advice"
    BY DEF container_authenticated_lease, container_lease_advice, Steps, Functions
  <2>. HIDE DEF p
  <2>2. Starts(p)
    BY <2>1 DEF Starts, Begun, Tries, Locks, Endings, Legal, Step, Follows, Plain, Due, Dues,
               Preparations
  <2>. QED BY <2>2 DEF p
<1>. QED BY <1>1, <1>2, <1>3

\* What reports the outcome of a publication (finishSave, resolveSave).
LEMMA OutcomesStart ==
  /\ Quiet(container_finish_save("verified") \o container_bytes \o <<"adopted">>)
  /\ Quiet(container_finish_save("ambiguous"))
  /\ Quiet(container_resolve_save(TRUE) \o container_bytes \o <<"adopted">>)
  /\ Quiet(container_resolve_save(FALSE) \o <<"untrack">>)
<1>1. Quiet(container_finish_save("verified") \o container_bytes \o <<"adopted">>)
  <2>. DEFINE p == container_finish_save("verified") \o container_bytes \o <<"adopted">>
  <2>1. /\ p \in Seq(Steps) /\ Len(p) = 3
        /\ p[1] = "verified" /\ p[2] = "copy_bytes" /\ p[3] = "adopted"
    BY DEF container_finish_save, container_bytes, Steps, Functions
  <2>. HIDE DEF p
  <2>2. Quiet(p)
    BY <2>1 DEF Quiet, Starts, Begun, Tries, Locks, Endings, Legal, Step, Follows, Plain, Due,
               Dues, Preparations, Unlocking
  <2>. QED BY <2>2 DEF p
<1>2. Quiet(container_finish_save("ambiguous"))
  <2>. DEFINE p == container_finish_save("ambiguous")
  <2>1. /\ p \in Seq(Steps) /\ Len(p) = 1
        /\ p[1] = "ambiguous"
    BY DEF container_finish_save, Steps, Functions
  <2>. HIDE DEF p
  <2>2. Quiet(p)
    BY <2>1 DEF Quiet, Starts, Begun, Tries, Locks, Endings, Legal, Step, Follows, Plain, Due,
               Dues, Preparations, Unlocking
  <2>. QED BY <2>2 DEF p
<1>3. Quiet(container_resolve_save(TRUE) \o container_bytes \o <<"adopted">>)
  <2>. DEFINE p == container_resolve_save(TRUE) \o container_bytes \o <<"adopted">>
  <2>1. /\ p \in Seq(Steps) /\ Len(p) = 3
        /\ p[1] = "adopt" /\ p[2] = "copy_bytes" /\ p[3] = "adopted"
    BY DEF container_resolve_save, container_bytes, Steps, Functions
  <2>. HIDE DEF p
  <2>2. Quiet(p)
    BY <2>1 DEF Quiet, Starts, Begun, Tries, Locks, Endings, Legal, Step, Follows, Plain, Due,
               Dues, Preparations, Unlocking
  <2>. QED BY <2>2 DEF p
<1>4. Quiet(container_resolve_save(FALSE) \o <<"untrack">>)
  <2>. DEFINE p == container_resolve_save(FALSE) \o <<"untrack">>
  <2>1. /\ p \in Seq(Steps) /\ Len(p) = 2
        /\ p[1] = "drop" /\ p[2] = "untrack"
    BY DEF container_resolve_save, Steps, Functions
  <2>. HIDE DEF p
  <2>2. Quiet(p)
    BY <2>1 DEF Quiet, Starts, Begun, Tries, Locks, Endings, Legal, Step, Follows, Plain, Due,
               Dues, Preparations, Unlocking
  <2>. QED BY <2>2 DEF p
<1>. QED BY <1>1, <1>2, <1>3, <1>4

\* What a locked document may still run, and what ends its lock (closeDocument,
\* clearSession, changePasswordLate).
LEMMA EndsStart ==
  /\ Quiet(<<"closeContainer", "closed">>)
  /\ Begun(<<"locked">>) /\ TriesFirst(<<"locked">>)
  /\ LET p == <<>> \o <<"locked">> IN Begun(p) /\ TriesFirst(p)
  /\ LET p == (container_prepare_lease_change \o <<"track">>) \o <<"locked">>
     IN Begun(p) /\ TriesFirst(p)
  /\ Begun(<<"syncImage">> \o container_prepare_slot_change \o <<"track", "locked">>)
<1>1. Quiet(<<"closeContainer", "closed">>)
  <2>. DEFINE p == <<"closeContainer", "closed">>
  <2>1. /\ p \in Seq(Steps) /\ Len(p) = 2
        /\ p[1] = "closeContainer" /\ p[2] = "closed"
    BY DEF Steps, Functions
  <2>. HIDE DEF p
  <2>2. Quiet(p)
    BY <2>1 DEF Quiet, Starts, Begun, Tries, Locks, Endings, Legal, Step, Follows, Plain, Due,
               Dues, Preparations, Unlocking
  <2>. QED BY <2>2 DEF p
<1>2. Begun(<<"locked">>) /\ TriesFirst(<<"locked">>)
  <2>. DEFINE p == <<"locked">>
  <2>1. p \in Seq(Steps) /\ Len(p) = 1 /\ p[1] = "locked"
    BY DEF Steps, Functions
  <2>. HIDE DEF p
  <2>2. Begun(p) /\ TriesFirst(p)
    BY <2>1 DEF Begun, Tries, TriesFirst, Endings, Legal, Step, Follows, Plain, Due,
               Dues, Preparations, Unlocking
  <2>. QED BY <2>2 DEF p
<1>3. LET p == <<>> \o <<"locked">> IN Begun(p) /\ TriesFirst(p)
  <2>. DEFINE p == <<>> \o <<"locked">>
  <2>1. p \in Seq(Steps) /\ Len(p) = 1 /\ p[1] = "locked"
    BY DEF Steps, Functions
  <2>. HIDE DEF p
  <2>2. Begun(p) /\ TriesFirst(p)
    BY <2>1 DEF Begun, Tries, TriesFirst, Endings, Legal, Step, Follows, Plain, Due,
               Dues, Preparations, Unlocking
  <2>. QED BY <2>2 DEF p
<1>4. LET p == (container_prepare_lease_change \o <<"track">>) \o <<"locked">>
      IN Begun(p) /\ TriesFirst(p)
  <2>. DEFINE p == (container_prepare_lease_change \o <<"track">>) \o <<"locked">>
  <2>1. /\ p \in Seq(Steps) /\ Len(p) = 4
        /\ p[1] = "prepare_lease_change" /\ p[2] = "copy_candidate" /\ p[3] = "track"
        /\ p[4] = "locked"
    BY DEF container_prepare_lease_change, Steps, Functions
  <2>. HIDE DEF p
  <2>2. Begun(p) /\ TriesFirst(p)
    BY <2>1 DEF Begun, Tries, TriesFirst, Endings, Legal, Step, Follows, Plain, Due,
               Dues, Preparations, Unlocking
  <2>. QED BY <2>2 DEF p
<1>5. Begun(<<"syncImage">> \o container_prepare_slot_change \o <<"track", "locked">>)
  <2>. DEFINE p == <<"syncImage">> \o container_prepare_slot_change \o <<"track", "locked">>
  <2>1. /\ p \in Seq(Steps) /\ Len(p) = 5
        /\ p[1] = "syncImage" /\ p[2] = "prepare_slot_change" /\ p[3] = "copy_candidate"
        /\ p[4] = "track" /\ p[5] = "locked"
    BY DEF container_prepare_slot_change, Steps, Functions
  <2>. HIDE DEF p
  <2>2. Begun(p)
    BY <2>1 DEF Begun, Tries, Endings, Legal, Step, Follows, Plain, Due, Dues, Preparations
  <2>. QED BY <2>2 DEF p
<1>. QED BY <1>1, <1>2, <1>3, <1>4, <1>5

\* What locks an open document (finishLock).
LEMMA LocksStart ==
  /\ Starts(<<"closeContainer">> \o <<"locking">>)
  /\ Starts(container_lock \o <<"locking">>)
<1>1. Starts(<<"closeContainer">> \o <<"locking">>)
  <2>. DEFINE p == <<"closeContainer">> \o <<"locking">>
  <2>1. /\ p \in Seq(Steps) /\ Len(p) = 2
        /\ p[1] = "closeContainer" /\ p[2] = "locking"
    BY DEF Steps, Functions
  <2>. HIDE DEF p
  <2>2. Starts(p)
    BY <2>1 DEF Starts, Begun, Tries, Locks, Endings, Legal, Step, Follows, Plain, Due, Dues, Preparations
  <2>. QED BY <2>2 DEF p
<1>2. Starts(container_lock \o <<"locking">>)
  <2>. DEFINE p == container_lock \o <<"locking">>
  <2>1. /\ p \in Seq(Steps) /\ Len(p) = 2
        /\ p[1] = "lock" /\ p[2] = "locking"
    BY DEF container_lock, Steps, Functions
  <2>. HIDE DEF p
  <2>2. Starts(p)
    BY <2>1 DEF Starts, Begun, Tries, Locks, Endings, Legal, Step, Follows, Plain, Due, Dues, Preparations
  <2>. QED BY <2>2 DEF p
<1>. QED BY <1>1, <1>2

\* What a refused call is followed by.
LEMMA FallbacksStart ==
  /\ Quiet(<<>>)
  /\ Quiet(<<"relock">>)
  /\ Quiet(<<"closeContainer">>)
  /\ Quiet(<<"discard">>)
  /\ Quiet(<<"closeContainer", "locking">>)
  /\ Quiet(<<"discard", "locking">>)
<1>1. Quiet(<<>>)
  <2>. DEFINE p == <<>>
  <2>1. /\ p \in Seq(Steps) /\ Len(p) = 0
    BY DEF Steps, Functions
  <2>. HIDE DEF p
  <2>2. Quiet(p)
    BY <2>1 DEF Quiet, Starts, Begun, Tries, Locks, Endings, Legal, Step, Follows, Plain, Due,
               Dues, Preparations, Unlocking
  <2>. QED BY <2>2 DEF p
<1>2. Quiet(<<"relock">>)
  <2>. DEFINE p == <<"relock">>
  <2>1. /\ p \in Seq(Steps) /\ Len(p) = 1
        /\ p[1] = "relock"
    BY DEF Steps, Functions
  <2>. HIDE DEF p
  <2>2. Quiet(p)
    BY <2>1 DEF Quiet, Starts, Begun, Tries, Locks, Endings, Legal, Step, Follows, Plain, Due,
               Dues, Preparations, Unlocking
  <2>. QED BY <2>2 DEF p
<1>3. Quiet(<<"closeContainer">>)
  <2>. DEFINE p == <<"closeContainer">>
  <2>1. /\ p \in Seq(Steps) /\ Len(p) = 1
        /\ p[1] = "closeContainer"
    BY DEF Steps, Functions
  <2>. HIDE DEF p
  <2>2. Quiet(p)
    BY <2>1 DEF Quiet, Starts, Begun, Tries, Locks, Endings, Legal, Step, Follows, Plain, Due,
               Dues, Preparations, Unlocking
  <2>. QED BY <2>2 DEF p
<1>4. Quiet(<<"discard">>)
  <2>. DEFINE p == <<"discard">>
  <2>1. /\ p \in Seq(Steps) /\ Len(p) = 1
        /\ p[1] = "discard"
    BY DEF Steps, Functions
  <2>. HIDE DEF p
  <2>2. Quiet(p)
    BY <2>1 DEF Quiet, Starts, Begun, Tries, Locks, Endings, Legal, Step, Follows, Plain, Due,
               Dues, Preparations, Unlocking
  <2>. QED BY <2>2 DEF p
<1>5. Quiet(<<"closeContainer", "locking">>)
  <2>. DEFINE p == <<"closeContainer", "locking">>
  <2>1. /\ p \in Seq(Steps) /\ Len(p) = 2
        /\ p[1] = "closeContainer" /\ p[2] = "locking"
    BY DEF Steps, Functions
  <2>. HIDE DEF p
  <2>2. Quiet(p)
    BY <2>1 DEF Quiet, Starts, Begun, Tries, Locks, Endings, Legal, Step, Follows, Plain, Due,
               Dues, Preparations, Unlocking
  <2>. QED BY <2>2 DEF p
<1>6. Quiet(<<"discard", "locking">>)
  <2>. DEFINE p == <<"discard", "locking">>
  <2>1. /\ p \in Seq(Steps) /\ Len(p) = 2
        /\ p[1] = "discard" /\ p[2] = "locking"
    BY DEF Steps, Functions
  <2>. HIDE DEF p
  <2>2. Quiet(p)
    BY <2>1 DEF Quiet, Starts, Begun, Tries, Locks, Endings, Legal, Step, Follows, Plain, Due,
               Dues, Preparations, Unlocking
  <2>. QED BY <2>2 DEF p
<1>. QED BY <1>1, <1>2, <1>3, <1>4, <1>5, <1>6

\* The stretch of openDocument: is the target's image the container's, is an
\* operation to settle, is the invitation to be claimed?
Opening(same, pending, invited) ==
  (IF same THEN <<>> ELSE <<"closeContainer">>) \o <<"try">>
  \o (IF same /\ pending THEN container_finish_save("definite-failure") \o <<"untrack">>
      ELSE <<>>)
  \o (IF same THEN container_status \o <<"unlockIfLocked">>
      ELSE container_open \o <<"assign">> \o container_unlock)
  \o (IF invited THEN <<>> ELSE container_read \o <<"agrees">>)
  \o <<"shown">>
\* It shows the document in the end, and unlocks nothing but under its catch.
Opens(p, same) ==
  /\ Legal(p) /\ Shows(p)
  /\ IF same THEN Step(p, 1) = "try" ELSE Step(p, 1) = "closeContainer" /\ Step(p, 2) = "try"
  /\ TriesFirst(p)

\* What opens or unlocks a document (openDocument).
LEMMA OpeningStarts ==
  ASSUME NEW same \in BOOLEAN, NEW pending \in BOOLEAN, NEW invited \in BOOLEAN
  PROVE  Opens(Opening(same, pending, invited), same)
<1>. DEFINE p == Opening(same, pending, invited)
<1>1. CASE same /\ pending /\ invited
  <2>1. /\ p \in Seq(Steps) /\ Len(p) = 6
        /\ p[1] = "try" /\ p[2] = "definite-failure" /\ p[3] = "untrack"
        /\ p[4] = "status" /\ p[5] = "unlockIfLocked" /\ p[6] = "shown"
    BY <1>1 DEF Opening, container_finish_save, container_status, container_open,
             container_unlock, container_read, Steps, Functions
  <2>. HIDE DEF p
  <2>2. Legal(p)
    BY <2>1 DEF Legal, Endings, Step, Follows, Plain, Due, Dues, Preparations
  <2>3. /\ Len(p) > 0 /\ p[Len(p)] = "shown"
        /\ \A i \in 1 .. 1 : p[i] \notin Unlocking
    BY <2>1 DEF Unlocking
  <2>4. \A i \in 1 .. Len(p) : p[i] \in Unlocking => \E j \in 1 .. i - 1 : p[j] = "try"
    <3>1. ASSUME NEW i \in 1 .. Len(p), p[i] \in Unlocking PROVE 1 \in 1 .. i - 1
      BY <2>1, <2>3, <3>1
    <3>. QED BY <2>1, <3>1
  <2>5. Step(p, 1) = p[1] /\ Step(p, 2) = p[2]
    BY <2>1 DEF Step
  <2>. QED BY <1>1, <2>1, <2>2, <2>3, <2>4, <2>5 DEF Opens, Shows, TriesFirst, p
<1>2. CASE same /\ pending /\ ~invited
  <2>1. /\ p \in Seq(Steps) /\ Len(p) = 8
        /\ p[1] = "try" /\ p[2] = "definite-failure" /\ p[3] = "untrack"
        /\ p[4] = "status" /\ p[5] = "unlockIfLocked" /\ p[6] = "read"
        /\ p[7] = "agrees" /\ p[8] = "shown"
    BY <1>2 DEF Opening, container_finish_save, container_status, container_open,
             container_unlock, container_read, Steps, Functions
  <2>. HIDE DEF p
  <2>2. Legal(p)
    BY <2>1 DEF Legal, Endings, Step, Follows, Plain, Due, Dues, Preparations
  <2>3. /\ Len(p) > 0 /\ p[Len(p)] = "shown"
        /\ \A i \in 1 .. 1 : p[i] \notin Unlocking
    BY <2>1 DEF Unlocking
  <2>4. \A i \in 1 .. Len(p) : p[i] \in Unlocking => \E j \in 1 .. i - 1 : p[j] = "try"
    <3>1. ASSUME NEW i \in 1 .. Len(p), p[i] \in Unlocking PROVE 1 \in 1 .. i - 1
      BY <2>1, <2>3, <3>1
    <3>. QED BY <2>1, <3>1
  <2>5. Step(p, 1) = p[1] /\ Step(p, 2) = p[2]
    BY <2>1 DEF Step
  <2>. QED BY <1>2, <2>1, <2>2, <2>3, <2>4, <2>5 DEF Opens, Shows, TriesFirst, p
<1>3. CASE same /\ ~pending /\ invited
  <2>1. /\ p \in Seq(Steps) /\ Len(p) = 4
        /\ p[1] = "try" /\ p[2] = "status" /\ p[3] = "unlockIfLocked"
        /\ p[4] = "shown"
    BY <1>3 DEF Opening, container_finish_save, container_status, container_open,
             container_unlock, container_read, Steps, Functions
  <2>. HIDE DEF p
  <2>2. Legal(p)
    BY <2>1 DEF Legal, Endings, Step, Follows, Plain, Due, Dues, Preparations
  <2>3. /\ Len(p) > 0 /\ p[Len(p)] = "shown"
        /\ \A i \in 1 .. 1 : p[i] \notin Unlocking
    BY <2>1 DEF Unlocking
  <2>4. \A i \in 1 .. Len(p) : p[i] \in Unlocking => \E j \in 1 .. i - 1 : p[j] = "try"
    <3>1. ASSUME NEW i \in 1 .. Len(p), p[i] \in Unlocking PROVE 1 \in 1 .. i - 1
      BY <2>1, <2>3, <3>1
    <3>. QED BY <2>1, <3>1
  <2>5. Step(p, 1) = p[1] /\ Step(p, 2) = p[2]
    BY <2>1 DEF Step
  <2>. QED BY <1>3, <2>1, <2>2, <2>3, <2>4, <2>5 DEF Opens, Shows, TriesFirst, p
<1>4. CASE same /\ ~pending /\ ~invited
  <2>1. /\ p \in Seq(Steps) /\ Len(p) = 6
        /\ p[1] = "try" /\ p[2] = "status" /\ p[3] = "unlockIfLocked" /\ p[4] = "read"
        /\ p[5] = "agrees" /\ p[6] = "shown"
    BY <1>4 DEF Opening, container_finish_save, container_status, container_open,
             container_unlock, container_read, Steps, Functions
  <2>. HIDE DEF p
  <2>2. Legal(p)
    BY <2>1 DEF Legal, Endings, Step, Follows, Plain, Due, Dues, Preparations
  <2>3. /\ Len(p) > 0 /\ p[Len(p)] = "shown"
        /\ \A i \in 1 .. 1 : p[i] \notin Unlocking
    BY <2>1 DEF Unlocking
  <2>4. \A i \in 1 .. Len(p) : p[i] \in Unlocking => \E j \in 1 .. i - 1 : p[j] = "try"
    <3>1. ASSUME NEW i \in 1 .. Len(p), p[i] \in Unlocking PROVE 1 \in 1 .. i - 1
      BY <2>1, <2>3, <3>1
    <3>. QED BY <2>1, <3>1
  <2>5. Step(p, 1) = p[1] /\ Step(p, 2) = p[2]
    BY <2>1 DEF Step
  <2>. QED BY <1>4, <2>1, <2>2, <2>3, <2>4, <2>5 DEF Opens, Shows, TriesFirst, p
<1>5. CASE ~same /\ invited
  <2>1. /\ p \in Seq(Steps) /\ Len(p) = 7
        /\ p[1] = "closeContainer" /\ p[2] = "try" /\ p[3] = "open" /\ p[4] = "own"
        /\ p[5] = "assign" /\ p[6] = "unlock" /\ p[7] = "shown"
    BY <1>5 DEF Opening, container_finish_save, container_status, container_open,
             container_unlock, container_read, Steps, Functions
  <2>. HIDE DEF p
  <2>2. Legal(p)
    BY <2>1 DEF Legal, Endings, Step, Follows, Plain, Due, Dues, Preparations
  <2>3. /\ Len(p) > 0 /\ p[Len(p)] = "shown"
        /\ \A i \in 1 .. 2 : p[i] \notin Unlocking
    BY <2>1 DEF Unlocking
  <2>4. \A i \in 1 .. Len(p) : p[i] \in Unlocking => \E j \in 1 .. i - 1 : p[j] = "try"
    <3>1. ASSUME NEW i \in 1 .. Len(p), p[i] \in Unlocking PROVE 2 \in 1 .. i - 1
      BY <2>1, <2>3, <3>1
    <3>. QED BY <2>1, <3>1
  <2>5. Step(p, 1) = p[1] /\ Step(p, 2) = p[2]
    BY <2>1 DEF Step
  <2>. QED BY <1>5, <2>1, <2>2, <2>3, <2>4, <2>5 DEF Opens, Shows, TriesFirst, p
<1>6. CASE ~same /\ ~invited
  <2>1. /\ p \in Seq(Steps) /\ Len(p) = 9
        /\ p[1] = "closeContainer" /\ p[2] = "try" /\ p[3] = "open" /\ p[4] = "own"
        /\ p[5] = "assign" /\ p[6] = "unlock" /\ p[7] = "read" /\ p[8] = "agrees"
        /\ p[9] = "shown"
    BY <1>6 DEF Opening, container_finish_save, container_status, container_open,
             container_unlock, container_read, Steps, Functions
  <2>. HIDE DEF p
  <2>2. Legal(p)
    BY <2>1 DEF Legal, Endings, Step, Follows, Plain, Due, Dues, Preparations
  <2>3. /\ Len(p) > 0 /\ p[Len(p)] = "shown"
        /\ \A i \in 1 .. 2 : p[i] \notin Unlocking
    BY <2>1 DEF Unlocking
  <2>4. \A i \in 1 .. Len(p) : p[i] \in Unlocking => \E j \in 1 .. i - 1 : p[j] = "try"
    <3>1. ASSUME NEW i \in 1 .. Len(p), p[i] \in Unlocking PROVE 2 \in 1 .. i - 1
      BY <2>1, <2>3, <3>1
    <3>. QED BY <2>1, <3>1
  <2>5. Step(p, 1) = p[1] /\ Step(p, 2) = p[2]
    BY <2>1 DEF Step
  <2>. QED BY <1>6, <2>1, <2>2, <2>3, <2>4, <2>5 DEF Opens, Shows, TriesFirst, p
<1>. QED BY <1>1, <1>2, <1>3, <1>4, <1>5, <1>6

-----------------------------------------------------------------------------
(* Going on to the next step *)

\* What is left of a stretch that shows the document shows it too.
LEMMA TailShows ==
  ASSUME NEW p, Legal(p), p # <<>>, Shows(p)
  PROVE  /\ Tail(p) # <<>> => Shows(Tail(p))
         /\ Head(p) # "shown" => Tail(p) # <<>>
<1>1. /\ p \in Seq(Steps) /\ Tail(p) \in Seq(Steps) /\ Head(p) = p[1]
      /\ Len(Tail(p)) = Len(p) - 1 /\ \A i \in 1 .. Len(p) - 1 : Tail(p)[i] = p[i + 1]
  BY HeadTailProperties DEF Legal
<1>. DEFINE n == Len(p)
            q == Tail(p)
<1>2. n \in Nat /\ n > 0 /\ p[n] = "shown" /\ Len(q) = n - 1
      /\ \A i \in 1 .. n - 1 : q[i] = p[i + 1]
  BY <1>1 DEF Shows
<1>3. q # <<>> => n - 1 > 0
  BY <1>1, <1>2
<1>4. q = <<>> => n = 1
  <2>1. Len(<<>>) = 0
    OBVIOUS
  <2>. HIDE DEF q, n
  <2>. QED BY <1>2, <2>1
<1>. HIDE DEF n, q
<1>5. n - 1 > 0 => q[n - 1] = p[n]
  <2>1. n - 1 > 0 => n - 1 \in 1 .. n - 1 /\ (n - 1) + 1 = n
    BY <1>2
  <2>. QED BY <1>2, <2>1
<1>6. q # <<>> => Shows(q)
  BY <1>2, <1>3, <1>5 DEF Shows
<1>7. Head(p) # "shown" => q # <<>>
  BY <1>1, <1>2, <1>4
<1>. QED BY <1>6, <1>7 DEF q

\* It has the catches of the whole, and they come first if they did.
LEMMA TailTries ==
  ASSUME NEW p, Legal(p), p # <<>>
  PROVE  /\ Tries(Tail(p)) => Tries(p) /\ Tail(p) # <<>>
         /\ Locks(Tail(p)) => Locks(p)
         /\ TriesFirst(p) => Head(p) \notin Unlocking
         /\ TriesFirst(p) /\ Head(p) # "try" => TriesFirst(Tail(p))
<1>. DEFINE n == Len(p)
            q == Tail(p)
<1>1. /\ p \in Seq(Steps) /\ q \in Seq(Steps) /\ Head(p) = p[1] /\ n \in Nat \ {0}
      /\ Len(q) = n - 1 /\ \A i \in 1 .. n - 1 : q[i] = p[i + 1]
  BY HeadTailProperties DEF Legal
<1>2. Len(<<>>) = 0
  OBVIOUS
<1>. HIDE DEF n, q
<1>3. ASSUME NEW i \in 1 .. n - 1, q[i] = "try"
      PROVE  q # <<>> /\ i + 1 \in 1 .. n /\ p[i + 1] = "try"
  <2>1. i + 1 \in 1 .. n /\ n - 1 # 0
    BY <1>1
  <2>. QED BY <1>1, <1>2, <1>3, <2>1
<1>4. Tries(q) => Tries(p) /\ q # <<>>
  BY <1>1, <1>3 DEF Tries, n
<1>8. Locks(q) => Locks(p)
  <2>. SUFFICES ASSUME NEW i \in 1 .. n - 1, q[i] = "locked" PROVE Locks(p)
    BY <1>1 DEF Locks
  <2>1. i + 1 \in 1 .. n /\ p[i + 1] = "locked"
    BY <1>1
  <2>. QED BY <2>1 DEF Locks, n
<1>5. ASSUME TriesFirst(p), Head(p) \in Unlocking PROVE FALSE
  <2>1. 1 \in 1 .. n /\ p[1] \in Unlocking
    BY <1>1, <1>5
  <2>2. \E j \in 1 .. 1 - 1 : p[j] = "try"
    BY <1>5, <2>1 DEF TriesFirst, n
  <2>. QED BY <2>2
<1>6. ASSUME TriesFirst(p), Head(p) # "try", NEW i \in 1 .. n - 1, q[i] \in Unlocking
      PROVE  \E j \in 1 .. i - 1 : q[j] = "try"
  <2>1. i + 1 \in 1 .. n
    BY <1>1
  <2>2. \E j \in 1 .. (i + 1) - 1 : p[j] = "try"
    BY <1>1, <1>6, <2>1 DEF TriesFirst, n
  <2>3. PICK j \in 1 .. i : p[j] = "try"
    BY <2>2
  <2>4. j # 1
    BY <1>1, <1>6, <2>3
  <2>5. j - 1 \in 1 .. i - 1 /\ j - 1 \in 1 .. n - 1 /\ (j - 1) + 1 = j
    BY <1>1, <2>4
  <2>6. q[j - 1] = "try"
    BY <1>1, <2>3, <2>5
  <2>. QED BY <2>5, <2>6
<1>7. TriesFirst(p) /\ Head(p) # "try" => TriesFirst(q)
  BY <1>1, <1>6 DEF TriesFirst
<1>. QED BY <1>4, <1>5, <1>7, <1>8 DEF q

\* The next step is taken over by what it finds.
LEMMA FindsExpected ==
  ASSUME CONSTANT b, CONSTANT c, CONSTANT d, Legal(todo'),
         b = Step(todo', 1), c = Step(todo', 2), d = Step(todo', 3), Expects(b, c, d)'
  PROVE  InStep'
BY DEF InStep

\* A step that puts nothing in goes on to the next.
LEMMA GoesOn ==
  ASSUME InStep, Caught, todo # <<>>, Proceed(<<>>), Head(todo) # "try"
  PROVE  /\ Legal(todo') /\ todo' = Tail(todo)
         /\ Head(todo) = Step(todo, 1) /\ Step(todo', 1) = Step(todo, 2)
         /\ Step(todo', 2) = Step(todo, 3) /\ Step(todo', 3) = Step(todo, 4)
         /\ Follows(Head(todo), Step(todo, 2), Step(todo, 3))
         /\ Expects(Head(todo), Step(todo, 2), Step(todo, 3))
         /\ rescue' \in Rescues /\ ShowsInEnd'
         /\ UNCHANGED <<screen, overtaken>> => LocksOnly' /\ UnlocksGuarded'
         /\ Head(todo) \in Endings => todo' = <<>> /\ rescue' = <<>>
         /\ Guarded /\ Head(todo) # "shown" => Guarded'
<1>. DEFINE n == Len(todo)
            q == Tail(todo)
<1>1. Legal(todo) /\ Expects(Step(todo, 1), Step(todo, 2), Step(todo, 3))
  BY DEF InStep
<1>2. /\ Legal(q) /\ Step(todo, 1) = Head(todo) /\ Len(q) = n - 1
      /\ Head(todo) \in Endings => Len(q) = 0
      /\ \A k \in Nat \ {0} : Step(q, k) = Step(todo, k + 1)
      /\ Follows(Step(todo, 1), Step(todo, 2), Step(todo, 3))
  BY <1>1, TailIsLegal
<1>3. n \in Nat /\ q \in Seq(Steps) /\ Len(<<>>) = 0
  <2>1. Len(<<>>) = 0
    OBVIOUS
  <2>2. n \in Nat /\ q \in Seq(Steps)
    BY <1>1, HeadTailProperties DEF Legal
  <2>. QED BY <2>1, <2>2
<1>4. todo' = q
  BY <1>3, ConcatEmptySeq DEF Proceed
<1>5. Step(q, 1) = Step(todo, 2) /\ Step(q, 2) = Step(todo, 3) /\ Step(q, 3) = Step(todo, 4)
  BY <1>2
<1>6. /\ \A i \in 1 .. n - 1 : q[i] = todo[i + 1]
      /\ Head(todo) = todo[1]
  BY <1>1, HeadTailProperties DEF Legal
<1>7. rescue' = (IF q = <<>> THEN <<>> ELSE rescue)
  BY <1>4 DEF Proceed
<1>8. rescue' \in Rescues
  BY <1>7 DEF Rescues, Caught
<1>9. Shows(todo) => (q # <<>> => Shows(q)) /\ (Head(todo) # "shown" => q # <<>>)
  BY <1>1, TailShows
<1>10. Guarded' => q # <<>> /\ Guarded
  BY <1>7 DEF Guarded
<1>. HIDE DEF q, n
<1>11. ShowsInEnd'
  <2>1. Guarded \/ Tries(todo) => Shows(todo)
    BY DEF Caught, ShowsInEnd
  <2>2. Tries(q) => Tries(todo) /\ q # <<>>
    BY <1>1, TailTries DEF q
  <2>. QED BY <1>2, <1>4, <1>9, <1>10, <2>1, <2>2 DEF ShowsInEnd
<1>12. Guarded /\ Head(todo) # "shown" => Guarded'
  <2>1. Guarded => Shows(todo)
    BY DEF Caught, ShowsInEnd
  <2>. QED BY <1>7, <1>9, <2>1 DEF Guarded
<1>20. ASSUME UNCHANGED <<screen, overtaken>> PROVE LocksOnly'
  <2>1. Locks(todo') => Locks(todo)
    BY <1>1, <1>4, TailTries DEF q
  <2>2. rescue' = <<<<"locked">>>> => rescue = <<<<"locked">>>>
    <3>1. <<<<"locked">>>> # <<>>
      OBVIOUS
    <3>. QED BY <1>7, <3>1
  <2>. QED BY <1>20, <2>1, <2>2 DEF Caught, LocksOnly
<1>13. ASSUME UNCHANGED <<screen, overtaken>> PROVE UnlocksGuarded'
  <2>1. CASE Guarded /\ ~Guarded'
    <3>1. q = <<>>
      BY <1>2, <1>12, <1>3, <2>1, EmptySeq DEF Endings
    <3>2. TriesFirst(<<>>)
      BY <1>3 DEF TriesFirst
    <3>. QED BY <1>4, <3>1, <3>2 DEF UnlocksGuarded
  <2>2. CASE ~Guarded
    <3>1. Shut => TriesFirst(todo)
      BY <2>2 DEF Caught, UnlocksGuarded
    <3>. QED BY <1>1, <1>4, <1>13, <3>1, TailTries DEF UnlocksGuarded, Shut, q
  <2>. QED BY <2>1, <2>2 DEF UnlocksGuarded
<1>14. Head(todo) \in Endings => q = <<>>
  <2>1. Len(q) = 0 => q = <<>>
    BY <1>3, EmptySeq
  <2>. QED BY <1>2, <2>1
<1>15. Follows(Head(todo), Step(todo, 2), Step(todo, 3))
  BY <1>2
<1>16. Expects(Head(todo), Step(todo, 2), Step(todo, 3))
  BY <1>1, <1>2
<1>17. Legal(todo') /\ todo' = Tail(todo)
  BY <1>2, <1>4 DEF q
<1>18. /\ Head(todo) = Step(todo, 1) /\ Step(todo', 1) = Step(todo, 2)
       /\ Step(todo', 2) = Step(todo, 3) /\ Step(todo', 3) = Step(todo, 4)
  BY <1>2, <1>4, <1>5
<1>19. Head(todo) \in Endings => todo' = <<>> /\ rescue' = <<>>
  BY <1>4, <1>7, <1>14
<1>21. UNCHANGED <<screen, overtaken>> => LocksOnly' /\ UnlocksGuarded'
  BY <1>13, <1>20
<1>. QED BY <1>8, <1>11, <1>12, <1>15, <1>16, <1>17, <1>18, <1>19, <1>21

\* The stretches left of a rescue.
LEMMA RescuesLeft ==
  ASSUME NEW a, NEW b
  PROVE  /\ Head(<<a, b>>) = a /\ Tail(<<a, b>>) = <<b>>
         /\ Head(<<a>>) = a /\ Tail(<<a>>) = <<>>
<1>1. Tail(<<a, b>>) = <<b>>
  <2>. DEFINE s == Tail(<<a, b>>)
              t == <<b>>
  <2>1. s \in Seq({a, b}) /\ Len(s) = 1 /\ s[1] = b
    OBVIOUS
  <2>2. t \in Seq({a, b}) /\ Len(t) = 1 /\ t[1] = b
    OBVIOUS
  <2>. HIDE DEF s, t
  <2>3. \A i \in 1 .. 1 : s[i] = t[i]
    BY <2>1, <2>2
  <2>4. s = t
    BY <2>1, <2>2, <2>3, SeqEqual
  <2>. QED BY <2>4 DEF s, t
<1>2. Tail(<<a>>) = <<>>
  <2>. DEFINE s == Tail(<<a>>)
  <2>1. s \in Seq({a}) /\ Len(s) = 0
    OBVIOUS
  <2>. HIDE DEF s
  <2>2. s = <<>>
    BY <2>1, EmptySeq
  <2>. QED BY <2>2 DEF s
<1>3. Head(<<a, b>>) = a /\ Head(<<a>>) = a
  OBVIOUS
<1>. QED BY <1>1, <1>2, <1>3

\* A stretch that may be started finds what it expects.
LEMMA StartsAsExpected ==
  ASSUME Agreed', Begun(todo')
  PROVE  /\ InStep' /\ (~Guarded' => ShowsInEnd')
         /\ Quiet(todo') => UnlocksGuarded'
<1>1. PICK b, c, d : b = Step(todo', 1) /\ c = Step(todo', 2) /\ d = Step(todo', 3)
  OBVIOUS
<1>2. Plain(b, c) /\ Legal(todo') /\ ~Tries(todo')
  BY <1>1 DEF Begun
<1>3. Expects(b, c, d)'
  BY <1>2, PlainIsExpected
<1>4. InStep'
  BY <1>1, <1>2, <1>3, FindsExpected
<1>5. ~Guarded' => ShowsInEnd'
  BY <1>2 DEF ShowsInEnd
<1>6. Quiet(todo') => UnlocksGuarded'
  BY DEF Quiet, UnlocksGuarded, TriesFirst
<1>. QED BY <1>4, <1>5, <1>6

\* What clearSession falls back on is none of the others.
LEMMA RescuesDiffer ==
  /\ <<<<"locked">>>> # <<<<"discard">>>>
  /\ <<<<"locked">>>> # <<<<"discard", "locking">>>>
  /\ \A a, b : <<<<"locked">>>> # <<a, b>>
<1>1. <<"locked">>[1] = "locked" /\ Len(<<"locked">>) = 1 /\ Len(<<<<"locked">>>>) = 1
  OBVIOUS
<1>2. <<"discard">>[1] = "discard" /\ Len(<<"discard", "locking">>) = 2
  OBVIOUS
<1>3. \A a : <<a>>[1] = a
  OBVIOUS
<1>4. \A a, b : Len(<<a, b>>) = 2
  OBVIOUS
<1>5. <<"locked">> # <<"discard">> /\ <<"locked">> # <<"discard", "locking">>
  BY <1>1, <1>2
<1>. QED BY <1>1, <1>3, <1>4, <1>5

\* A refused call is followed by what the service falls back on.
LEMMA ThrowsTo ==
  ASSUME InStep, Caught, Agreed', Throw, todo # <<>>,
         UNCHANGED <<state, screen, overtaken>>,
         Head(todo) # "discard"
  PROVE  InStep' /\ Caught'
<1>. DEFINE Locking == <<<<"closeContainer", "locking">>, <<"discard", "locking">>>>
<1>1. Head(todo) = Step(todo, 1)
  BY TailIsLegal DEF InStep
<1>2. Shut /\ state.unlocked =>
        Guarded \/ (rescue = <<<<"discard">>>>
                    /\ Step(todo, 1) \in {"relock", "lock", "closeContainer", "close"})
  BY <1>1 DEF Caught, LocksAgain
<1>9. Shut' <=> Shut
  BY DEF Shut
<1>3. ASSUME Quiet(todo'), rescue' \in Rescues, rescue' # <<<<"locked">>>>, ~Guarded',
             LocksAgain'
      PROVE  InStep' /\ Caught'
  <2>1. LocksOnly'
    BY <1>3 DEF Quiet, Starts, LocksOnly
  <2>. QED BY <1>3, <2>1, StartsAsExpected DEF Quiet, Starts, Caught
<1>4. CASE rescue = <<>>
  <2>1. todo' = <<>> /\ rescue' = <<>>
    BY <1>4 DEF Throw
  <2>2. Quiet(todo') /\ rescue' \in Rescues /\ rescue' # <<<<"locked">>>>
    BY <2>1, FallbacksStart DEF Rescues
  <2>3. ~Guarded' /\ ~Guarded
    BY <1>4, <2>1 DEF Guarded
  <2>4. rescue # <<<<"discard">>>>
    BY <1>4
  <2>5. LocksAgain'
    BY <1>2, <1>9, <2>3, <2>4 DEF LocksAgain
  <2>. QED BY <1>3, <2>2, <2>3, <2>5
<1>5. CASE Guarded
  <2>1. rescue # <<>>
    BY <1>5 DEF Guarded
  <2>2. rescue' = <<<<"discard">>>> /\ todo' \in {<<"relock">>, <<"closeContainer">>}
    <3>1. todo' = Head(rescue) /\ rescue' = Tail(rescue)
      BY <2>1 DEF Throw
    <3>2. PICK a \in {<<"relock">>, <<"closeContainer">>} : rescue = <<a, <<"discard">>>>
      BY <1>5 DEF Guarded
    <3>3. Head(rescue) = a /\ Tail(rescue) = <<<<"discard">>>>
      BY <3>2, RescuesLeft, Zenon
    <3>. QED BY <3>1, <3>2, <3>3
  <2>3. Quiet(todo') /\ rescue' \in Rescues /\ rescue' # <<<<"locked">>>>
    BY <2>2, FallbacksStart, RescuesDiffer DEF Rescues
  <2>4. ~Guarded'
    BY <2>2 DEF Guarded
  <2>5. Step(todo', 1) \in {"relock", "closeContainer"}
    BY <2>2 DEF Step
  <2>6. LocksAgain'
    BY <2>2, <2>5 DEF LocksAgain
  <2>. QED BY <1>3, <2>3, <2>4, <2>6
<1>6. CASE rescue = <<<<"discard">>>>
  <2>1. rescue # <<>>
    BY <1>6
  <2>2. rescue' = <<>> /\ todo' = <<"discard">>
    BY <1>6, <2>1, RescuesLeft DEF Throw
  <2>3. Quiet(todo') /\ rescue' \in Rescues /\ rescue' # <<<<"locked">>>>
    BY <2>2, FallbacksStart, RescuesDiffer DEF Rescues
  <2>4. ~Guarded'
    BY <2>2 DEF Guarded
  <2>5. Step(todo', 1) = "discard"
    BY <2>2 DEF Step
  <2>6. LocksAgain'
    BY <2>2, <2>5 DEF LocksAgain
  <2>. QED BY <1>3, <2>3, <2>4, <2>6
<1>7. CASE rescue = Locking \/ rescue = <<<<"discard", "locking">>>>
  <2>1. rescue # <<>> /\ rescue # <<<<"discard">>>> /\ ~Guarded
    <3>1. Len(rescue[1]) = 2 /\ Len(rescue) > 0
      BY <1>7
    <3>2. \A a, b : rescue = <<a, b>> \/ rescue = <<a>> => rescue[1] = a
      OBVIOUS
    <3>3. Len(<<"relock">>) = 1 /\ Len(<<"closeContainer">>) = 1 /\ Len(<<"discard">>) = 1
      OBVIOUS
    <3>4. rescue # <<>>
      BY <3>1
    <3>. QED BY <3>1, <3>2, <3>3, <3>4 DEF Guarded
  <2>2. \/ /\ rescue' = <<<<"discard", "locking">>>> /\ todo' = <<"closeContainer", "locking">>
        \/ rescue' = <<>> /\ todo' = <<"discard", "locking">>
    <3>1. todo' = Head(rescue) /\ rescue' = Tail(rescue)
      BY <2>1 DEF Throw
    <3>2. \/ /\ Head(rescue) = <<"closeContainer", "locking">>
             /\ Tail(rescue) = <<<<"discard", "locking">>>>
          \/ Head(rescue) = <<"discard", "locking">> /\ Tail(rescue) = <<>>
      <4>1. CASE rescue = Locking
        BY <4>1, RescuesLeft, Zenon
      <4>2. CASE rescue = <<<<"discard", "locking">>>>
        BY <4>2, RescuesLeft, Zenon
      <4>. QED BY <1>7, <4>1, <4>2
    <3>. QED BY <3>1, <3>2
  <2>3. Quiet(todo') /\ rescue' \in Rescues /\ rescue' # <<<<"locked">>>>
    BY <2>2, FallbacksStart, RescuesDiffer DEF Rescues
  <2>4. ~Guarded'
    BY <2>2 DEF Guarded
  <2>5. LocksAgain'
    BY <1>2, <1>9, <2>1 DEF LocksAgain
  <2>. QED BY <1>3, <2>3, <2>4, <2>5
<1>8. CASE rescue = <<<<"locked">>>>
  <2>1. todo' = <<"locked">> /\ rescue' = <<>> /\ rescue # <<>>
    <3>1. rescue # <<>>
      BY <1>8
    <3>. QED BY <1>8, <3>1, RescuesLeft DEF Throw
  <2>2. Begun(todo') /\ TriesFirst(todo') /\ rescue' \in Rescues
    BY <2>1, EndsStart DEF Rescues
  <2>3. ~Guarded' /\ ~Guarded /\ rescue # <<<<"discard">>>>
    BY <1>8, <2>1, RescuesDiffer DEF Guarded
  <2>4. LocksAgain'
    BY <1>2, <1>9, <2>3 DEF LocksAgain
  <2>5. LocksOnly'
    BY <1>8 DEF Caught, LocksOnly
  <2>6. UnlocksGuarded'
    BY <2>2 DEF UnlocksGuarded
  <2>. QED BY <2>2, <2>3, <2>4, <2>5, <2>6, StartsAsExpected DEF Caught
<1>. QED BY <1>4, <1>5, <1>6, <1>7, <1>8 DEF Caught, Rescues, Guarded

\* A call that is taken goes on to the next step, and one that is refused throws.
LEMMA CallsKeep ==
  ASSUME LayersInv, CallFunction PROVE LayersInv'
<1>. DEFINE f == Head(todo)
<1>1. todo # <<>> /\ f \in Functions /\ Call(f) /\ UNCHANGED <<service, view>>
  BY DEF CallFunction
<1>2. Answered(f) /\ Lived'
  BY <1>1, CallsAnswer DEF LayersInv
<1>3. InStep /\ Caught /\ Lived /\ UNCHANGED <<screen, overtaken>>
  BY <1>1 DEF LayersInv, view
<1>4. /\ Expects(f, Step(todo, 2), Step(todo, 3)) /\ Follows(f, Step(todo, 2), Step(todo, 3))
      /\ f = Step(todo, 1)
  BY <1>1, <1>3, TailIsLegal DEF InStep
<1>5. f \notin {"discard", "relock", "closeContainer", "try"} \cup Endings
  BY <1>1 DEF Functions, Endings
<1>6. CASE ~Accepted(answer')
  <2>1. Throw /\ state' = state
    BY <1>2, <1>6 DEF CallFunction, Answered
  <2>2. Agreed'
    BY <1>1, <1>2, <1>3, <1>4, <1>6, RefusalsAgree
  <2>. QED BY <1>1, <1>2, <1>3, <1>5, <2>1, <2>2, ThrowsTo DEF LayersInv
<1>7. CASE Accepted(answer')
  <2>1. Proceed(<<>>)
    BY <1>7 DEF CallFunction
  <2>2. /\ Legal(todo') /\ Step(todo', 1) = Step(todo, 2)
        /\ Step(todo', 2) = Step(todo, 3) /\ Step(todo', 3) = Step(todo, 4)
        /\ rescue' \in Rescues /\ ShowsInEnd' /\ LocksOnly' /\ UnlocksGuarded'
        /\ Guarded => Guarded'
    BY <1>1, <1>3, <1>5, <2>1, GoesOn DEF Endings
  <2>3. PICK b, c, d : b = Step(todo, 2) /\ c = Step(todo, 3) /\ d = Step(todo, 4)
    OBVIOUS
  <2>4. Expects(f, b, c) /\ Follows(f, b, c)
    BY <1>4, <2>3
  <2>5. Expects(b, c, d)'
    BY <1>1, <1>2, <1>3, <1>7, <2>4, CallsLead
  <2>6. InStep'
    BY <2>2, <2>3, <2>5, FindsExpected
  <2>7. ASSUME Shut, state'.unlocked, ~Guarded PROVE FALSE
    <3>1. ~state.unlocked
      <4>1. f \notin {"lock", "close"}
        BY <1>2, <1>7, <2>7 DEF Answered
      <4>. QED BY <1>3, <1>4, <1>5, <2>7, <4>1 DEF Caught, LocksAgain
    <3>2. f \in {"unlock", "create"}
      BY <1>2, <2>7, <3>1 DEF Answered
    <3>3. TriesFirst(todo)
      BY <1>3, <2>7 DEF Caught, UnlocksGuarded
    <3>. QED BY <1>1, <1>3, <3>2, <3>3, TailTries DEF InStep, Unlocking
  <2>8. LocksAgain'
    BY <1>3, <2>2, <2>7 DEF LocksAgain, Shut
  <2>. QED BY <1>2, <2>2, <2>6, <2>8 DEF LayersInv, Caught
<1>. QED BY <1>6, <1>7

\* So does a step that calls nothing and locks nothing.
LEMMA PassesOn ==
  ASSUME LayersInv, Lived', todo # <<>>, Proceed(<<>>), UNCHANGED <<screen, overtaken>>,
         CONSTANT b, CONSTANT c, CONSTANT d,
         b = Step(todo, 2), c = Step(todo, 3), d = Step(todo, 4), Expects(b, c, d)',
         Head(todo) \notin {"try", "shown"}, state'.unlocked => state.unlocked,
         Head(todo) \in {"discard", "relock", "lock", "closeContainer", "close"}
           => ~state'.unlocked
  PROVE  LayersInv'
<1>1. InStep /\ Caught
  BY DEF LayersInv
<1>2. /\ Legal(todo') /\ Step(todo', 1) = Step(todo, 2) /\ Head(todo) = Step(todo, 1)
      /\ Step(todo', 2) = Step(todo, 3) /\ Step(todo', 3) = Step(todo, 4)
      /\ rescue' \in Rescues /\ ShowsInEnd' /\ LocksOnly' /\ UnlocksGuarded'
      /\ Guarded => Guarded'
  BY <1>1, GoesOn
<1>3. InStep'
  BY <1>2, FindsExpected
<1>4. LocksAgain'
  BY <1>1, <1>2 DEF Caught, LocksAgain, Shut
<1>. QED BY <1>2, <1>3, <1>4 DEF LayersInv, Caught

\* What the step at the head of the stretch is followed by.
LEMMA HeadFollows ==
  ASSUME LayersInv, todo # <<>>
  PROVE  \E b, c, d :
           /\ b = Step(todo, 2) /\ c = Step(todo, 3) /\ d = Step(todo, 4)
           /\ Expects(Head(todo), b, c) /\ Follows(Head(todo), b, c)
           /\ Head(todo) = Step(todo, 1)
<1>1. Legal(todo) /\ Expects(Step(todo, 1), Step(todo, 2), Step(todo, 3))
  BY DEF LayersInv, InStep
<1>. QED BY <1>1, TailIsLegal

\* The addon keeps and drops its handle as it is due, ...
LEMMA HandlesKeep ==
  ASSUME LayersInv, KeepHandle PROVE LayersInv'
<1>1. /\ todo # <<>> /\ Head(todo) \in {"own", "disown"} /\ owned' = (Head(todo) = "own")
      /\ Proceed(<<>>) /\ UNCHANGED <<vars, active, service, screen, overtaken>>
  BY DEF KeepHandle, view
<1>2. PICK b, c, d :
        /\ b = Step(todo, 2) /\ c = Step(todo, 3) /\ d = Step(todo, 4)
        /\ Expects(Head(todo), b, c) /\ Follows(Head(todo), b, c)
  BY <1>1, HeadFollows
<1>3. Lived' /\ Expects(b, c, d)'
  BY <1>1, <1>2, HandlesLead DEF LayersInv
<1>4. state' = state
  BY <1>1 DEF vars
<1>. QED BY <1>1, <1>2, <1>3, <1>4, PassesOn

\* ... and the service its container, ...
LEMMA RemembersKeep ==
  ASSUME LayersInv, Remember PROVE LayersInv'
<1>1. todo # <<>> /\ Assigned /\ Proceed(<<>>) /\ UNCHANGED <<screen, overtaken>>
  BY DEF Remember
<1>2. PICK b, c, d :
        /\ b = Step(todo, 2) /\ c = Step(todo, 3) /\ d = Step(todo, 4)
        /\ Expects(Head(todo), b, c) /\ Follows(Head(todo), b, c)
  BY <1>1, HeadFollows
<1>3. /\ Lived' /\ Expects(b, c, d)' /\ (state'.unlocked => state.unlocked)
      /\ Head(todo) = "discard" => ~state'.unlocked
  BY <1>1, <1>2, AssignmentsLead DEF LayersInv
<1>4. Head(todo) \notin {"try", "shown", "relock", "lock", "closeContainer", "close"}
  BY <1>1 DEF Assigned
<1>. QED BY <1>1, <1>2, <1>3, <1>4, PassesOn

\* ... which goes on or gives up with what it requires.
LEMMA RequirementsKeep ==
  ASSUME LayersInv, Require PROVE LayersInv'
<1>1. /\ todo # <<>> /\ Head(todo) \in {"held", "source", "unreplaced", "agrees"}
      /\ Proceed(<<>>) \/ Throw
      /\ UNCHANGED <<vars, native, service, screen, overtaken>>
  BY DEF Require, Requirements, view
<1>2. PICK b, c, d :
        /\ b = Step(todo, 2) /\ c = Step(todo, 3) /\ d = Step(todo, 4)
        /\ Expects(Head(todo), b, c) /\ Follows(Head(todo), b, c)
  BY <1>1, HeadFollows
<1>3. UNCHANGED <<state, committed, candidate, active, owned, service>>
  BY <1>1 DEF vars, document, operations, native
<1>4. Lived' /\ Agreed' /\ Expects(b, c, d)'
  BY <1>1, <1>2, <1>3, OthersLead DEF LayersInv
<1>5. CASE Proceed(<<>>)
  BY <1>1, <1>2, <1>3, <1>4, <1>5, PassesOn
<1>6. CASE Throw
  BY <1>1, <1>3, <1>4, <1>6, ThrowsTo DEF LayersInv
<1>. QED BY <1>1, <1>5, <1>6

\* What openDocument catches is guarded from then on.
LEMMA TriesKeep ==
  ASSUME LayersInv, TryOpen PROVE LayersInv'
<1>1. /\ todo # <<>> /\ Head(todo) = "try" /\ todo' = Tail(todo)
      /\ UNCHANGED <<vars, native, service, screen, overtaken>>
      /\ rescue' = <<IF containerTarget THEN <<"relock">> ELSE <<"closeContainer">>,
                     <<"discard">>>>
  BY DEF TryOpen, view
<1>2. PICK b, c, d :
        /\ b = Step(todo, 2) /\ c = Step(todo, 3) /\ d = Step(todo, 4)
        /\ Expects(Head(todo), b, c) /\ Follows(Head(todo), b, c)
  BY <1>1, HeadFollows
<1>3. UNCHANGED <<state, committed, candidate, active, owned, service>>
  BY <1>1 DEF vars, document, operations, native
<1>4. Lived' /\ Expects(b, c, d)'
  BY <1>1, <1>2, <1>3, OthersLead DEF LayersInv
<1>5. Legal(todo) /\ Caught
  BY DEF LayersInv, InStep
<1>6. /\ Legal(todo') /\ Step(todo', 1) = Step(todo, 2)
      /\ Step(todo', 2) = Step(todo, 3) /\ Step(todo', 3) = Step(todo, 4)
  BY <1>1, <1>5, TailIsLegal
<1>7. InStep'
  BY <1>2, <1>4, <1>6, FindsExpected
<1>8. Guarded' /\ rescue' \in Rescues
  BY <1>1 DEF Guarded, Rescues
<1>10. LocksOnly'
  <2>1. Locks(todo') => Locks(todo)
    BY <1>1, <1>5, TailTries
  <2>2. rescue' # <<<<"locked">>>>
    BY <1>1, RescuesDiffer
  <2>. QED BY <1>1, <1>5, <2>1, <2>2 DEF Caught, LocksOnly
<1>9. Shows(todo')
  <2>1. 1 \in 1 .. Len(todo) /\ todo[1] = "try"
    BY <1>1, <1>5 DEF Legal
  <2>2. Shows(todo)
    BY <1>5, <2>1 DEF Caught, ShowsInEnd, Tries
  <2>. QED BY <1>1, <1>5, <2>2, TailShows
<1>. QED BY <1>4, <1>7, <1>8, <1>9, <1>10
         DEF LayersInv, Caught, ShowsInEnd, UnlocksGuarded, LocksAgain

\* What settles a document ends the stretch, and a locked one is locked.
LEMMA SettlesKeep ==
  ASSUME LayersInv, Settle PROVE LayersInv'
<1>. DEFINE f == Head(todo)
<1>1. /\ todo # <<>> /\ f \in Endings
      /\ Proceed(<<>>) /\ UNCHANGED <<state, committed, candidate, active, owned, service>>
      /\ screen' = CASE f = "shown" -> "open" [] f \in {"locking", "locked"} -> f
                     [] OTHER -> "none"
      /\ f = "locked" /\ overtaken => overtaken'
  <2>1. /\ todo # <<>> /\ f \in Endings
        /\ Proceed(<<>>) /\ UNCHANGED <<state, committed, candidate, active, owned, service>>
        /\ overtaken' = (overtaken /\ f = "locked")
    BY DEF Settle, Endings, document, operations, native
  <2>2. screen' = CASE f = "shown" -> "open" [] f \in {"locking", "locked"} -> f
                    [] OTHER -> "none"
    BY DEF Settle
  <2>. QED BY <2>1, <2>2
<1>2. PICK b, c, d :
        /\ b = Step(todo, 2) /\ c = Step(todo, 3) /\ d = Step(todo, 4)
        /\ Expects(f, b, c) /\ Follows(f, b, c) /\ f = Step(todo, 1)
  BY <1>1, HeadFollows
<1>3. Lived' /\ Expects(b, c, d)'
  BY <1>1, <1>2, OthersLead DEF LayersInv
<1>4. InStep /\ Caught /\ Legal(todo)
  BY DEF LayersInv, InStep
<1>5. /\ Legal(todo') /\ Step(todo', 1) = Step(todo, 2)
      /\ Step(todo', 2) = Step(todo, 3) /\ Step(todo', 3) = Step(todo, 4)
      /\ rescue' \in Rescues /\ ShowsInEnd' /\ todo' = <<>> /\ rescue' = <<>>
  BY <1>1, <1>4, GoesOn DEF Endings
<1>6. InStep'
  BY <1>2, <1>3, <1>5, FindsExpected
<1>7. f = "locking" => ~state'.unlocked
  BY <1>1, <1>2 DEF Expects
<1>8. UnlocksGuarded' /\ LocksOnly'
  <2>1. TriesFirst(<<>>) /\ ~Locks(<<>>) /\ <<>> # <<<<"locked">>>>
    BY DEF TriesFirst, Locks
  <2>. QED BY <1>5, <2>1 DEF UnlocksGuarded, LocksOnly
<1>9. ASSUME f = "locked", Shut', state'.unlocked PROVE FALSE
  <2>1. /\ 1 \in 1 .. Len(todo) /\ todo[1] = f
        /\ \A i \in 1 .. Len(todo) : todo[i] \in Endings => i = Len(todo)
    BY <1>1, <1>4 DEF Legal
  <2>2. Locks(todo) /\ ~Shows(todo)
    BY <1>1, <1>9, <2>1 DEF Locks, Shows
  <2>3. Shut /\ state.unlocked
    BY <1>1, <1>4, <1>9, <2>2 DEF Caught, LocksOnly, Shut
  <2>4. ~Guarded
    BY <1>4, <2>2 DEF Caught, ShowsInEnd
  <2>. QED BY <1>2, <1>4, <1>9, <2>3, <2>4 DEF Caught, LocksAgain
<1>10. LocksAgain'
  BY <1>1, <1>7, <1>9 DEF LocksAgain, Shut
<1>. QED BY <1>3, <1>5, <1>6, <1>8, <1>10 DEF LayersInv, Caught

\* What is put in before a stretch, with no catch and nothing that unlocks, leaves
\* what that stretch shows, catches and unlocks.
LEMMA PutBefore ==
  ASSUME NEW more \in Seq(Steps), NEW q \in Seq(Steps), ~Tries(more)
  PROVE  /\ Shows(q) => Shows(more \o q)
         /\ Tries(more \o q) => Tries(q)
         /\ Locks(more \o q) => Locks(more) \/ Locks(q)
         /\ TriesFirst(q) /\ (\A i \in 1 .. Len(more) : more[i] \notin Unlocking)
              => TriesFirst(more \o q)
<1>. DEFINE m == Len(more)
            n == Len(q)
            p == more \o q
<1>1. /\ m \in Nat /\ n \in Nat /\ Len(p) = m + n
      /\ \A i \in 1 .. m + n : p[i] = IF i <= m THEN more[i] ELSE q[i - m]
      /\ \A i \in 1 .. m : more[i] # "try"
  BY ConcatProperties DEF Tries
<1>. HIDE DEF m, n, p
<1>2. ASSUME NEW i \in 1 .. n PROVE m + i \in 1 .. m + n /\ p[m + i] = q[i]
  <2>1. m + i \in 1 .. m + n /\ ~(m + i <= m) /\ (m + i) - m = i
    BY <1>1
  <2>. QED BY <1>1, <2>1
<1>3. ASSUME NEW i \in 1 .. m + n, i \notin 1 .. m
      PROVE  i - m \in 1 .. n /\ p[i] = q[i - m]
  <2>1. i - m \in 1 .. n /\ ~(i <= m)
    BY <1>1, <1>3
  <2>. QED BY <1>1, <2>1
<1>4. ASSUME NEW i \in 1 .. m PROVE p[i] = more[i]
  <2>1. i \in 1 .. m + n /\ i <= m
    BY <1>1
  <2>. QED BY <1>1, <2>1
<1>5. ASSUME Shows(q) PROVE Shows(p)
  <2>1. n \in 1 .. n /\ q[n] = "shown"
    BY <1>1, <1>5 DEF Shows, n
  <2>2. m + n \in 1 .. m + n /\ p[m + n] = "shown"
    BY <1>2, <2>1
  <2>3. Len(p) > 0 /\ p[Len(p)] = "shown"
    BY <1>1, <2>2
  <2>. QED BY <2>3 DEF Shows
<1>6. ASSUME NEW i \in 1 .. m + n, p[i] = "try" PROVE Tries(q)
  <2>1. i \notin 1 .. m
    BY <1>1, <1>4, <1>6
  <2>2. i - m \in 1 .. n /\ q[i - m] = "try"
    BY <1>3, <1>6, <2>1
  <2>. QED BY <2>2 DEF Tries, n
<1>7. Tries(p) => Tries(q)
  BY <1>1, <1>6 DEF Tries
<1>10. ASSUME NEW i \in 1 .. m + n, p[i] = "locked" PROVE Locks(more) \/ Locks(q)
  <2>1. CASE i \in 1 .. m
    BY <1>4, <1>10, <2>1 DEF Locks, m
  <2>2. CASE i \notin 1 .. m
    <3>1. i - m \in 1 .. n /\ q[i - m] = "locked"
      BY <1>3, <1>10, <2>2
    <3>. QED BY <3>1 DEF Locks, n
  <2>. QED BY <2>1, <2>2
<1>11. Locks(p) => Locks(more) \/ Locks(q)
  BY <1>1, <1>10 DEF Locks
<1>8. ASSUME TriesFirst(q), \A i \in 1 .. m : more[i] \notin Unlocking,
             NEW i \in 1 .. m + n, p[i] \in Unlocking
      PROVE  \E j \in 1 .. i - 1 : p[j] = "try"
  <2>1. i \notin 1 .. m
    BY <1>4, <1>8
  <2>2. i - m \in 1 .. n /\ q[i - m] \in Unlocking
    BY <1>3, <1>8, <2>1
  <2>3. PICK j \in 1 .. (i - m) - 1 : q[j] = "try"
    BY <1>8, <2>2 DEF TriesFirst, n
  <2>4. j \in 1 .. n /\ m + j \in 1 .. i - 1
    BY <1>1, <2>2, <2>3
  <2>. QED BY <1>2, <2>3, <2>4
<1>9. TriesFirst(q) /\ (\A i \in 1 .. m : more[i] \notin Unlocking) => TriesFirst(p)
  BY <1>1, <1>8 DEF TriesFirst
<1>. QED BY <1>5, <1>7, <1>9, <1>11 DEF p, m

\* Nothing that is put in catches anything, and only some of it unlocks.
LEMMA InsertedIsPlain ==
  ASSUME NEW more \in Inserted
  PROVE  /\ more \in Seq(Steps) /\ ~Tries(more) /\ ~Locks(more) /\ more # <<>>
         /\ more[1] \in {"unlock", "lock", "confirm_edit_lease", "complete_activity", "close",
                         "status", "closeContainer", "revision_graph"}
         /\ more \notin {<<"unlock">>, <<"status", "unlockIfLocked">>, Reopening}
              => \A i \in 1 .. Len(more) : more[i] \notin Unlocking
<1>1. CASE more \in {<<"unlock">>, <<"lock">>, <<"confirm_edit_lease">>, <<"complete_activity">>}
  <2>1. PICK a \in {"unlock", "lock", "confirm_edit_lease", "complete_activity"} :
          more = <<a>>
    BY <1>1
  <2>2. Len(more) = 1 /\ more[1] = a /\ more \in Seq(Steps) /\ more # <<>>
    BY <2>1 DEF Steps, Functions
  <2>3. a = "unlock" => more = <<"unlock">>
    BY <2>1
  <2>. QED BY <2>2, <2>3 DEF Tries, Locks, Unlocking
<1>2. CASE more = <<"close", "disown", "forget">>
  BY <1>2 DEF Steps, Functions, Tries, Locks, Unlocking
<1>3. CASE more = <<"status", "unlockIfLocked">>
  BY <1>3 DEF Steps, Functions, Tries, Locks
<1>4. CASE more = Reopening
  BY <1>4 DEF Steps, Functions, Tries, Locks, Reopening
<1>5. CASE more = <<"revision_graph", "restore_activity_outcome">>
  BY <1>5 DEF Steps, Functions, Tries, Locks, Unlocking
<1>. QED BY <1>1, <1>2, <1>3, <1>4, <1>5 DEF Inserted

\* What is put in expects no more than the step it is put in for.
LEMMA DecidesKeep ==
  ASSUME LayersInv, Decide PROVE LayersInv'
<1>. DEFINE f == Head(todo)
            q == Tail(todo)
            more == Decisions[f]
<1>1. /\ todo # <<>> /\ Proceed(more) /\ UNCHANGED <<vars, native, service>>
      /\ UNCHANGED <<screen, overtaken>>
      /\ f \in {"unlockIfLocked", "closeContainer", "relock", "confirmIfReading",
                "syncNativeLeaseSource", "syncImage", "missingOutcome"}
  BY DEF Decide, Decisions, view
<1>2. PICK b, c, d :
        /\ b = Step(todo, 2) /\ c = Step(todo, 3) /\ d = Step(todo, 4)
        /\ Expects(f, b, c) /\ Follows(f, b, c) /\ f = Step(todo, 1)
  BY <1>1, HeadFollows
<1>3. UNCHANGED <<state, committed, candidate, active, owned, service>>
  BY <1>1 DEF vars, document, operations, native
<1>4. Agreed
  BY <1>1, <1>2, NothingDue DEF Dues
<1>5. Agreed' /\ Lived'
  BY <1>3, <1>4 DEF Agreed, Lived, Operation, service, LayersInv
<1>6. Plain(b, c) \/ (f = "closeContainer" /\ b = "locking")
  BY <1>1, <1>2 DEF Follows, Preparations
<1>7. InStep /\ Caught
  BY DEF LayersInv
<1>8. /\ f = "unlockIfLocked" => more \in {<<>>, <<"unlock">>}
      /\ f = "closeContainer" => \/ ~containerTarget /\ more = <<>>
                                 \/ containerTarget /\ more = <<"close", "disown", "forget">>
      /\ f = "relock" => \/ ~state.unlocked /\ more = <<>>
                         \/ more = <<"lock">>
      /\ f = "confirmIfReading" => more \in {<<>>, <<"confirm_edit_lease">>}
      /\ f = "syncNativeLeaseSource" => \/ containerTarget /\ more = <<"status", "unlockIfLocked">>
                                        \/ more = Reopening
      /\ f = "syncImage" => more \in {<<>>, Reopening}
      /\ f = "missingOutcome" => more \in {<<>>, <<"complete_activity">>,
                                           <<"revision_graph", "restore_activity_outcome">>}
  BY DecisionsAre DEF Decisions
<1>. HIDE DEF more
<1>9. more = <<>> \/ more \in Inserted
  BY <1>1, <1>8 DEF Inserted
<1>10. CASE more = <<>>
  <2>1. Proceed(<<>>)
    BY <1>1, <1>10
  <2>2. f \in {"relock", "closeContainer"} => ~state'.unlocked
    <3>1. <<>> # <<"lock">> /\ <<>> # <<"close", "disown", "forget">>
      OBVIOUS
    <3>. QED BY <1>3, <1>4, <1>8, <1>10, <3>1 DEF Agreed
  <2>3. Expects(b, c, d)'
    <3>1. CASE Plain(b, c)
      BY <1>5, <3>1, PlainIsExpected
    <3>2. CASE f = "closeContainer" /\ b = "locking"
      BY <1>5, <2>2, <3>2 DEF Expects, Due, Dues, Knows
    <3>. QED BY <1>6, <3>1, <3>2
  <2>4. f \notin {"try", "shown", "discard", "lock", "close"}
    BY <1>1
  <2>. QED BY <1>1, <1>2, <1>3, <1>5, <2>1, <2>2, <2>3, <2>4, PassesOn
<1>11. CASE more \in Inserted
  <2>1. Legal(todo) /\ Legal(q) /\ q \in Seq(Steps) /\ Step(q, 1) = b /\ Step(q, 2) = c
    BY <1>1, <1>2, <1>7, TailIsLegal DEF InStep, Legal
  <2>2. /\ more \in Seq(Steps) /\ ~Tries(more) /\ ~Locks(more) /\ more # <<>>
        /\ more[1] \in {"unlock", "lock", "confirm_edit_lease", "complete_activity", "close",
                        "status", "closeContainer", "revision_graph"}
        /\ more \notin {<<"unlock">>, <<"status", "unlockIfLocked">>, Reopening}
             => \A i \in 1 .. Len(more) : more[i] \notin Unlocking
    BY <1>11, InsertedIsPlain
  <2>3. /\ f = "unlockIfLocked" => more[1] = "unlock"
        /\ f = "closeContainer" => more = <<"close", "disown", "forget">> /\ more[1] = "close"
        /\ f = "relock" => more[1] = "lock"
        /\ f = "confirmIfReading" => more[1] = "confirm_edit_lease"
        /\ f = "syncNativeLeaseSource" => more[1] \in {"status", "closeContainer"}
        /\ f = "syncNativeLeaseSource" /\ more[1] = "status" => containerTarget
        /\ f = "syncImage" => more[1] = "closeContainer"
        /\ f = "missingOutcome" => more[1] \in {"complete_activity", "revision_graph"}
    BY <1>8, <2>2 DEF Reopening
  <2>4. /\ Legal(more \o q) /\ Step(more \o q, 1) = more[1]
        /\ more[1] = "status" => Step(more \o q, 2) = "unlockIfLocked"
        /\ more \o q # <<>>
    BY <1>6, <1>11, <2>1, <2>3, PutIn
  <2>5. todo' = more \o q /\ rescue' = rescue
    BY <1>1, <2>4 DEF Proceed
  <2>6. PICK x, y, z : x = Step(todo', 1) /\ y = Step(todo', 2) /\ z = Step(todo', 3)
    OBVIOUS
  <2>7. x = more[1] /\ (x = "status" => y = "unlockIfLocked")
    BY <2>4, <2>5, <2>6
  <2>8. Knows(x, y, z) => containerTarget'
    <3>1. Knows(x, y, z) => x \in {"unlock", "status"}
      BY <2>2, <2>7 DEF Knows
    <3>2. x = "status" => containerTarget
      BY <1>1, <2>3, <2>7
    <3>3. x = "unlock" => f = "unlockIfLocked"
      BY <1>1, <2>3, <2>7
    <3>4. f = "unlockIfLocked" => containerTarget
      BY <1>2 DEF Expects, Knows
    <3>. QED BY <1>3, <3>1, <3>2, <3>3, <3>4 DEF service
  <2>9. Expects(x, y, z)'
    BY <1>5, <2>2, <2>7, <2>8, FreelyExpected DEF Dues
  <2>10. InStep'
    BY <2>4, <2>5, <2>6, <2>9, FindsExpected
  <2>11. ShowsInEnd'
    <3>1. Guarded \/ Tries(q) => Shows(todo)
      BY <1>1, <1>7, <2>1, TailTries DEF Caught, ShowsInEnd
    <3>2. Shows(todo) => Shows(q)
      BY <1>1, <2>1, TailShows
    <3>3. Guarded' <=> Guarded
      BY <2>5 DEF Guarded
    <3>4. Tries(todo') => Tries(q)
      BY <2>1, <2>2, <2>5, PutBefore
    <3>5. Shows(q) => Shows(todo')
      BY <2>1, <2>2, <2>5, PutBefore
    <3>. QED BY <3>1, <3>2, <3>3, <3>4, <3>5 DEF ShowsInEnd
  <2>12. UnlocksGuarded'
    <3>. SUFFICES ASSUME Shut, ~Guarded PROVE TriesFirst(todo')
      BY <1>1, <2>5 DEF UnlocksGuarded, Guarded, Shut
    <3>1. TriesFirst(q) /\ f \notin Unlocking
      BY <1>1, <1>7, <2>1, TailTries DEF Caught, UnlocksGuarded
    <3>2. more[1] \notin {"unlock", "status", "closeContainer"}
      BY <1>1, <2>3, <3>1 DEF Unlocking
    <3>3. more \notin {<<"unlock">>, <<"status", "unlockIfLocked">>, Reopening}
      BY <3>2 DEF Reopening
    <3>. QED BY <2>1, <2>2, <2>5, <3>1, <3>3, PutBefore
  <2>13. LocksAgain'
    <3>1. f = "relock" => Step(todo', 1) = "lock"
      BY <2>3, <2>4, <2>5
    <3>2. f = "closeContainer" => Step(todo', 1) = "close"
      BY <2>3, <2>4, <2>5
    <3>. QED BY <1>1, <1>2, <1>3, <1>7, <2>5, <3>1, <3>2
             DEF Caught, LocksAgain, Guarded, Shut
  <2>14. LocksOnly'
    <3>1. Locks(todo') => Locks(todo)
      BY <1>1, <2>1, <2>2, <2>5, PutBefore, TailTries
    <3>. QED BY <1>1, <1>7, <2>5, <3>1 DEF Caught, LocksOnly
  <2>. QED BY <1>5, <1>7, <2>5, <2>10, <2>11, <2>12, <2>13, <2>14 DEF LayersInv, Caught
<1>. QED BY <1>9, <1>10, <1>11

-----------------------------------------------------------------------------
(* Starting an operation *)

\* Between two operations the layers agree, and a locked document is locked.
LEMMA IdleAgrees ==
  ASSUME LayersInv, todo = <<>>
  PROVE  Agreed /\ ~Guarded /\ (Shut => ~state.unlocked)
<1>1. Len(<<>>) = 0
  OBVIOUS
<1>2. Step(todo, 1) = "end" /\ ~Shows(todo)
  BY <1>1 DEF Step, Shows
<1>3. Agreed /\ ~Guarded
  BY <1>2 DEF LayersInv, InStep, Caught, Expects, Due, Dues, ShowsInEnd
<1>. QED BY <1>2, <1>3 DEF LayersInv, Caught, LocksAgain

\* What a stretch may be started with.
Catches == {<<>>, <<<<"closeContainer", "locking">>, <<"discard", "locking">>>>, <<<<"locked">>>>}
\* One that ends a lock is started during it.
LocksDuring(p, onThrow) ==
  Locks(p) \/ onThrow = <<<<"locked">>>> => screen \in {"locking", "locked"}

\* A stretch that finds what it expects may be started.
LEMMA BeginsKeep ==
  ASSUME LayersInv, todo = <<>>, UNCHANGED <<vars, native, service, screen>>,
         overtaken => overtaken', rescue' \in Catches, LocksDuring(todo', rescue'),
         InStep', Tries(todo') => Shows(todo'), Shut' => TriesFirst(todo')
  PROVE  LayersInv'
<1>1. UNCHANGED <<state, candidate, active, owned>> /\ Lived
  BY DEF vars, document, operations, native, LayersInv
<1>2. Lived'
  BY <1>1 DEF Lived
<1>3. ~Guarded' /\ rescue' \in Rescues
  <2>. DEFINE Locking == <<<<"closeContainer", "locking">>, <<"discard", "locking">>>>
  <2>1. Len(Locking[1]) = 2 /\ Len(<<>>) = 0
    OBVIOUS
  <2>2. \A a, b : <<a, b>>[1] = a /\ Len(<<a, b>>) = 2
    OBVIOUS
  <2>3. Len(<<"relock">>) = 1 /\ Len(<<"closeContainer">>) = 1
    OBVIOUS
  <2>4. Locking # <<<<"relock">>, <<"discard">>>>
        /\ Locking # <<<<"closeContainer">>, <<"discard">>>>
    BY <2>1, <2>2, <2>3
  <2>5. rescue' = <<>> => ~Guarded'
    BY DEF Guarded
  <2>6. rescue' = Locking => ~Guarded'
    BY <2>4 DEF Guarded
  <2>7. rescue' = <<<<"locked">>>> => ~Guarded'
    BY RescuesDiffer DEF Guarded
  <2>. QED BY <2>5, <2>6, <2>7 DEF Rescues, Catches
<1>4. ShowsInEnd' /\ LocksOnly' /\ UnlocksGuarded'
  BY <1>3 DEF ShowsInEnd, LocksOnly, LocksDuring, UnlocksGuarded
<1>5. LocksAgain'
  BY <1>1, IdleAgrees DEF LocksAgain, Shut
<1>. QED BY <1>2, <1>3, <1>4, <1>5 DEF LayersInv, Caught

\* A stretch with no catch of its own may, ...
LEMMA StartsKeep ==
  ASSUME LayersInv, NEW p, Begun(p), NEW onThrow \in Catches, Run(p, onThrow),
         screen' = screen, overtaken => overtaken', LocksDuring(p, onThrow),
         Shut' => TriesFirst(p)
  PROVE  LayersInv'
<1>1. todo = <<>> /\ todo' = p /\ rescue' = onThrow /\ UNCHANGED <<vars, native, service>>
  BY DEF Run
<1>2. Agreed
  BY <1>1, IdleAgrees
<1>3. Agreed'
  BY <1>1, <1>2 DEF Agreed, Operation, vars, document, operations, native, service
<1>4. InStep'
  BY <1>1, <1>3, StartsAsExpected
<1>5. ~Tries(todo')
  BY <1>1 DEF Begun
<1>. QED BY <1>1, <1>4, <1>5, BeginsKeep

\* One that neither ends a lock nor unlocks, or not while one is shut, may.
LEMMA RunsKeep ==
  ASSUME LayersInv, NEW p, Starts(p), Run(p, <<>>), screen' = screen,
         overtaken => overtaken', Shut' => Quiet(p)
  PROVE  LayersInv'
<1>1. Begun(p) /\ LocksDuring(p, <<>>) /\ <<>> \in Catches
  <2>1. <<>> # <<<<"locked">>>>
    OBVIOUS
  <2>. QED BY <2>1 DEF Starts, LocksDuring, Catches
<1>2. Shut' => TriesFirst(p)
  BY DEF Quiet, TriesFirst
<1>. QED BY <1>1, <1>2, StartsKeep

\* ... and these two.
LEMMA SettlesStart ==
  /\ LET p == container_finish_save("definite-failure") \o <<"untrack">>
     IN /\ Legal(p) /\ ~Tries(p) /\ ~Locks(p) /\ TriesFirst(p)
        /\ Step(p, 1) = "definite-failure" /\ Step(p, 2) = "untrack" /\ Step(p, 3) = "end"
  /\ LET p == <<>> \o <<"locking">>
     IN Legal(p) /\ ~Tries(p) /\ ~Locks(p) /\ TriesFirst(p) /\ Step(p, 1) = "locking"
<1>1. LET p == container_finish_save("definite-failure") \o <<"untrack">>
      IN /\ Legal(p) /\ ~Tries(p) /\ ~Locks(p) /\ TriesFirst(p)
         /\ Step(p, 1) = "definite-failure" /\ Step(p, 2) = "untrack" /\ Step(p, 3) = "end"
  <2>. DEFINE p == container_finish_save("definite-failure") \o <<"untrack">>
  <2>1. p \in Seq(Steps) /\ Len(p) = 2 /\ p[1] = "definite-failure" /\ p[2] = "untrack"
    BY DEF container_finish_save, Steps, Functions
  <2>. HIDE DEF p
  <2>2. Legal(p)
    BY <2>1 DEF Legal, Endings, Step, Follows, Plain, Due, Dues, Preparations
  <2>3. ~Tries(p) /\ ~Locks(p) /\ TriesFirst(p)
    BY <2>1 DEF Tries, Locks, TriesFirst, Unlocking
  <2>4. Step(p, 1) = "definite-failure" /\ Step(p, 2) = "untrack" /\ Step(p, 3) = "end"
    BY <2>1 DEF Step
  <2>. QED BY <2>2, <2>3, <2>4 DEF p
<1>2. LET p == <<>> \o <<"locking">>
      IN Legal(p) /\ ~Tries(p) /\ ~Locks(p) /\ TriesFirst(p) /\ Step(p, 1) = "locking"
  <2>. DEFINE p == <<>> \o <<"locking">>
  <2>1. p \in Seq(Steps) /\ Len(p) = 1 /\ p[1] = "locking"
    BY DEF Steps, Functions
  <2>. HIDE DEF p
  <2>2. Legal(p)
    BY <2>1 DEF Legal, Endings, Step, Follows, Plain, Due, Dues, Preparations
  <2>3. ~Tries(p) /\ ~Locks(p) /\ TriesFirst(p) /\ Step(p, 1) = "locking"
    BY <2>1 DEF Tries, Locks, TriesFirst, Unlocking, Step
  <2>. QED BY <2>2, <2>3 DEF p
<1>. QED BY <1>1, <1>2

\* Opening, and unlocking, starts under the service's own catch.
LEMMA OpensKeep ==
  ASSUME LayersInv, NEW s, openDocument(s) PROVE LayersInv'
<1>. DEFINE same == sameImage
            pending == pendingNativeCandidate # None
            invited == open_revised_document(disk, s).mustBeChanged
<1>1. /\ todo = <<>> /\ todo' = Opening(same, pending, invited) /\ rescue' = <<>>
      /\ UNCHANGED <<vars, native, service, screen, overtaken>>
  BY DEF openDocument, Run, Opening
<1>2. same \in BOOLEAN /\ pending \in BOOLEAN /\ invited \in BOOLEAN
  BY DEF sameImage, open_revised_document
<1>3. same => containerTarget
  BY DEF sameImage
<1>. HIDE DEF same, pending, invited
<1>4. Opens(todo', same)
  BY <1>1, <1>2, OpeningStarts
<1>5. Agreed'
  <2>1. Agreed
    BY <1>1, IdleAgrees
  <2>. QED BY <1>1, <2>1 DEF Agreed, Operation, vars, document, operations, native, service
<1>6. PICK a, b, c : a = Step(todo', 1) /\ b = Step(todo', 2) /\ c = Step(todo', 3)
  OBVIOUS
<1>7. Expects(a, b, c)'
  <2>1. CASE same
    <3>1. a = "try" /\ containerTarget'
      BY <1>1, <1>3, <1>4, <1>6, <2>1 DEF Opens, service
    <3>. QED BY <1>5, <3>1, FreelyExpected DEF Dues
  <2>2. CASE ~same
    <3>1. Plain(a, b)
      BY <1>4, <1>6, <2>2 DEF Opens, Plain, Due, Dues
    <3>. QED BY <1>5, <3>1, PlainIsExpected
  <2>. QED BY <2>1, <2>2
<1>8. InStep'
  BY <1>4, <1>6, <1>7, FindsExpected DEF Opens
<1>9. Shows(todo') /\ TriesFirst(todo') /\ Legal(todo')
  BY <1>4 DEF Opens
<1>10. ~Locks(todo')
  <2>1. ASSUME NEW i \in 1 .. Len(todo'), todo'[i] = "locked" PROVE FALSE
    <3>1. i = Len(todo')
      BY <1>9, <2>1 DEF Legal, Endings
    <3>. QED BY <1>9, <2>1, <3>1 DEF Shows
  <2>. QED BY <2>1 DEF Locks
<1>11. LocksDuring(todo', rescue') /\ rescue' \in Catches
  <2>1. <<>> # <<<<"locked">>>>
    OBVIOUS
  <2>. QED BY <1>1, <1>10, <2>1 DEF LocksDuring, Catches
<1>. QED BY <1>1, <1>8, <1>9, <1>11, BeginsKeep

\* A candidate that was not written is given up.
LEMMA GivesUpKeep ==
  ASSUME LayersInv, UNCHANGED <<screen, overtaken>>,
         Run(container_finish_save("definite-failure") \o <<"untrack">>, <<>>)
  PROVE  LayersInv'
<1>1. /\ todo = <<>> /\ todo' = container_finish_save("definite-failure") \o <<"untrack">>
      /\ rescue' = <<>> /\ UNCHANGED <<vars, native, service>>
  BY DEF Run
<1>2. Agreed'
  <2>1. Agreed
    BY <1>1, IdleAgrees
  <2>. QED BY <1>1, <2>1 DEF Agreed, Operation, vars, document, operations, native, service
<1>3. /\ Legal(todo') /\ ~Tries(todo') /\ ~Locks(todo') /\ TriesFirst(todo')
      /\ Step(todo', 1) = "definite-failure" /\ Step(todo', 2) = "untrack"
      /\ Step(todo', 3) = "end"
  BY <1>1, SettlesStart
<1>4. Expects("definite-failure", "untrack", "end")'
  BY <1>2, FreelyExpected DEF Dues, Knows
<1>5. InStep'
  BY <1>3, <1>4, FindsExpected
<1>6. LocksDuring(todo', rescue') /\ rescue' \in Catches
  <2>1. <<>> # <<<<"locked">>>>
    OBVIOUS
  <2>. QED BY <1>1, <1>3, <2>1 DEF LocksDuring, Catches
<1>. QED BY <1>1, <1>3, <1>5, <1>6, BeginsKeep

\* The lock of a document that has no container only says so.
LEMMA LocksKeep ==
  ASSUME LayersInv, finishLock PROVE LayersInv'
<1>. DEFINE Locking == <<<<"closeContainer", "locking">>, <<"discard", "locking">>>>
<1>1. screen = "open" /\ UNCHANGED <<screen, overtaken>>
  BY DEF finishLock, view
<1>2. ~Shut' /\ Locking \in Catches /\ Locking # <<<<"locked">>>>
  BY <1>1, RescuesDiffer DEF Shut, Catches
<1>3. CASE containerTarget
  <2>1. \/ Run(<<"closeContainer">> \o <<"locking">>, Locking)
        \/ Run(container_lock \o <<"locking">>, Locking)
    BY <1>3 DEF finishLock, lockOrClose
  <2>. HIDE DEF Locking
  <2>2. ASSUME NEW p, Starts(p), Run(p, Locking) PROVE LayersInv'
    <3>1. Begun(p) /\ LocksDuring(p, Locking)
      BY <1>2, <2>2 DEF Starts, LocksDuring
    <3>. QED BY <1>1, <1>2, <2>2, <3>1, StartsKeep
  <2>. QED BY <2>1, <2>2, LocksStart
<1>4. CASE ~containerTarget
  <2>1. /\ todo = <<>> /\ todo' = <<>> \o <<"locking">> /\ rescue' = Locking
        /\ UNCHANGED <<vars, native, service>>
    BY <1>4 DEF finishLock, lockOrClose, Run
  <2>. HIDE DEF Locking
  <2>2. /\ Legal(todo') /\ ~Tries(todo') /\ ~Locks(todo') /\ Step(todo', 1) = "locking"
    BY <2>1, SettlesStart
  <2>3. Agreed' /\ ~state'.unlocked
    <3>1. Agreed
      BY <2>1, IdleAgrees
    <3>. QED BY <1>4, <2>1, <3>1
             DEF Agreed, Operation, vars, document, operations, native, service
  <2>4. PICK b, c : b = Step(todo', 2) /\ c = Step(todo', 3)
    OBVIOUS
  <2>5. Expects("locking", b, c)'
    BY <2>3 DEF Expects, Due, Dues, Knows
  <2>6. InStep'
    BY <2>2, <2>4, <2>5, FindsExpected
  <2>7. LocksDuring(todo', rescue')
    BY <1>2, <2>1, <2>2 DEF LocksDuring
  <2>. QED BY <1>1, <1>2, <2>1, <2>2, <2>6, <2>7, BeginsKeep
<1>. QED BY <1>3, <1>4

\* The end of the lock unlocks nothing, and a late change of a password is
\* an operation it has overtaken.
LEMMA EndsKeep ==
  ASSUME LayersInv PROVE /\ clearSession => LayersInv'
                         /\ \A s \in Slots : changePasswordLate(s) => LayersInv'
<1>1. <<<<"locked">>>> \in Catches
  BY DEF Catches
<1>2. ASSUME clearSession PROVE LayersInv'
  <2>1. \/ Run(<<>> \o <<"locked">>, <<<<"locked">>>>)
        \/ Run((container_prepare_lease_change \o <<"track">>) \o <<"locked">>,
               <<<<"locked">>>>)
    BY <1>2 DEF clearSession, prepareSuspendedLeaseRelease
  <2>2. screen = "locking" /\ UNCHANGED <<screen, overtaken>>
    BY <1>2 DEF clearSession, view
  <2>3. ASSUME NEW p, Begun(p), TriesFirst(p), Run(p, <<<<"locked">>>>) PROVE LayersInv'
    <3>1. LocksDuring(p, <<<<"locked">>>>)
      BY <2>2 DEF LocksDuring
    <3>. QED BY <1>1, <2>2, <2>3, <3>1, StartsKeep
  <2>. QED BY <2>1, <2>3, EndsStart
<1>3. ASSUME NEW s \in Slots, changePasswordLate(s) PROVE LayersInv'
  <2>. DEFINE p == <<"syncImage">> \o container_prepare_slot_change \o <<"track", "locked">>
  <2>1. screen = "locked" /\ screen' = screen /\ overtaken' /\ Run(p, <<<<"locked">>>>)
    BY <1>3 DEF changePasswordLate, CarryOn
  <2>2. Begun(p)
    BY EndsStart
  <2>. HIDE DEF p
  <2>3. LocksDuring(p, <<<<"locked">>>>) /\ ~Shut'
    BY <2>1 DEF LocksDuring, Shut
  <2>. QED BY <1>1, <2>1, <2>2, <2>3, StartsKeep
<1>. QED BY <1>2, <1>3

\* What touches neither the layers nor the stretch leaves them.
LEMMA StillAgrees ==
  ASSUME LayersInv,
         UNCHANGED <<state, committed, candidate, active, owned, containerTarget,
                     containerBytes, pendingNativeCandidate, screen, overtaken, todo, rescue>>
  PROVE  LayersInv'
<1>1. PICK b, c, d : b = Step(todo, 1) /\ c = Step(todo, 2) /\ d = Step(todo, 3)
  OBVIOUS
<1>2. Expects(b, c, d)
  BY <1>1 DEF LayersInv, InStep
<1>3. Expects(b, c, d)'
  BY <1>2 DEF Expects, Agreed, Operation
<1>4. InStep'
  BY <1>1, <1>3, FindsExpected DEF LayersInv, InStep
<1>5. Lived' /\ Caught'
  BY DEF LayersInv, Lived, Caught, ShowsInEnd, LocksOnly, UnlocksGuarded, LocksAgain,
         Guarded, Shut
<1>. QED BY <1>4, <1>5 DEF LayersInv

\* Every operation starts as it should.
LEMMA StartingKeeps ==
  ASSUME LayersInv, Starting PROVE LayersInv'
<1>1. ASSUME createDocument PROVE LayersInv'
  <2>1. ~Shut' /\ UNCHANGED <<screen, overtaken>>
    BY <1>1 DEF createDocument, view, Shut
  <2>2. \/ Run(container_create \o <<"assign">> \o <<"created">>, <<>>)
        \/ Run(container_create \o <<"assign">> \o <<"closeContainer">>, <<>>)
    BY <1>1 DEF createDocument
  <2>. QED BY <2>1, <2>2, CreationStarts, RunsKeep
<1>2. ASSUME prepareSaveCandidate \/ prepareSlotCandidate \/ prepareMergeResolution
             \/ publishNativeLease \/ compactHistory
             \/ \E phase \in {"attempt", "outcome"} : publishActivity(phase)
      PROVE  LayersInv'
  <2>1. ~Shut' /\ screen' = screen /\ (overtaken => overtaken')
    BY <1>2 DEF prepareSaveCandidate, prepareSlotCandidate, prepareMergeResolution,
                publishNativeLease, compactHistory, publishActivity, Preparing, Asking,
                CarryOn, Shut
  <2>2. \/ Run((LeaseSource \o <<"held">> \o container_prepare_save) \o <<"track">>, <<>>)
        \/ Run((<<"syncImage">> \o container_prepare_slot_change) \o <<"track">>, <<>>)
        \/ Run((<<"syncImage">> \o container_lease_mode \o <<"confirmIfReading">>
                \o container_prepare_merge) \o <<"track">>, <<>>)
        \/ Run((<<"syncNativeLeaseSource">> \o container_bytes \o <<"source">>
                \o container_prepare_lease_change) \o <<"track">>, <<>>)
        \/ Run((LeaseSource \o <<"held">> \o container_prepare_compaction) \o <<"track">>, <<>>)
        \/ Run(container_prepare_activity("attempt") \o <<"track">>, <<>>)
        \/ Run(container_prepare_activity("outcome") \o <<"track">>, <<>>)
    BY <1>2 DEF prepareSaveCandidate, prepareSlotCandidate, prepareMergeResolution,
                publishNativeLease, compactHistory, publishActivity, Preparing, Asking,
                CarryOn
  <2>. QED BY <2>1, <2>2, PreparationsStart, RunsKeep
<1>3. ASSUME completeActivity \/ restoreActivity \/ acquireLease PROVE LayersInv'
  <2>1. ~Shut' /\ screen' = screen /\ (overtaken => overtaken')
    BY <1>3 DEF completeActivity, restoreActivity, acquireLease, Asking, CarryOn, Shut
  <2>2. \/ Run(container_complete_activity, <<>>)
        \/ Run(container_activity_status \o <<"missingOutcome">>, <<>>)
        \/ Run(<<"syncNativeLeaseSource">> \o container_authenticated_lease
               \o container_lease_advice, <<>>)
    BY <1>3 DEF completeActivity, restoreActivity, acquireLease, Asking, CarryOn
  <2>. QED BY <2>1, <2>2, QuestionsStart, RunsKeep
<1>4. ASSUME finishSave \/ resolveSave PROVE LayersInv'
  <2>1. UNCHANGED <<screen, overtaken>>
    BY <1>4 DEF finishSave, resolveSave, Reporting, view
  <2>2. \/ Run(container_finish_save("verified") \o container_bytes \o <<"adopted">>, <<>>)
        \/ Run(container_finish_save("definite-failure") \o <<"untrack">>, <<>>)
        \/ Run(container_finish_save("ambiguous"), <<>>)
        \/ Run(container_resolve_save(TRUE) \o container_bytes \o <<"adopted">>, <<>>)
        \/ Run(container_resolve_save(FALSE) \o <<"untrack">>, <<>>)
    BY <1>4 DEF finishSave, resolveSave, Reporting
  <2>. QED BY <2>1, <2>2, OutcomesStart, RunsKeep, GivesUpKeep DEF Quiet
<1>5. ASSUME closeDocument PROVE LayersInv'
  <2>1. UNCHANGED <<screen, overtaken>> /\ Run(<<"closeContainer", "closed">>, <<>>)
    BY <1>5 DEF closeDocument, view
  <2>. QED BY <2>1, EndsStart, RunsKeep DEF Quiet
<1>6. ASSUME publishCandidate \/ foreignWrite PROVE LayersInv'
  <2>1. UNCHANGED <<state, committed, candidate, native, service, screen, overtaken, calls>>
    BY <1>6 DEF publishCandidate, WriteCandidate, foreignWrite, document, operations, view
  <2>. QED BY <2>1, StillAgrees DEF native, service, calls
<1>. QED BY <1>1, <1>2, <1>3, <1>4, <1>5, <1>6, OpensKeep, LocksKeep, EndsKeep DEF Starting

\* The invariant, and what it says between two operations.
LEMMA LayersInductive ==
  /\ InitSession => LayersInv
  /\ LayersInv /\ [NextSession]_allVars => LayersInv'
  /\ LayersInv => LayersAgree /\ LockedIsLocked
<1>1. InitSession => LayersInv
  <2>. SUFFICES ASSUME InitSession PROVE LayersInv
    OBVIOUS
  <2>1. /\ state = ClosedState /\ candidate = None /\ active = FALSE /\ owned = FALSE
        /\ containerTarget = FALSE /\ pendingNativeCandidate = None
        /\ screen = "none" /\ todo = <<>> /\ rescue = <<>>
    BY DEF InitSession, Init
  <2>2. Lived /\ Agreed
    BY <2>1 DEF Lived, Agreed, Operation, ClosedState
  <2>3. Starts(<<>>)
    BY FallbacksStart DEF Quiet
  <2>4. InStep
    BY <2>1, <2>2, <2>3, PlainIsExpected DEF Starts, Begun, InStep
  <2>5. Caught
    <3>1. <<>> # <<<<"locked">>>>
      OBVIOUS
    <3>. QED BY <2>1, <2>3, <3>1
             DEF Caught, Rescues, Guarded, ShowsInEnd, LocksOnly, UnlocksGuarded, LocksAgain,
                 Starts, Begun, Shut
  <2>. QED BY <2>2, <2>4, <2>5 DEF LayersInv
<1>2. ASSUME LayersInv, [NextSession]_allVars PROVE LayersInv'
  <2>1. CASE Running
    BY <1>2, <2>1, CallsKeep, HandlesKeep, DecidesKeep, RequirementsKeep, RemembersKeep,
       TriesKeep, SettlesKeep DEF Running
  <2>2. CASE Starting
    BY <1>2, <2>2, StartingKeeps
  <2>3. CASE UNCHANGED allVars
    BY <1>2, <2>3, StillAgrees
       DEF allVars, vars, document, operations, native, service, view, calls
  <2>. QED BY <1>2, <2>1, <2>2, <2>3 DEF NextSession
<1>3. LayersInv => LayersAgree
  <2>. SUFFICES ASSUME LayersInv, todo = <<>> PROVE Agreed /\ active = state.open
    BY DEF LayersAgree, Agreed
  <2>. QED BY IdleAgrees DEF LayersInv, Lived
<1>4. LayersInv => LockedIsLocked
  BY IdleAgrees DEF LockedIsLocked, Shut
<1>. QED BY <1>1, <1>2, <1>3, <1>4

\* Between two operations the handle of the context is live just while a container
\* is open, the addon holds just that handle, the service knows no container but
\* that one at the image it has confirmed, and the operation it has to settle is
\* the retained candidate's, whichever calls were refused (document-service.mjs,
\* addon.cpp, context_abi.cpp).
THEOREM LayersStayAgreed == SpecSession => []LayersAgree
BY LayersInductive, PTL DEF SpecSession

\* Once the first stretch of a document's lock has run, the native container is
\* locked or gone, even if it refuses to be locked and to be closed; the end of the
\* lock and failed attempts to unlock leave it so.  Only an operation the lock has
\* overtaken may unlock it again (finishLock, clearSession, openActiveContainer).
THEOREM LockedStaysLocked == SpecSession => []LockedIsLocked
BY LayersInductive, PTL DEF SpecSession
=============================================================================
