---------------------------- MODULE WorkRecovery ----------------------------
(***************************************************************************)
(* The working copy of one open document and the work journal behind it:   *)
(* typing, recovery checkpoints, manual and regular saves, lease           *)
(* refreshes, the lock, crashes and reopening (DocumentService).           *)
(*                                                                         *)
(* Two chains serialise the host's work: publicationChain (saves and lease *)
(* changes) and flushChain (checkpoints).  Neither waits for the other, so *)
(* both write the one journal record of the document.                      *)
(*                                                                         *)
(* Text is the number of the edit that produced it.  The target is its     *)
(* text, its head revision and whether that revision is manually sealed;   *)
(* here nobody else writes it (Publication models other writers).  A key   *)
(* is "good" or, once the host has overwritten its buffer, "zero": what is *)
(* written under a zeroed key cannot be read by a later session.           *)
(***************************************************************************)
EXTENDS Naturals, Sequences

CONSTANTS
  MaxText,      \* bound on edits
  MaxRevision,  \* bound on saves
  MaxRefreshes, \* bound on lease refreshes
  MaxFaults,    \* bound on crashes and failed calls
  RegularSaves, \* is the regular save preference enabled?
  None,         \* no text, no journal, no publication
  Undefined     \* a property that was never set

ASSUME BoundsAreNaturals ==
  /\ MaxText \in Nat /\ MaxRevision \in Nat /\ MaxRefreshes \in Nat
  /\ MaxFaults \in Nat /\ RegularSaves \in BOOLEAN

VARIABLES
  target,      \* the shared file: [text, rev, sealed]
  journal,     \* the durable record: None or [text, base, key, pub]
  mode,        \* closed, viewing, editing, locking or flushing
  session,     \* DocumentService.active (see Session)
  timer,       \* is the checkpoint timer armed?
  flush,       \* the checkpoint being written (flushChain)
  queue,       \* publications waiting in publicationChain
  pub,         \* the publication in progress
  manual,      \* the manual save under way
  regular,     \* the regular save under way
  late,        \* the journal write that ends a regular save
  journalSaved,\* did the last lock write its checkpoint?
  newest,      \* the last text typed
  refreshes, faults

chains == <<timer, flush, queue, pub>>
saves == <<manual, regular, late>>
bounds == <<newest, refreshes, faults>>
vars == <<target, journal, mode, session, chains, saves, journalSaved, bounds>>

Texts == 0..MaxText
Revisions == 0..MaxRevision
Keys == {"good", "zero"}
Images == [text: Texts, rev: Revisions, sealed: BOOLEAN]

Purposes == {"acquire", "refresh", "manual", "regular"}
PubSteps == {"preparing", "prepared", "staged", "replaced", "verified", "cleaned"}
Journaled == [purpose: Purposes, preserve: BOOLEAN, image: Images]
Records == [text: Texts, base: Revisions, key: Keys, pub: Journaled \cup {None}]
Publications ==
  [step: PubSteps, purpose: Purposes, text: Texts, base: Revisions, key: Keys,
   preserve: BOOLEAN, image: Images]
\* What DocumentService.active remembers between calls; record is its
\* pendingRecord, which need not hold a publication; recovery is the work that
\* is offered, and what restoring it would put in the editor.
Session ==
  [working: Texts \cup {Undefined}, dirty: BOOLEAN, opened: Texts,
   base: Revisions, sealed: BOOLEAN, key: Keys,
   recovery: [offered: Texts, text: Texts \cup {Undefined}] \cup {None},
   pending: BOOLEAN, record: Records \cup {None}]
NoSession ==
  [working |-> 0, dirty |-> FALSE, opened |-> 0, base |-> 0, sealed |-> TRUE,
   recovery |-> None, key |-> "good", pending |-> FALSE, record |-> None]

Waiting == Purposes \ {"acquire"}
Owners == {"timer", "regular", "lock"}
Flushes ==
  [step: {"reading"}, owner: Owners]
    \cup [step: {"writing"}, owner: Owners, text: Texts, base: Revisions, key: Keys]
ManualSaves == [step: {"drain", "queued", "adopting"}, text: Texts]
Checkpoints == [text: Texts, base: Revisions, key: Keys]

\* None and undefined are equal to nothing else.
ASSUME NoValues ==
  /\ None \notin Nat /\ Undefined \notin Nat /\ Undefined # None
  /\ \A v \in {None, Undefined} :
       /\ v \notin Publications /\ v \notin Records /\ v \notin Journaled
       /\ v \notin Flushes /\ v \notin ManualSaves /\ v \notin Checkpoints
       /\ v \notin [offered: Texts, text: Texts \cup {Undefined}]

Init ==
  /\ target = [text |-> 0, rev |-> 0, sealed |-> TRUE]
  /\ journal = None /\ mode = "closed"
  /\ session = NoSession
  /\ timer = FALSE /\ flush = None /\ queue = <<>> /\ pub = None
  /\ manual = None /\ regular = None /\ late = None
  /\ journalSaved = TRUE /\ newest = 0 /\ refreshes = 0 /\ faults = 0

-----------------------------------------------------------------------------
(* Helpers *)

\* Nothing of an earlier session is still running.
Quiet ==
  /\ flush = None /\ queue = <<>> /\ pub = None
  /\ manual = None /\ regular = None /\ late = None

Live == mode \in {"editing", "locking", "flushing"}
Interrupted == journal # None /\ journal.pub # None
Readable == journal # None => journal.key = "good"

Record(p) ==
  [text |-> p.text, base |-> p.base, key |-> p.key,
   pub |-> [purpose |-> p.purpose, preserve |-> p.preserve, image |-> p.image]]
Work(c) == [text |-> c.text, base |-> c.base, key |-> c.key, pub |-> None]

\* What #cleanup leaves in the journal.
Leftover(r) == IF r.pub.preserve THEN [r EXCEPT !.pub = None] ELSE None

\* #leasePendingWork: unsaved text a lease change carries with it.
LeaseWork ==
  IF session.dirty THEN session.working
  ELSE IF session.recovery # None THEN session.recovery.text ELSE None

Start(purpose, text, preserve, image) ==
  pub' = [step |-> "preparing", purpose |-> purpose, text |-> text,
          base |-> session.base, key |-> session.key, preserve |-> preserve,
          image |-> image]

StartLease(purpose) ==
  Start(purpose, IF LeaseWork \in Texts THEN LeaseWork ELSE session.opened,
        LeaseWork # None, target)

\* Whether #flushActive writes anything.
NeedsCheckpoint == session.dirty /\ ~session.pending

-----------------------------------------------------------------------------
(* Opening and entering edit mode *)

\* #openPendingDocument offers what the completed publication left in the
\* journal, or a regular save, but does not store it as "text".
AfterPublication(image, left) ==
  IF left # None THEN [offered |-> left.text, text |-> Undefined]
  ELSE IF journal.pub.purpose = "regular" /\ ~image.sealed
  THEN [offered |-> image.text, text |-> Undefined]
  ELSE None

\* (mutant) the base of the journaled work is not compared
AnyJournal ==
  IF journal # None THEN [offered |-> journal.text, text |-> journal.text]
  ELSE IF ~target.sealed THEN [offered |-> target.text, text |-> target.text]
  ELSE None

\* openDocument offers work typed over the revision that the target holds, and
\* otherwise provisional work in the target.
AfterCrash ==
  IF journal # None /\ journal.base = target.rev
  THEN [offered |-> journal.text, text |-> journal.text]
  ELSE IF ~target.sealed THEN [offered |-> target.text, text |-> target.text]
  ELSE None

OpenedAs(image, recovery) ==
  session' = [NoSession EXCEPT !.working = image.text, !.opened = image.text,
                !.base = image.rev, !.sealed = image.sealed,
                !.recovery = recovery]

Open ==
  /\ mode = "closed" /\ Quiet
  /\ mode' = "viewing"
  /\ \/ /\ ~Readable
        /\ OpenedAs(target, None) /\ UNCHANGED <<target, journal>>
     \/ /\ Readable /\ Interrupted
        /\ target' = journal.pub.image /\ journal' = Leftover(journal)
        /\ OpenedAs(target', AfterPublication(target', journal'))
     \/ /\ Readable /\ ~Interrupted
        /\ OpenedAs(target, AfterCrash) /\ UNCHANGED <<target, journal>>
  /\ UNCHANGED <<chains, saves, journalSaved, bounds>>

\* enterEditMode, or restoreRecoveredWork when there is work to restore: the
\* lease is published first.  An unreadable journal must be discarded first.
Acquire ==
  /\ mode = "viewing" /\ pub = None /\ ~session.pending /\ Readable
  /\ StartLease("acquire")
  /\ UNCHANGED <<target, journal, mode, session, timer, flush, queue, saves,
                 journalSaved, bounds>>

\* discardRecoveredWork (of a sealed document) and
\* discardUnreadableJournalForSwitch: the journal is cleared.
DiscardWork ==
  /\ mode = "viewing" /\ pub = None /\ ~session.pending
  /\ ~Readable \/ (session.recovery # None /\ session.sealed)
  /\ journal' = None /\ session' = [session EXCEPT !.recovery = None]
  /\ UNCHANGED <<target, mode, chains, saves, journalSaved, bounds>>

\* Locking a session that is only viewing, which has nothing to flush.
Close ==
  /\ mode = "viewing" /\ pub = None
  /\ mode' = "closed" /\ session' = NoSession
  /\ UNCHANGED <<target, journal, chains, saves, journalSaved, bounds>>

-----------------------------------------------------------------------------
(* Editing and checkpoints *)

\* updateWorkingCopy
Edit ==
  /\ mode = "editing" /\ ~session.pending /\ newest < MaxText
  /\ newest' = newest + 1 /\ timer' = TRUE
  /\ session' = [session EXCEPT !.working = newest + 1, !.dirty = TRUE]
  /\ UNCHANGED <<target, journal, mode, flush, queue, pub, saves, journalSaved,
                 refreshes, faults>>

\* The checkpoint timer calls #flushActive.
CheckpointDue ==
  /\ mode = "editing" /\ timer /\ flush = None
  /\ timer' = FALSE
  /\ flush' = IF NeedsCheckpoint THEN [step |-> "reading", owner |-> "timer"]
              ELSE None
  /\ UNCHANGED <<target, journal, mode, session, queue, pub, saves,
                 journalSaved, bounds>>

\* #finishLock ends: the key is overwritten, also under a publication that
\* still uses it.
EndSession ==
  /\ mode' = "closed" /\ session' = NoSession /\ timer' = FALSE
  /\ pub' = IF pub = None THEN None ELSE [pub EXCEPT !.key = "zero"]

\* What waits for a checkpoint goes on, a regular save only if it succeeded.
FlushEnds(ok) ==
  LET saved == IF flush.owner = "regular" /\ ok THEN <<"regular">> ELSE <<>>
      drained == IF manual # None /\ manual.step = "drain" THEN <<"manual">>
                 ELSE <<>>
  IN /\ flush' = None
     /\ queue' = queue \o saved \o drained
     /\ manual' = IF drained = <<>> THEN manual
                  ELSE [manual EXCEPT !.step = "queued"]
     /\ regular' = IF flush.owner = "regular" /\ ~ok THEN None ELSE regular
     /\ IF flush.owner = "lock" THEN EndSession /\ journalSaved' = ok
        ELSE UNCHANGED <<mode, session, timer, pub, journalSaved>>

\* The prior record has been read and the working copy is captured.  A
\* prior record the key does not open, or a working copy without text, fails
\* the checkpoint.
CaptureFlush ==
  /\ flush # None /\ flush.step = "reading"
  /\ LET opens == Live /\ session.working # Undefined
                    /\ (journal # None => journal.key = session.key)
     IN \/ /\ opens
           /\ flush' = [step |-> "writing", owner |-> flush.owner,
                        text |-> session.working, base |-> session.base,
                        key |-> session.key]
           /\ UNCHANGED <<mode, session, timer, queue, pub, manual, regular,
                          journalSaved>>
        \/ ~opens /\ FlushEnds(FALSE)
  /\ UNCHANGED <<target, journal, late, bounds>>

LandFlush ==
  /\ flush # None /\ flush.step = "writing"
  /\ journal' = Work(flush) /\ FlushEnds(TRUE)
  /\ UNCHANGED <<target, late, bounds>>

FailFlush ==
  /\ flush # None /\ faults < MaxFaults /\ faults' = faults + 1
  /\ FlushEnds(FALSE)
  /\ UNCHANGED <<target, journal, late, newest, refreshes>>

-----------------------------------------------------------------------------
(* Saves and lease refreshes queue in publicationChain *)

\* Revisions that the saves under way may still add.
Saving == (IF manual = None THEN 0 ELSE 1) + (IF regular = None THEN 0 ELSE 1)

\* (mutant) a save does not wait for the answer to the last one
SubmitAgain ==
  /\ mode = "editing" /\ ~session.pending
  /\ session.working # Undefined /\ target.rev + Saving < MaxRevision
  /\ timer' = FALSE /\ queue' = Append(queue, "manual")
  /\ manual' = [step |-> "queued", text |-> session.working]
  /\ UNCHANGED <<target, journal, mode, session, flush, pub, regular, late,
                 journalSaved, bounds>>

\* saveDocument: the checkpoint timer is cancelled, and the save is queued
\* once the checkpoint being written, if any, has ended.
SubmitManual ==
  /\ mode = "editing" /\ ~session.pending /\ manual = None
  /\ session.working # Undefined /\ target.rev + Saving < MaxRevision
  /\ timer' = FALSE
  /\ \/ /\ flush = None /\ queue' = Append(queue, "manual")
        /\ manual' = [step |-> "queued", text |-> session.working]
     \/ /\ flush # None /\ UNCHANGED queue
        /\ manual' = [step |-> "drain", text |-> session.working]
  /\ UNCHANGED <<target, journal, mode, session, flush, pub, regular, late,
                 journalSaved, bounds>>

\* regularSaveDocument: a checkpoint is written first.  Over provisional
\* work it also prepares a candidate, which fails while another is retained.
RegularDue ==
  /\ RegularSaves /\ mode = "editing" /\ NeedsCheckpoint
  /\ regular = None /\ late = None /\ flush = None
  /\ session.working # Undefined
  /\ session.sealed \/ pub = None
  /\ target.rev + Saving < MaxRevision
  /\ regular' = session.working
  /\ flush' = [step |-> "reading", owner |-> "regular"]
  /\ UNCHANGED <<target, journal, mode, session, timer, queue, pub, manual,
                 late, journalSaved, bounds>>

\* The heartbeat timer calls #refreshLease.
RefreshDue ==
  /\ mode = "editing" /\ refreshes < MaxRefreshes
  /\ \A i \in DOMAIN queue : queue[i] # "refresh"
  /\ pub # None => pub.purpose # "refresh"
  /\ refreshes' = refreshes + 1
  /\ queue' = Append(queue, "refresh")
  /\ UNCHANGED <<target, journal, mode, session, timer, flush, pub, saves,
                 journalSaved, newest, faults>>

\* A publication needs the native container without a retained candidate and
\* with the bytes of the target: a regular save that replaced the target but
\* failed, its record overwritten by a checkpoint, leaves the old ones.
Available == ~session.pending /\ session.base = target.rev

\* lock: timers are cancelled; the rest waits (see LockFlush).
StartLock == mode' = "locking" /\ timer' = FALSE

BeginRefresh ==
  /\ pub = None /\ queue # <<>> /\ Head(queue) = "refresh" /\ mode = "editing"
  /\ queue' = Tail(queue)
  /\ \/ Available /\ StartLease("refresh") /\ UNCHANGED <<mode, timer>>
     \/ ~Available /\ StartLock /\ UNCHANGED pub
  /\ UNCHANGED <<target, journal, session, flush, saves, journalSaved, bounds>>

\* (mutant) a save does not look for a retained candidate
BeginManualAnyway ==
  /\ pub = None /\ queue # <<>> /\ Head(queue) = "manual" /\ mode = "editing"
  /\ queue' = Tail(queue)
  /\ Start("manual", manual.text, FALSE,
           [text |-> manual.text, rev |-> target.rev + 1, sealed |-> TRUE])
  /\ UNCHANGED <<target, journal, mode, session, timer, flush, saves,
                 journalSaved, bounds>>

BeginManual ==
  /\ pub = None /\ queue # <<>> /\ Head(queue) = "manual"
  /\ mode = "editing" /\ Available
  /\ queue' = Tail(queue)
  /\ Start("manual", manual.text, FALSE,
           [text |-> manual.text, rev |-> target.rev + 1, sealed |-> TRUE])
  /\ UNCHANGED <<target, journal, mode, session, timer, flush, saves,
                 journalSaved, bounds>>

BeginRegular ==
  /\ pub = None /\ queue # <<>> /\ Head(queue) = "regular"
  /\ mode = "editing" /\ Available
  /\ queue' = Tail(queue)
  /\ Start("regular", regular, FALSE,
           [text |-> regular, rev |-> target.rev + 1, sealed |-> FALSE])
  /\ UNCHANGED <<target, journal, mode, session, timer, flush, saves,
                 journalSaved, bounds>>

\* (mutant) a queued publication is not refused once the session is locked
RefusePending ==
  /\ pub = None /\ queue # <<>> /\ mode = "editing"
  /\ ~Available /\ Head(queue) # "refresh"
  /\ queue' = Tail(queue)
  /\ manual' = IF Head(queue) = "manual" THEN None ELSE manual
  /\ regular' = IF Head(queue) = "regular" THEN None ELSE regular
  /\ UNCHANGED <<target, journal, mode, session, timer, flush, pub, late,
                 journalSaved, bounds>>

\* A queued publication whose session is locked, or whose lease or native
\* candidate is no longer available, fails before it writes anything.  (The
\* conflict that a regular save journals over other bytes is left out.)
Refuse ==
  /\ pub = None /\ queue # <<>>
  /\ mode # "editing" \/ (~Available /\ Head(queue) # "refresh")
  /\ queue' = Tail(queue)
  /\ manual' = IF Head(queue) = "manual" THEN None ELSE manual
  /\ regular' = IF Head(queue) = "regular" THEN None ELSE regular
  /\ UNCHANGED <<target, journal, mode, session, timer, flush, pub, late,
                 journalSaved, bounds>>

-----------------------------------------------------------------------------
(* The publication in progress; Publication has its every step *)

PublicationEnds ==
  /\ pub' = None
  /\ manual' = IF pub.purpose = "manual" THEN None ELSE manual
  /\ regular' = IF pub.purpose = "regular" THEN None ELSE regular

WriteRecord ==
  /\ pub # None /\ pub.step \in {"preparing", "prepared", "replaced"}
  /\ journal' = Record(pub)
  /\ pub' = [pub EXCEPT !.step = CASE pub.step = "preparing" -> "prepared"
                                   [] pub.step = "prepared" -> "staged"
                                   [] pub.step = "replaced" -> "verified"]
  /\ UNCHANGED <<target, mode, session, timer, flush, queue, saves,
                 journalSaved, bounds>>

Replace ==
  /\ pub # None /\ pub.step = "staged"
  /\ target' = pub.image /\ pub' = [pub EXCEPT !.step = "replaced"]
  /\ UNCHANGED <<journal, mode, session, timer, flush, queue, saves,
                 journalSaved, bounds>>

\* The native candidate of a publication is adopted last.  A lock has closed
\* the native container, so what it overtakes ends as a failed call.
Cleanup ==
  /\ pub # None /\ pub.step = "verified"
  /\ journal' = Leftover(Record(pub))
  /\ \/ /\ mode \in {"viewing", "editing"}
        /\ pub' = [pub EXCEPT !.step = "cleaned"] /\ UNCHANGED <<manual, regular>>
     \/ /\ mode \notin {"viewing", "editing"} /\ PublicationEnds
  /\ UNCHANGED <<target, mode, session, timer, flush, queue, late,
                 journalSaved, bounds>>

\* The lease is held: edit mode starts from the document or the recovered work.
Acquired ==
  /\ pub # None /\ pub.step = "cleaned" /\ pub.purpose = "acquire"
  /\ pub' = None /\ mode' = "editing"
  /\ session' = [session EXCEPT
       !.working = IF session.recovery = None THEN session.opened
                   ELSE session.recovery.text,
       !.dirty = session.recovery # None \/ ~session.sealed]
  /\ UNCHANGED <<target, journal, timer, flush, queue, saves, journalSaved,
                 bounds>>

Refreshed ==
  /\ pub # None /\ pub.step = "cleaned" /\ pub.purpose = "refresh"
  /\ pub' = None
  /\ UNCHANGED <<target, journal, mode, session, timer, flush, queue, saves,
                 journalSaved, bounds>>

\* saveDocument continues: the old key is overwritten and the new base
\* adopted; the head witness is awaited before the new key is in place.
ManualPublished ==
  /\ pub # None /\ pub.step = "cleaned" /\ pub.purpose = "manual"
  /\ pub' = None
  /\ \/ /\ Live /\ manual' = [manual EXCEPT !.step = "adopting"]
        /\ session' = [session EXCEPT !.key = "zero", !.opened = pub.text,
                                      !.base = pub.image.rev]
     \/ ~Live /\ manual' = None /\ UNCHANGED session
  /\ UNCHANGED <<target, journal, mode, timer, flush, queue, regular, late,
                 journalSaved, bounds>>

\* (mutant) text typed during the save is regarded as saved
AdoptClean(text, sealed) ==
  /\ session' = [session EXCEPT !.key = "good", !.sealed = sealed,
                   !.dirty = ~sealed, !.recovery = None,
                   !.pending = FALSE, !.record = None]
  /\ UNCHANGED timer

\* Adoption regards the document as clean only if no newer text was typed.
Adopt(text, sealed) ==
  LET newer == session.working # text
  IN /\ session' = [session EXCEPT !.key = "good", !.sealed = sealed,
                      !.dirty = newer \/ ~sealed, !.recovery = None,
                      !.pending = FALSE, !.record = None]
     /\ timer' = (timer \/ newer)

\* (mutant) a save whose session was locked is never answered
AdoptLive ==
  /\ manual # None /\ manual.step = "adopting" /\ Live
  /\ manual' = None /\ Adopt(manual.text, TRUE)
  /\ UNCHANGED <<target, journal, mode, flush, queue, pub, regular, late,
                 journalSaved, bounds>>

AdoptManual ==
  /\ manual # None /\ manual.step = "adopting"
  /\ manual' = None
  /\ \/ Live /\ Adopt(manual.text, TRUE)
     \/ ~Live /\ UNCHANGED <<session, timer>>
  /\ UNCHANGED <<target, journal, mode, flush, queue, pub, regular, late,
                 journalSaved, bounds>>

\* A regular save adopts its revision and then journals the working copy,
\* outside both chains.
RegularPublished ==
  /\ pub # None /\ pub.step = "cleaned" /\ pub.purpose = "regular"
  /\ pub' = None /\ regular' = None
  /\ \/ /\ Live
        /\ session' = [session EXCEPT !.key = "good", !.opened = pub.text,
                         !.base = pub.image.rev, !.sealed = FALSE,
                         !.dirty = TRUE]
        /\ late' = [text |-> session.working, base |-> pub.image.rev,
                    key |-> "good"]
     \/ ~Live /\ UNCHANGED <<session, late>>
  /\ UNCHANGED <<target, journal, mode, timer, flush, queue, manual,
                 journalSaved, bounds>>

LandLate ==
  /\ late # None /\ journal' = Work(late) /\ late' = None
  /\ UNCHANGED <<target, mode, session, chains, manual, regular, journalSaved,
                 bounds>>

\* reconnectPendingPublication: the record in memory is completed and adopted.
Retry ==
  /\ mode = "editing" /\ pub = None /\ queue = <<>> /\ session.pending
  /\ session.record # None /\ session.record.pub # None
  /\ LET image == session.record.pub.image
         newer == session.working # image.text
     IN /\ target' = image /\ journal' = Leftover(session.record)
        /\ session' = [session EXCEPT !.key = "good", !.sealed = image.sealed,
                         !.dirty = newer \/ ~image.sealed, !.recovery = None,
                         !.pending = FALSE, !.record = None,
                         !.opened = image.text, !.base = image.rev]
        /\ timer' = (timer \/ newer)
  /\ UNCHANGED <<mode, flush, queue, pub, saves, journalSaved, bounds>>

-----------------------------------------------------------------------------
(* Lock *)

\* Inactivity locks the document; publications go on beside the lock.  The
\* host's locks, which hold them back, are in WorkRecoveryHost.
Lock ==
  /\ mode = "editing" /\ StartLock /\ journalSaved' = TRUE
  /\ UNCHANGED <<target, journal, session, flush, queue, pub, saves, bounds>>

\* A heartbeat in flight is awaited, then #flushActive.
LockFlush ==
  /\ mode = "locking"
  /\ pub # None => pub.purpose # "refresh"
  /\ \A i \in DOMAIN queue : queue[i] # "refresh"
  /\ \/ /\ NeedsCheckpoint /\ flush = None /\ mode' = "flushing"
        /\ flush' = [step |-> "reading", owner |-> "lock"]
        /\ UNCHANGED <<session, timer, pub, journalSaved>>
     \/ /\ ~NeedsCheckpoint /\ EndSession /\ UNCHANGED flush
        \* A pending record without a publication makes #flushActive throw.
        /\ journalSaved' = ~(session.dirty /\ session.record # None
                               /\ session.record.pub = None)
  /\ UNCHANGED <<target, journal, queue, saves, bounds>>

-----------------------------------------------------------------------------
(* Failures and crashes *)

\* A call of the publication fails.  Once its record was journaled the
\* publication is pending, with whatever record the journal then holds.
Pend(prepared) ==
  LET found == IF journal = None \/ journal.key = session.key THEN journal
               ELSE Undefined
  IN session' = CASE
       ~prepared -> session
    [] prepared /\ pub.purpose \in {"acquire", "refresh"} ->
         [session EXCEPT !.pending = TRUE]
    [] prepared /\ pub.purpose = "manual" ->
         IF found = Undefined THEN [session EXCEPT !.pending = TRUE]
         ELSE [session EXCEPT !.pending = TRUE, !.record = found,
                              !.dirty = session.working # pub.text]
    [] prepared /\ pub.purpose = "regular" ->
         IF found = Undefined THEN session
         ELSE [session EXCEPT !.record = found,
                 !.pending = found # None /\ found.pub # None]

\* The failed heartbeat locks the document.  Under a lock the candidate is
\* gone with the native container, and nothing becomes pending.
Fail ==
  /\ pub # None /\ pub.step # "cleaned" /\ faults < MaxFaults
  /\ faults' = faults + 1 /\ PublicationEnds
  /\ \/ /\ mode \in {"viewing", "editing"} /\ Pend(pub.step # "preparing")
        /\ IF pub.purpose = "refresh" THEN StartLock
           ELSE UNCHANGED <<mode, timer>>
     \/ /\ mode \notin {"viewing", "editing"} /\ UNCHANGED <<mode, session, timer>>
  /\ UNCHANGED <<target, journal, flush, queue, late, journalSaved, newest,
                 refreshes>>

FailLate ==
  /\ late # None /\ faults < MaxFaults
  /\ faults' = faults + 1 /\ late' = None
  /\ UNCHANGED <<target, journal, mode, session, chains, manual, regular,
                 journalSaved, newest, refreshes>>

\* The process stops: only the target and the journal survive.
Crash ==
  /\ mode # "closed" \/ pub # None
  /\ faults < MaxFaults /\ faults' = faults + 1
  /\ mode' = "closed" /\ session' = NoSession
  /\ timer' = FALSE /\ flush' = None /\ queue' = <<>> /\ pub' = None
  /\ manual' = None /\ regular' = None /\ late' = None
  /\ UNCHANGED <<target, journal, journalSaved, newest, refreshes>>

-----------------------------------------------------------------------------
User == Open \/ Acquire \/ DiscardWork \/ Close \/ Edit \/ SubmitManual
          \/ Retry \/ Lock
Timers == CheckpointDue \/ RegularDue \/ RefreshDue
Checkpointing == CaptureFlush \/ LandFlush \/ LandLate
Publishing ==
  \/ BeginRefresh \/ BeginManual \/ BeginRegular \/ Refuse
  \/ WriteRecord \/ Replace \/ Cleanup \/ Acquired \/ Refreshed
  \/ ManualPublished \/ AdoptManual \/ RegularPublished
Faults == Fail \/ FailFlush \/ FailLate \/ Crash

Next ==
  User \/ Timers \/ Checkpointing \/ Publishing \/ LockFlush \/ Faults

Spec == Init /\ [][Next]_vars

-----------------------------------------------------------------------------
(* Properties *)

TypeOK ==
  /\ target \in Images /\ journal \in Records \cup {None}
  /\ mode \in {"closed", "viewing", "editing", "locking", "flushing"}
  /\ session \in Session /\ timer \in BOOLEAN
  /\ flush \in Flushes \cup {None}
  /\ queue \in Seq(Waiting) /\ Len(queue) <= 3
  /\ pub \in Publications \cup {None}
  /\ manual \in ManualSaves \cup {None}
  /\ regular \in Texts \cup {None} /\ late \in Checkpoints \cup {None}
  /\ journalSaved \in BOOLEAN /\ newest \in Texts
  /\ refreshes \in 0..MaxRefreshes /\ faults \in 0..MaxFaults

\* The newest text that survives the session, whatever key it is under.
Held ==
  IF journal # None /\ journal.text > target.text
  THEN journal.text ELSE target.text

\* Recovered work that openDocument offers is never older than the target: the
\* base comparison rejects every record that a completed save has outdated.
RecoveryIsCurrent ==
  mode = "viewing" /\ session.recovery # None
    => session.recovery.offered >= target.text

\* However manual saves, regular saves and retries queue up, no publication
\* replaces the target with text older than the target's.
TargetNeverRegresses == [][target'.text >= target.text]_vars

Discarding == mode = "viewing" /\ journal' = None /\ pub = None

Locked ==
  mode \in {"locking", "flushing"} /\ mode' = "closed" /\ faults' = faults
WorkHeld == session.working # Undefined => Held' >= session.working

\* A lock that reports its journal saved has lost no text, unless a
\* publication was pending.
LockFlushesWork ==
  [][Locked /\ journalSaved' /\ ~session.pending => WorkHeld]_vars

\* (violated) Checkpointed text leaves the journal only when it was saved or
\* deliberately discarded: a lease refresh or save does not overwrite it.
CheckpointKept == [][Held' >= Held \/ Discarding]_vars

\* (violated) An automatic lock force-flushes the work it locks away, also
\* while a publication is pending.
LockKeepsWork == [][Locked /\ journalSaved' => WorkHeld]_vars

\* (violated) What the journal holds can be read after a restart: no record is
\* written under a key that the host has already overwritten.
JournalReadable == Readable

\* (violated) Restoring recovered work puts the work that was offered in the
\* editor, also after openDocument completed a publication.
RestoreKeepsWork ==
  [][mode = "viewing" /\ mode' = "editing" /\ session.recovery # None
       => session'.working = session.recovery.offered]_vars
=============================================================================
