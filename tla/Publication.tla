---------------------------- MODULE Publication ----------------------------
(***************************************************************************)
(* Crash-safe publication of one candidate container over one target file  *)
(* (PublicationService) driven by the desktop host (DocumentService and    *)
(* CandidatePublication).  Every step below is the code between two awaits *)
(* of the Node.js process; between any two steps the process may crash, an *)
(* I/O call may fail, and another client or a sync provider may replace    *)
(* or remove the target.                                                   *)
(*                                                                         *)
(* File contents are opaque values.  Hash comparisons are equality of      *)
(* contents.  A transaction file has a fresh random name for each          *)
(* publication, so only the one the current record names is tracked in     *)
(* txn; when a record that names an existing file is dropped or replaced,  *)
(* the file moves to leftovers.                                            *)
(***************************************************************************)
EXTENDS Naturals

CONSTANTS
  Initial,      \* contents of the target when the session first opens it
  Candidates,   \* candidate containers; each is produced at most once
  Foreign,      \* contents written by other clients of the same file
  Absent,       \* no file (or no publication)
  Torn,         \* a file whose bytes were only partly written
  MaxFaults,    \* bound on crashes and failed I/O calls
  MaxForeign    \* bound on foreign changes of the target

Bytes == {Initial} \cup Candidates \cup Foreign

ASSUME DistinctContents ==
  /\ Initial \notin Candidates \cup Foreign
  /\ Candidates \cap Foreign = {}
  /\ Absent \notin Bytes
  /\ Torn \notin Bytes
  /\ Absent # Torn

ASSUME BoundsAreNaturals == MaxFaults \in Nat /\ MaxForeign \in Nat

VARIABLES
  target,       \* the shared container file
  baseFile,     \* the recovery-base sibling: Absent, Torn, or contents
  txn,          \* the tracked transaction sibling
  leftovers,    \* untracked transaction siblings still beside the target
  volatile,     \* files written but not yet synced to stable storage
  journal,      \* the durable work journal of the document
  pc,           \* where the host process is
  rec,          \* the publication record the process holds in memory
  opened,       \* the container bytes the session opened or last published
  used,         \* candidates already produced
  faults,       \* crashes and failures so far
  foreignWrites \* foreign changes so far

\* Observability only: no action reads these.
VARIABLES
  published,    \* candidates that have replaced the target
  window,       \* foreign contents that arrived between compare and rename
  clobbered     \* foreign contents a rename destroyed

files == <<target, baseFile, txn, leftovers, volatile>>
budget == <<faults, foreignWrites>>
ghosts == <<published, window, clobbered>>
vars == <<files, journal, pc, rec, opened, used, budget, ghosts>>

Purposes == {"plain", "preserve", "activity"}
Stages == {"prepared", "written", "flushed", "replaced", "verified", "cleanup"}

PublicationRecord ==
  [base: Bytes, candidate: Candidates, purpose: Purposes,
   state: {"pending", "conflict"}, stage: Stages]

NoPublication ==
  [base |-> Absent, candidate |-> Absent, purpose |-> "plain",
   state |-> "pending", stage |-> "prepared"]

\* A journal without a publication holds nothing, recovered work, or the
\* attempt of an external activity whose outcome is still owed.
Plain(kind) == [kind |-> kind, pub |-> NoPublication]
Journaled(p) == [kind |-> "publication", pub |-> p]
JournalRecord ==
  {Plain(k) : k \in {"none", "unsaved", "activity"}}
    \cup {Journaled(p) : p \in PublicationRecord}

Pending == journal.kind = "publication"

CompleteSteps == {"base-check", "base-make", "base-sync", "txn-check",
                  "txn-written", "txn-sync", "flushed", "compare", "rename",
                  "replaced", "verify", "verified"}
CleanupSteps == {"cleanup", "drop-txn", "drop-base", "settle"}
ResumeSteps == {"resume-txn", "resume-target", "diverge"}
DiscardSteps == {"discard-txn", "discard-journal", "discard-base"}
Working == {"prepare", "orphan"} \cup CompleteSteps \cup CleanupSteps
             \cup ResumeSteps \cup DiscardSteps
Resting == {"down", "idle", "pending"}

Init ==
  /\ target = Initial /\ baseFile = Absent /\ txn = Absent
  /\ leftovers = {} /\ volatile = {}
  /\ journal = Plain("none")
  /\ pc = "idle" /\ rec = NoPublication /\ opened = Initial
  /\ used = {} /\ faults = 0 /\ foreignWrites = 0
  /\ published = {} /\ window = {} /\ clobbered = {}

-----------------------------------------------------------------------------
(* Helpers *)

Goto(step) == pc' = step

\* #stage: the in-memory record, with a new stage, replaces the journal.
WriteStage(s) ==
  /\ rec' = [rec EXCEPT !.stage = s]
  /\ journal' = Journaled([rec EXCEPT !.stage = s])

\* A thrown error.  The host keeps a publication it can still find in the
\* journal (or already held as pending) and otherwise forgets the attempt.
Abandon ==
  \/ /\ pc = "prepare" /\ ~Pending
     /\ pc' = "idle" /\ rec' = NoPublication
  \/ /\ ~(pc = "prepare" /\ ~Pending)
     /\ pc' = "pending"
     /\ rec' = IF Pending THEN journal.pub ELSE rec

\* Records of a transaction file that no journal names any more.
Untrack ==
  /\ txn' = Absent
  /\ leftovers' = IF txn = Absent THEN leftovers ELSE leftovers \cup {txn}
  /\ volatile' = volatile \ {"txn"}

NewRecord(base, c, purpose) ==
  [base |-> base, candidate |-> c, purpose |-> purpose,
   state |-> "pending", stage |-> "prepared"]

\* The journal that #cleanup or discard leaves behind.
Remainder(purpose) ==
  Plain(CASE purpose = "plain" -> "none"
          [] purpose = "preserve" -> "unsaved"
          [] purpose = "activity" -> "activity")

-----------------------------------------------------------------------------
(* Starting a publication *)

\* A save, lease change, slot change or activity reads the target, produces
\* a candidate from it and calls publish.
Begin(c, purpose) ==
  /\ pc = "idle" /\ ~Pending /\ target # Absent /\ c \notin used
  /\ rec' = NewRecord(target, c, purpose)
  /\ used' = used \cup {c}
  /\ Untrack
  /\ Goto("prepare")
  /\ UNCHANGED <<target, baseFile, journal, opened, budget, ghosts>>

\* Mutation of Supersede: any pending record may be superseded.
SupersedeAnything(c) ==
  /\ pc = "pending" /\ target # Absent /\ c \notin used
  /\ rec' = NewRecord(target, c, "plain")
  /\ used' = used \cup {c}
  /\ Goto("prepare")
  /\ UNCHANGED <<files, journal, opened, budget, ghosts>>

\* A resolved divergence publishes a merge over the target now observed.
Supersede(c) ==
  /\ pc = "pending" /\ rec.state = "conflict" /\ target # Absent
  /\ c \notin used
  /\ rec' = NewRecord(target, c, "plain")
  /\ used' = used \cup {c}
  /\ Goto("prepare")
  /\ UNCHANGED <<files, journal, opened, budget, ghosts>>

\* prepare: the record is journaled before any file is touched.  That of a
\* merge replaces the conflict record, and no record names its file any more.
Prepare ==
  /\ pc = "prepare"
  /\ journal' = Journaled(rec)
  /\ Untrack
  /\ Goto("base-check")
  /\ UNCHANGED <<target, baseFile, rec, opened, used, budget, ghosts>>

\* Mutation of JournalUnavailable: the base is what the target holds now.
JournalMissingBase(c) ==
  /\ pc = "idle" /\ ~Pending /\ target = Absent /\ c \notin used
  /\ rec' = NewRecord(target, c, "plain")
  /\ journal' = Journaled(NewRecord(target, c, "plain"))
  /\ used' = used \cup {c}
  /\ Untrack
  /\ Goto("pending")
  /\ UNCHANGED <<target, baseFile, opened, budget, ghosts>>

\* A save while the target is unreachable is journaled over the bytes the
\* session opened and left pending.
JournalUnavailable(c) ==
  /\ pc = "idle" /\ ~Pending /\ target = Absent /\ c \notin used
  /\ rec' = NewRecord(opened, c, "plain")
  /\ journal' = Journaled(NewRecord(opened, c, "plain"))
  /\ used' = used \cup {c}
  /\ Untrack
  /\ Goto("pending")
  /\ UNCHANGED <<target, baseFile, opened, budget, ghosts>>

\* A regular save that finds a diverged target journals its candidate over
\* the bytes the session opened and marks the record as a conflict.
PreserveConflict(c) ==
  /\ pc = "idle" /\ ~Pending /\ target \notin {Absent, opened} /\ c \notin used
  /\ rec' = NewRecord(opened, c, "plain")
  /\ journal' = Journaled(NewRecord(opened, c, "plain"))
  /\ used' = used \cup {c}
  /\ Untrack
  /\ Goto("diverge")
  /\ UNCHANGED <<target, baseFile, opened, budget, ghosts>>

-----------------------------------------------------------------------------
(* #complete: recovery base, transaction file, compare, rename, verify *)

\* A recovery base with other contents is removed only while the target
\* still holds this publication's base.
CheckBase ==
  /\ pc = "base-check"
  /\ \/ /\ baseFile = rec.base
        /\ Goto("txn-check") /\ UNCHANGED <<baseFile, volatile, rec>>
     \/ /\ baseFile = Absent
        /\ Goto("base-make") /\ UNCHANGED <<baseFile, volatile, rec>>
     \/ /\ baseFile \notin {Absent, rec.base} /\ target = rec.base
        /\ baseFile' = Absent /\ volatile' = volatile \ {"base"}
        /\ Goto("base-make") /\ UNCHANGED rec
     \/ /\ baseFile \notin {Absent, rec.base} /\ target # rec.base
        /\ Abandon /\ UNCHANGED <<baseFile, volatile>>
  /\ UNCHANGED <<target, txn, leftovers, journal, opened, used, budget, ghosts>>

MakeBase ==
  /\ pc = "base-make"
  /\ \/ /\ target = rec.base
        /\ baseFile' = rec.base /\ volatile' = volatile \cup {"base"}
        /\ Goto("base-sync") /\ UNCHANGED rec
     \/ /\ target # rec.base
        /\ Abandon /\ UNCHANGED <<baseFile, volatile>>
  /\ UNCHANGED <<target, txn, leftovers, journal, opened, used, budget, ghosts>>

SyncBase ==
  /\ pc = "base-sync"
  /\ volatile' = volatile \ {"base"}
  /\ Goto("txn-check")
  /\ UNCHANGED <<target, baseFile, txn, leftovers, journal, rec, opened, used,
                 budget, ghosts>>

\* A missing transaction file is created and written; an existing one is
\* reused only when it holds exactly this candidate.
CheckTransaction ==
  /\ pc = "txn-check"
  /\ \/ /\ txn = Absent
        /\ txn' = rec.candidate /\ volatile' = volatile \cup {"txn"}
        /\ Goto("txn-written") /\ UNCHANGED rec
     \/ /\ txn = rec.candidate
        /\ Goto("txn-sync") /\ UNCHANGED <<txn, volatile, rec>>
     \/ /\ txn \notin {Absent, rec.candidate}
        /\ Abandon /\ UNCHANGED <<txn, volatile>>
  /\ UNCHANGED <<target, baseFile, leftovers, journal, opened, used, budget,
                 ghosts>>

StageWritten ==
  /\ pc = "txn-written"
  /\ WriteStage("written")
  /\ Goto("txn-sync")
  /\ UNCHANGED <<files, opened, used, budget, ghosts>>

\* Mutation of SyncTransaction: the transaction file is not synced.
SkipSync ==
  /\ pc = "txn-sync"
  /\ Goto("flushed")
  /\ UNCHANGED <<files, journal, rec, opened, used, budget, ghosts>>

SyncTransaction ==
  /\ pc = "txn-sync"
  /\ volatile' = volatile \ {"txn"}
  /\ Goto("flushed")
  /\ UNCHANGED <<target, baseFile, txn, leftovers, journal, rec, opened, used,
                 budget, ghosts>>

StageFlushed ==
  /\ pc = "flushed"
  /\ WriteStage("flushed")
  /\ Goto("compare")
  /\ UNCHANGED <<files, opened, used, budget, ghosts>>

\* Mutation of CompareTarget: any readable target is replaced.
SkipComparison ==
  /\ pc = "compare"
  /\ \/ target # Absent /\ Goto("rename") /\ UNCHANGED rec
     \/ target = Absent /\ Abandon
  /\ UNCHANGED <<files, journal, opened, used, budget, ghosts>>

\* The last read of the target before the rename.
CompareTarget ==
  /\ pc = "compare"
  /\ \/ target = rec.base /\ Goto("rename") /\ UNCHANGED rec
     \/ target # rec.base /\ Abandon
  /\ UNCHANGED <<files, journal, opened, used, budget, ghosts>>

\* The rename replaces whatever the target holds by then.
Rename ==
  /\ pc = "rename"
  /\ target' = txn /\ txn' = Absent
  /\ volatile' = (volatile \ {"txn", "target"})
                   \cup (IF "txn" \in volatile THEN {"target"} ELSE {})
  /\ published' = published \cup {rec.candidate}
  /\ clobbered' = clobbered \cup ({target} \ {rec.base, Absent})
  /\ Goto("replaced")
  /\ UNCHANGED <<baseFile, leftovers, journal, rec, opened, used, budget, window>>

StageReplaced ==
  /\ pc = "replaced"
  /\ WriteStage("replaced")
  /\ Goto("verify")
  /\ UNCHANGED <<files, opened, used, budget, ghosts>>

\* The published bytes are read back.
Verify ==
  /\ pc = "verify"
  /\ \/ target = rec.candidate /\ Goto("verified") /\ UNCHANGED rec
     \/ target # rec.candidate /\ Abandon
  /\ UNCHANGED <<files, journal, opened, used, budget, ghosts>>

StageVerified ==
  /\ pc = "verified"
  /\ WriteStage("verified")
  /\ Goto("cleanup")
  /\ UNCHANGED <<files, opened, used, budget, ghosts>>

-----------------------------------------------------------------------------
(* #cleanup: files first, the record last *)

StageCleanup ==
  /\ pc = "cleanup"
  /\ \/ rec.stage = "cleanup" /\ UNCHANGED <<rec, journal>>
     \/ rec.stage # "cleanup" /\ WriteStage("cleanup")
  /\ Goto("drop-txn")
  /\ UNCHANGED <<files, opened, used, budget, ghosts>>

DropTransaction ==
  /\ pc = "drop-txn"
  /\ \/ txn = rec.candidate /\ txn' = Absent /\ volatile' = volatile \ {"txn"}
     \/ txn # rec.candidate /\ UNCHANGED <<txn, volatile>>
  /\ Goto("drop-base")
  /\ UNCHANGED <<target, baseFile, leftovers, journal, rec, opened, used,
                 budget, ghosts>>

DropBase ==
  /\ pc = "drop-base"
  /\ \/ baseFile = rec.base /\ baseFile' = Absent
        /\ volatile' = volatile \ {"base"}
     \/ baseFile # rec.base /\ UNCHANGED <<baseFile, volatile>>
  /\ Goto("settle")
  /\ UNCHANGED <<target, txn, leftovers, journal, rec, opened, used, budget,
                 ghosts>>

Settle ==
  /\ pc = "settle"
  /\ journal' = Remainder(rec.purpose)
  /\ opened' = rec.candidate
  /\ rec' = NoPublication
  /\ Goto("idle")
  /\ UNCHANGED <<files, used, budget, ghosts>>

-----------------------------------------------------------------------------
(* Reopening, resuming, reconnecting and discarding *)

\* openDocument after a restart or a close.  A journaled conflict, or a
\* target that cannot be read, leaves the publication pending; bytes that do
\* not authenticate as this document become a conflict without resume.
Open ==
  /\ pc = "down"
  /\ \/ /\ ~Pending /\ target # Absent
        /\ opened' = target /\ rec' = NoPublication
        /\ Goto(IF journal.kind = "none" THEN "orphan" ELSE "idle")
     \/ /\ Pending /\ rec' = journal.pub
        /\ opened' = IF target = Absent THEN journal.pub.base ELSE target
        /\ \/ /\ target = Absent \/ journal.pub.state = "conflict"
              /\ Goto("pending")
           \/ /\ target # Absent /\ journal.pub.state # "conflict"
              /\ Goto("resume-txn")
           \/ /\ target \in Foreign \ {journal.pub.base}
              /\ journal.pub.state # "conflict"
              /\ Goto("diverge")
  /\ UNCHANGED <<files, journal, used, budget, ghosts>>

\* An open that finds no journal removes any recovery base.
RemoveOrphan ==
  /\ pc = "orphan"
  /\ baseFile' = Absent /\ volatile' = volatile \ {"base"}
  /\ Goto("idle")
  /\ UNCHANGED <<target, txn, leftovers, journal, rec, opened, used, budget,
                 ghosts>>

\* Closing or locking a session at rest.
Close ==
  /\ pc \in {"idle", "pending"}
  /\ rec' = NoPublication /\ Goto("down")
  /\ UNCHANGED <<files, journal, opened, used, budget, ghosts>>

\* The user retries a pending publication against a readable target.
Reconnect ==
  /\ pc = "pending" /\ target # Absent
  /\ \/ Goto("resume-txn")
     \/ target \in Foreign \ {rec.base} /\ Goto("diverge")
  /\ UNCHANGED <<files, journal, rec, opened, used, budget, ghosts>>

\* Mutation of ResumeTransaction: a missing transaction file is taken as
\* evidence that the rename happened.
AbsentMeansRenamed ==
  /\ pc = "resume-txn"
  /\ Goto(IF txn = Absent THEN "cleanup"
          ELSE IF txn = rec.candidate THEN "resume-target" ELSE "pending")
  /\ UNCHANGED <<files, journal, rec, opened, used, budget, ghosts>>

\* Mutation of ResumeTransaction: a missing transaction file is ambiguous.
AbsentIsAmbiguous ==
  /\ pc = "resume-txn"
  /\ Goto(IF txn = rec.candidate THEN "resume-target" ELSE "pending")
  /\ UNCHANGED <<files, journal, rec, opened, used, budget, ghosts>>

\* resume: a transaction file with other bytes is ambiguous and is kept.
ResumeTransaction ==
  /\ pc = "resume-txn"
  /\ Goto(IF txn \in {Absent, rec.candidate} THEN "resume-target" ELSE "pending")
  /\ UNCHANGED <<files, journal, rec, opened, used, budget, ghosts>>

\* Mutation of ResumeTarget: a missing target is cleaned up after.
CleanupUnavailable ==
  /\ pc = "resume-target"
  /\ \/ target \in {rec.candidate, Absent} /\ Goto("cleanup")
     \/ target \notin {rec.candidate, Absent, rec.base} /\ Goto("diverge")
     \/ target = rec.base /\ Goto("base-check")
  /\ UNCHANGED <<files, journal, rec, opened, used, budget, ghosts>>

\* resume: the target decides between cleanup, retry, conflict and waiting.
ResumeTarget ==
  /\ pc = "resume-target"
  /\ \/ target = rec.candidate /\ Goto("cleanup")
     \/ target = Absent /\ Goto("pending")
     \/ target \notin {rec.candidate, Absent, rec.base} /\ Goto("diverge")
     \/ target = rec.base /\ Goto("base-check")
  /\ UNCHANGED <<files, journal, rec, opened, used, budget, ghosts>>

MarkDiverged ==
  /\ pc = "diverge"
  /\ rec' = [rec EXCEPT !.state = "conflict"]
  /\ journal' = Journaled([rec EXCEPT !.state = "conflict"])
  /\ Goto("pending")
  /\ UNCHANGED <<files, opened, used, budget, ghosts>>

\* The user discards the pending publication.  An activity publication
\* cannot be discarded.
Discard ==
  /\ pc = "pending" /\ rec.purpose # "activity"
  /\ Goto("discard-txn")
  /\ UNCHANGED <<files, journal, rec, opened, used, budget, ghosts>>

\* Errors that mean the target's storage is unreachable are ignored here.
DiscardTransaction ==
  /\ pc = "discard-txn"
  /\ \/ txn = rec.candidate /\ txn' = Absent /\ volatile' = volatile \ {"txn"}
        /\ UNCHANGED faults
     \/ txn # rec.candidate /\ UNCHANGED <<txn, volatile, faults>>
     \/ faults < MaxFaults /\ faults' = faults + 1 /\ UNCHANGED <<txn, volatile>>
  /\ Goto("discard-journal")
  /\ UNCHANGED <<target, baseFile, leftovers, journal, rec, opened, used,
                 foreignWrites, ghosts>>

DiscardJournal ==
  /\ pc = "discard-journal"
  /\ journal' = Remainder(rec.purpose)
  /\ Goto("discard-base")
  /\ UNCHANGED <<files, rec, opened, used, budget, ghosts>>

DiscardBase ==
  /\ pc = "discard-base"
  /\ \/ baseFile = rec.base /\ baseFile' = Absent
        /\ volatile' = volatile \ {"base"}
     \/ baseFile # rec.base /\ UNCHANGED <<baseFile, volatile>>
  /\ rec' = NoPublication
  /\ Goto("idle")
  /\ UNCHANGED <<target, txn, leftovers, journal, opened, used, budget, ghosts>>

-----------------------------------------------------------------------------
(* The environment *)

\* An I/O call of the current step fails.  A failed write may leave a
\* partial file; every other call fails without an effect.
Fail ==
  /\ pc \in Working /\ faults < MaxFaults
  /\ faults' = faults + 1
  /\ \/ UNCHANGED <<baseFile, txn>>
     \/ /\ pc = "base-make" /\ target = rec.base
        /\ baseFile' = Torn /\ UNCHANGED txn
     \/ /\ pc = "txn-check" /\ txn = Absent
        /\ txn' = Torn /\ UNCHANGED baseFile
  /\ \/ pc = "orphan" /\ Goto("down") /\ UNCHANGED rec
     \/ pc # "orphan" /\ Abandon
  /\ UNCHANGED <<target, leftovers, volatile, journal, opened, used,
                 foreignWrites, ghosts>>

\* The process stops; what it wrote stays in the file system's cache.
Kill ==
  /\ pc # "down" /\ faults < MaxFaults
  /\ faults' = faults + 1
  /\ rec' = NoPublication /\ Goto("down")
  /\ UNCHANGED <<files, journal, opened, used, foreignWrites, ghosts>>

\* The machine stops.  Contents that were never synced may survive whole, in
\* part, or not at all.
PowerLoss ==
  /\ faults < MaxFaults
  /\ faults' = faults + 1
  /\ target' \in {target} \cup (IF "target" \in volatile THEN {Torn} ELSE {})
  /\ baseFile' \in {baseFile}
       \cup (IF "base" \in volatile THEN {Torn, Absent} ELSE {})
  /\ txn' \in {txn} \cup (IF "txn" \in volatile THEN {Torn, Absent} ELSE {})
  /\ volatile' = {} /\ rec' = NoPublication /\ Goto("down")
  /\ UNCHANGED <<leftovers, journal, opened, used, foreignWrites, ghosts>>

\* Another client or a sync provider replaces, restores or removes the file.
ForeignWrite(b) ==
  /\ foreignWrites < MaxForeign /\ b # target
  /\ foreignWrites' = foreignWrites + 1
  /\ target' = b /\ volatile' = volatile \ {"target"}
  /\ window' = IF pc = "rename" THEN window \cup {b} ELSE window
  /\ UNCHANGED <<baseFile, txn, leftovers, journal, pc, rec, opened, used,
                 faults, published, clobbered>>

-----------------------------------------------------------------------------
Publishing ==
  \/ Prepare \/ CheckBase \/ MakeBase \/ SyncBase \/ CheckTransaction
  \/ StageWritten \/ SyncTransaction \/ StageFlushed \/ CompareTarget \/ Rename
  \/ StageReplaced \/ Verify \/ StageVerified
CleaningUp == StageCleanup \/ DropTransaction \/ DropBase \/ Settle
Resuming == ResumeTransaction \/ ResumeTarget \/ MarkDiverged \/ RemoveOrphan
Discarding == DiscardTransaction \/ DiscardJournal \/ DiscardBase

\* What the process does by itself, without a decision of the user.
Continue == Publishing \/ CleaningUp \/ Resuming \/ Discarding

Next ==
  \/ \E c \in Candidates, p \in Purposes : Begin(c, p)
  \/ \E c \in Candidates :
       Supersede(c) \/ JournalUnavailable(c) \/ PreserveConflict(c)
  \/ Continue
  \/ Open \/ Close \/ Reconnect \/ Discard
  \/ Fail \/ Kill \/ PowerLoss
  \/ \E b \in Foreign \cup {Initial, Absent} : ForeignWrite(b)

Spec == Init /\ [][Next]_vars

\* An awaited call eventually settles.  Nothing is assumed of the user.
FairSpec == Spec /\ WF_vars(Continue)

-----------------------------------------------------------------------------
(* Properties *)

\* Whatever crashes, the shared file is never left with partial bytes and
\* never holds bytes that a power loss could still tear.
TargetIntact == target # Torn /\ "target" \notin volatile

\* A rename destroys foreign contents only if they arrived after the last
\* comparison of the target with the base.
OnlyWindowClobbers == clobbered \subseteq window

\* When a publication is settled it did replace the target, its transaction
\* file is gone, and no readable copy of a replaced container is left in the
\* recovery base file.
CompletionIsClean ==
  pc = "settle" => /\ rec.candidate \in published
                   /\ txn = Absent /\ baseFile \notin Bytes

\* A journaled publication leaves the journal only when it has replaced the
\* target, when the user discards it, or when a merge of it takes its place;
\* work or an activity it carries stays behind in the journal.
RecordKept ==
  Pending /\ journal'.pub.candidate # journal.pub.candidate =>
    \/ /\ journal.pub.candidate \in published \/ pc = "discard-journal"
       /\ journal' = Remainder(journal.pub.purpose)
    \/ journal.pub.state = "conflict" /\ journal'.kind = "publication"

PublicationLeavesJournal == [][RecordKept]_vars

\* Every variable keeps its type; in particular the journal always holds a
\* well-formed record.
TypeOK ==
  /\ target \in Bytes \cup {Absent, Torn}
  /\ baseFile \in Bytes \cup {Absent, Torn}
  /\ txn \in Candidates \cup {Absent, Torn}
  /\ leftovers \subseteq Candidates \cup {Torn}
  /\ volatile \subseteq {"target", "base", "txn"}
  /\ journal \in JournalRecord
  /\ pc \in Working \cup Resting
  /\ rec \in PublicationRecord \cup {NoPublication}
  /\ opened \in Bytes
  /\ used \subseteq Candidates
  /\ faults \in 0..MaxFaults /\ foreignWrites \in 0..MaxForeign
  /\ published \subseteq Candidates
  /\ window \subseteq Bytes \cup {Absent} /\ clobbered \subseteq Bytes

\* The service implements a checked replacement of the target.
AbstractPending ==
  [base |-> journal.pub.base, candidate |-> journal.pub.candidate,
   state |-> journal.pub.state]

AbstractPhase ==
  IF pc = "rename" THEN "checked"
  ELSE IF pc = "discard-journal" THEN "dropping" ELSE "open"

Abstract == INSTANCE CheckedReplacement WITH
  Contents <- Bytes, file <- target, pending <- AbstractPending,
  phase <- AbstractPhase, installed <- published

\* Every behaviour of the service is a behaviour of CheckedReplacement.
ImplementsCheckedReplacement == Abstract!Spec

\* No fault and no foreign change is left to happen.
Calm == faults = MaxFaults /\ foreignWrites = MaxForeign

\* A journaled publication that a reopen can complete on its own.
Resumable ==
  /\ Pending /\ journal.pub.state = "pending"
  /\ target \in {journal.pub.base, journal.pub.candidate}
  /\ txn \in {Absent, journal.pub.candidate}

\* A reopen or reconnect that starts to resume an unambiguous interrupted
\* publication completes it: the candidate replaces the target and its
\* record is settled.
RecoveryCompletes ==
  \A c \in Candidates :
    (Calm /\ pc = "resume-txn" /\ Resumable /\ journal.pub.candidate = c)
      ~> (c \in published /\ journal.pub.candidate # c)

=============================================================================
