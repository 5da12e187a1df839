------------------------- MODULE PublicationProofs -------------------------
(***************************************************************************)
(* Proofs about Publication, for every set of candidates and foreign       *)
(* contents and every number of faults.                                    *)
(***************************************************************************)
EXTENDS Publication, TLAPS

(* The inductive invariant, one named part per reason. *)

BeforeRename == {"txn-written", "txn-sync", "flushed", "compare", "rename"}
AfterRename == {"replaced", "verify", "verified"}

\* Between rest and the journal's first write of a record, and while down,
\* the process may hold another record than the journal; otherwise they agree.
Agreement ==
  /\ Pending /\ pc \notin {"prepare", "down"} => rec = journal.pub
  /\ Pending /\ pc = "prepare" => journal.pub.state = "conflict"
  /\ pc \in {"compare", "rename"} \cup AfterRename => Pending
  /\ pc \in {"idle", "orphan", "discard-base"} => ~Pending
  /\ pc \notin {"down", "idle", "orphan"} => rec \in PublicationRecord

\* The transaction file that will replace the target is whole and synced.
TransactionReady ==
  /\ pc \in BeforeRename => txn = rec.candidate
  /\ pc \in {"flushed", "compare", "rename"} => "txn" \notin volatile

TransactionGone ==
  /\ pc \in {"resume-target", "cleanup", "drop-txn"} \cup AfterRename =>
       txn \in {Absent, rec.candidate}
  /\ pc \in {"drop-base", "settle"} => txn = Absent

\* What the rename is about to destroy.
RenameChecked ==
  pc = "rename" => target \in {rec.base, Absent} \cup window

\* Candidates are fresh, and only the rename puts one in the target.
Provenance ==
  /\ published \subseteq used
  /\ {rec.candidate, journal.pub.candidate} \subseteq used \cup {Absent}
  /\ target \in Candidates => target \in published
  /\ pc \in AfterRename \cup CleanupSteps => rec.candidate \in published

\* Once a candidate is published, the base file is its own base or useless.
BaseOf(p) == p.candidate \in published => baseFile \in {p.base, Torn, Absent}

BaseReady ==
  /\ pc \in {"base-sync", "txn-check"} \cup BeforeRename => baseFile = rec.base
  /\ BaseOf(rec) /\ BaseOf(journal.pub)
  /\ pc = "settle" => baseFile \notin Bytes

IInv ==
  /\ TypeOK /\ TargetIntact /\ OnlyWindowClobbers
  /\ Agreement /\ TransactionReady /\ TransactionGone /\ RenameChecked
  /\ Provenance /\ BaseReady

-----------------------------------------------------------------------------
(* Records *)

\* A journaled record can be read back from the journal.
LEMMA JournaledRecord ==
  ASSUME NEW p \in PublicationRecord
  PROVE  /\ Journaled(p) \in JournalRecord
         /\ Journaled(p).kind = "publication"
         /\ Journaled(p).pub = p
BY DEF Journaled, JournalRecord

\* What cleanup and discard leave in the journal carries no publication.
LEMMA RemainderRecord ==
  ASSUME NEW purpose \in Purposes
  PROVE  /\ Remainder(purpose) \in JournalRecord
         /\ Remainder(purpose).kind # "publication"
         /\ Remainder(purpose).pub = NoPublication
BY DEF Remainder, JournalRecord, Purposes, Plain

\* A journal either carries a publication record or NoPublication.
LEMMA JournalContents ==
  ASSUME NEW j \in JournalRecord
  PROVE  /\ j.kind = "publication" => j.pub \in PublicationRecord
         /\ j.kind # "publication" => j.pub = NoPublication
BY DEF Journaled, JournalRecord, Plain

LEMMA NewRecordFields ==
  ASSUME NEW base \in Bytes, NEW c \in Candidates, NEW purpose \in Purposes
  PROVE  /\ NewRecord(base, c, purpose) \in PublicationRecord
         /\ NewRecord(base, c, purpose).base = base
         /\ NewRecord(base, c, purpose).candidate = c
         /\ NewRecord(base, c, purpose).state = "pending"
BY DEF NewRecord, PublicationRecord, Stages

LEMMA NextStageFields ==
  ASSUME NEW p \in PublicationRecord, NEW s \in Stages
  PROVE  /\ [p EXCEPT !.stage = s] \in PublicationRecord
         /\ [p EXCEPT !.stage = s].base = p.base
         /\ [p EXCEPT !.stage = s].candidate = p.candidate
         /\ [p EXCEPT !.stage = s].state = p.state
         /\ [p EXCEPT !.stage = s].purpose = p.purpose
BY DEF PublicationRecord

LEMMA ConflictFields ==
  ASSUME NEW p \in PublicationRecord
  PROVE  /\ [p EXCEPT !.state = "conflict"] \in PublicationRecord
         /\ [p EXCEPT !.state = "conflict"].base = p.base
         /\ [p EXCEPT !.state = "conflict"].candidate = p.candidate
         /\ [p EXCEPT !.state = "conflict"].state = "conflict"
BY DEF PublicationRecord

LEMMA RecordFields ==
  ASSUME NEW p \in PublicationRecord
  PROVE  /\ p.base \in Bytes /\ p.candidate \in Candidates
         /\ p.purpose \in Purposes /\ p.state \in {"pending", "conflict"}
         /\ p # NoPublication
BY DistinctContents DEF PublicationRecord, NoPublication, Bytes

LEMMA NoPublicationFields ==
  NoPublication.base = Absent /\ NoPublication.candidate = Absent
    /\ NoPublication \notin PublicationRecord
BY DistinctContents DEF NoPublication, PublicationRecord, Bytes

-----------------------------------------------------------------------------
(* Facts about a state that satisfies the invariant *)

\* The record the process holds is well formed whenever it uses one.
LEMMA HeldRecord ==
  ASSUME Agreement, pc \notin {"down", "idle", "orphan"}
  PROVE  /\ rec \in PublicationRecord
         /\ rec.base \in Bytes /\ rec.candidate \in Candidates
         /\ rec.purpose \in Purposes /\ rec # NoPublication
BY RecordFields DEF Agreement

LEMMA PendingRecord ==
  ASSUME TypeOK, Pending
  PROVE  /\ journal.pub \in PublicationRecord
         /\ journal.pub.base \in Bytes /\ journal.pub.candidate \in Candidates
         /\ journal.pub.state \in {"pending", "conflict"}
BY JournalContents, RecordFields DEF TypeOK, Pending

\* A new stage changes nothing else of the record, and makes it pending.
LEMMA StageWrites ==
  ASSUME NEW s \in Stages, WriteStage(s), rec \in PublicationRecord
  PROVE  /\ rec' \in PublicationRecord /\ journal' \in JournalRecord
         /\ Pending' /\ journal'.pub = rec'
         /\ rec'.base = rec.base /\ rec'.candidate = rec.candidate
         /\ rec'.state = rec.state /\ rec'.purpose = rec.purpose
BY NextStageFields, JournaledRecord DEF WriteStage, Pending

\* Abandoning a step keeps the journal's record, or the one already held.
LEMMA AbandonKeeps ==
  ASSUME TypeOK, Agreement, Abandon, pc \notin {"down", "idle", "orphan"}
  PROVE  \/ pc = "prepare" /\ ~Pending /\ pc' = "idle" /\ rec' = NoPublication
         \/ /\ pc' = "pending" /\ rec' \in PublicationRecord
            /\ Pending => rec' = journal.pub
            /\ ~Pending => rec' = rec
BY HeldRecord, PendingRecord DEF Abandon

LEMMA InvariantFacts ==
  ASSUME IInv
  PROVE  /\ pc \notin {"down", "idle", "orphan"} =>
              /\ rec \in PublicationRecord
              /\ rec.base \in Bytes /\ rec.candidate \in Candidates
              /\ rec.purpose \in Purposes /\ rec # NoPublication
         /\ Pending =>
              /\ journal.pub \in PublicationRecord
              /\ journal.pub.base \in Bytes
              /\ journal.pub.candidate \in Candidates
              /\ journal.pub.state \in {"pending", "conflict"}
         /\ ~Pending => journal.pub = NoPublication
         /\ NoPublication.candidate = Absent /\ Absent \notin published
BY HeldRecord, PendingRecord, JournalContents, NoPublicationFields,
   DistinctContents DEF IInv, TypeOK, Pending, Bytes

USE DEF files, budget, ghosts, Goto, BeforeRename, AfterRename, CompleteSteps,
        CleanupSteps, ResumeSteps, DiscardSteps, Working, Resting

LEMMA BeginStep ==
  ASSUME IInv, NEW c \in Candidates, NEW purpose \in Purposes,
         Begin(c, purpose)
  PROVE  IInv'
<1>1. target \in Bytes
  BY DEF IInv, TypeOK, TargetIntact, Begin
<1>2. /\ rec' \in PublicationRecord /\ rec'.base = target
      /\ rec'.candidate = c /\ c \notin used
  BY <1>1, NewRecordFields DEF Begin, Purposes
<1>3. TypeOK'
  BY <1>2 DEF IInv, Begin, TypeOK, Untrack
<1>4. Agreement'
  BY <1>2, InvariantFacts DEF IInv, Begin, Agreement, Pending
<1>5. TransactionReady' /\ TransactionGone'
  BY DEF Begin, TransactionReady, TransactionGone, Untrack
<1>6. TargetIntact' /\ OnlyWindowClobbers' /\ RenameChecked'
  BY DEF IInv, Begin, TargetIntact, OnlyWindowClobbers, RenameChecked, Untrack
<1>7. Provenance'
  BY <1>2 DEF IInv, Begin, Provenance
<1>8. BaseReady'
  BY <1>2 DEF IInv, Begin, Provenance, BaseReady, BaseOf
<1> QED
  BY <1>3, <1>4, <1>5, <1>6, <1>7, <1>8 DEF IInv

LEMMA SupersedeStep ==
  ASSUME IInv, NEW c \in Candidates, Supersede(c)
  PROVE  IInv'
<1>1. target \in Bytes
  BY DEF IInv, TypeOK, TargetIntact, Supersede
<1>2. /\ rec' \in PublicationRecord /\ rec'.base = target
      /\ rec'.candidate = c /\ c \notin used
  BY <1>1, NewRecordFields DEF Supersede, Purposes
<1>3. TypeOK'
  BY <1>2 DEF IInv, Supersede, TypeOK
<1>4. Agreement'
  BY <1>2, InvariantFacts DEF IInv, Supersede, Agreement, Pending
<1>5. TransactionReady' /\ TransactionGone'
  BY DEF IInv, Supersede, TransactionReady, TransactionGone
<1>6. TargetIntact' /\ OnlyWindowClobbers' /\ RenameChecked'
  BY DEF IInv, Supersede, TargetIntact, OnlyWindowClobbers, RenameChecked
<1>7. Provenance'
  BY <1>2 DEF IInv, Supersede, Provenance
<1>8. BaseReady'
  BY <1>2 DEF IInv, Supersede, Provenance, BaseReady, BaseOf
<1> QED
  BY <1>3, <1>4, <1>5, <1>6, <1>7, <1>8 DEF IInv

LEMMA PrepareStep ==
  ASSUME IInv, Prepare
  PROVE  IInv'
<1>1. TypeOK'
  BY InvariantFacts, JournaledRecord, DistinctContents DEF IInv, Prepare,
     TypeOK, Bytes, Untrack
<1>2. Agreement'
  BY InvariantFacts, JournaledRecord DEF IInv, Prepare, Agreement, TypeOK,
     Pending
<1>3. TransactionReady' /\ TransactionGone'
  BY InvariantFacts, JournaledRecord DEF IInv, Prepare, TransactionReady,
     TransactionGone, Agreement, Untrack
<1>4. TargetIntact' /\ OnlyWindowClobbers' /\ RenameChecked'
  BY InvariantFacts, JournaledRecord, DistinctContents DEF IInv, Prepare,
     TargetIntact, OnlyWindowClobbers, RenameChecked, Bytes, Untrack
<1>5. Provenance' /\ BaseReady'
  BY InvariantFacts, JournaledRecord, DistinctContents DEF IInv, Prepare,
     Provenance, BaseReady, BaseOf, TypeOK, Agreement, Pending, Bytes, Untrack
<1> QED
  BY <1>1, <1>2, <1>3, <1>4, <1>5 DEF IInv

LEMMA JournalUnavailableStep ==
  ASSUME IInv, NEW c \in Candidates, JournalUnavailable(c)
  PROVE  IInv'
<1>1. opened \in Bytes
  BY DEF IInv, TypeOK, TargetIntact, JournalUnavailable
<1>2. /\ rec' \in PublicationRecord /\ rec'.base = opened
      /\ rec'.candidate = c /\ c \notin used
      /\ journal' \in JournalRecord /\ Pending' /\ journal'.pub = rec'
  BY <1>1, NewRecordFields, JournaledRecord DEF JournalUnavailable, Purposes, Pending
<1>3. TypeOK'
  BY <1>2 DEF IInv, JournalUnavailable, TypeOK, Untrack
<1>4. Agreement'
  BY <1>2 DEF IInv, JournalUnavailable, Agreement, Pending
<1>5. TransactionReady' /\ TransactionGone'
  BY DEF JournalUnavailable, TransactionReady, TransactionGone, Untrack
<1>6. TargetIntact' /\ OnlyWindowClobbers' /\ RenameChecked'
  BY DEF IInv, JournalUnavailable, TargetIntact, OnlyWindowClobbers, RenameChecked, Untrack
<1>7. Provenance'
  BY <1>2 DEF IInv, JournalUnavailable, Provenance
<1>8. BaseReady'
  BY <1>2 DEF IInv, JournalUnavailable, Provenance, BaseReady, BaseOf
<1> QED
  BY <1>3, <1>4, <1>5, <1>6, <1>7, <1>8 DEF IInv

LEMMA PreserveConflictStep ==
  ASSUME IInv, NEW c \in Candidates, PreserveConflict(c)
  PROVE  IInv'
<1>1. opened \in Bytes
  BY DEF IInv, TypeOK, TargetIntact, PreserveConflict
<1>2. /\ rec' \in PublicationRecord /\ rec'.base = opened
      /\ rec'.candidate = c /\ c \notin used
      /\ journal' \in JournalRecord /\ Pending' /\ journal'.pub = rec'
  BY <1>1, NewRecordFields, JournaledRecord DEF PreserveConflict, Purposes, Pending
<1>3. TypeOK'
  BY <1>2 DEF IInv, PreserveConflict, TypeOK, Untrack
<1>4. Agreement'
  BY <1>2 DEF IInv, PreserveConflict, Agreement, Pending
<1>5. TransactionReady' /\ TransactionGone'
  BY DEF PreserveConflict, TransactionReady, TransactionGone, Untrack
<1>6. TargetIntact' /\ OnlyWindowClobbers' /\ RenameChecked'
  BY DEF IInv, PreserveConflict, TargetIntact, OnlyWindowClobbers, RenameChecked, Untrack
<1>7. Provenance'
  BY <1>2 DEF IInv, PreserveConflict, Provenance
<1>8. BaseReady'
  BY <1>2 DEF IInv, PreserveConflict, Provenance, BaseReady, BaseOf
<1> QED
  BY <1>3, <1>4, <1>5, <1>6, <1>7, <1>8 DEF IInv

LEMMA CheckBaseStep ==
  ASSUME IInv, CheckBase
  PROVE  IInv'
<1>1. TypeOK'
  BY ZenonT(60), InvariantFacts, AbandonKeeps, DistinctContents DEF IInv, CheckBase,
     TypeOK, Bytes
<1>2. Agreement'
  BY InvariantFacts, AbandonKeeps DEF IInv, CheckBase, Agreement, TypeOK,
     Pending
<1>3. TransactionReady' /\ TransactionGone'
  BY InvariantFacts, AbandonKeeps DEF IInv, CheckBase, TransactionReady,
     TransactionGone, Agreement
<1>4. TargetIntact' /\ OnlyWindowClobbers' /\ RenameChecked'
  BY InvariantFacts, AbandonKeeps, DistinctContents DEF IInv, CheckBase,
     TargetIntact, OnlyWindowClobbers, RenameChecked, Bytes
<1>5. Provenance'
  BY InvariantFacts, AbandonKeeps DEF IInv, CheckBase, Provenance
<1>6. BaseReady'
  BY InvariantFacts, AbandonKeeps DEF IInv, CheckBase, Provenance, BaseReady,
     BaseOf, Pending, Agreement
<1> QED
  BY <1>1, <1>2, <1>3, <1>4, <1>5, <1>6 DEF IInv

LEMMA MakeBaseStep ==
  ASSUME IInv, MakeBase
  PROVE  IInv'
<1>1. TypeOK'
  BY ZenonT(60), InvariantFacts, AbandonKeeps, DistinctContents DEF IInv, MakeBase,
     TypeOK, Bytes
<1>2. Agreement'
  BY InvariantFacts, AbandonKeeps DEF IInv, MakeBase, Agreement, TypeOK,
     Pending
<1>3. TransactionReady' /\ TransactionGone'
  BY InvariantFacts, AbandonKeeps DEF IInv, MakeBase, TransactionReady,
     TransactionGone, Agreement
<1>4. TargetIntact' /\ OnlyWindowClobbers' /\ RenameChecked'
  BY InvariantFacts, AbandonKeeps, DistinctContents DEF IInv, MakeBase,
     TargetIntact, OnlyWindowClobbers, RenameChecked, Bytes
<1>5. Provenance'
  BY InvariantFacts, AbandonKeeps DEF IInv, MakeBase, Provenance
<1>6. BaseReady'
  BY InvariantFacts, AbandonKeeps DEF IInv, MakeBase, Provenance, BaseReady,
     BaseOf, Pending, Agreement
<1> QED
  BY <1>1, <1>2, <1>3, <1>4, <1>5, <1>6 DEF IInv

LEMMA SyncBaseStep ==
  ASSUME IInv, SyncBase
  PROVE  IInv'
<1>1. TypeOK'
  BY InvariantFacts, DistinctContents DEF IInv, SyncBase, TypeOK, Bytes
<1>2. Agreement'
  BY InvariantFacts DEF IInv, SyncBase, Agreement, TypeOK, Pending
<1>3. TransactionReady' /\ TransactionGone'
  BY InvariantFacts DEF IInv, SyncBase, TransactionReady, TransactionGone,
     Agreement
<1>4. TargetIntact' /\ OnlyWindowClobbers' /\ RenameChecked'
  BY InvariantFacts, DistinctContents DEF IInv, SyncBase, TargetIntact,
     OnlyWindowClobbers, RenameChecked, Bytes
<1>5. Provenance' /\ BaseReady'
  BY InvariantFacts, DistinctContents DEF IInv, SyncBase, Provenance,
     BaseReady, BaseOf, TypeOK, Agreement, Pending, Bytes
<1> QED
  BY <1>1, <1>2, <1>3, <1>4, <1>5 DEF IInv

LEMMA CheckTransactionStep ==
  ASSUME IInv, CheckTransaction
  PROVE  IInv'
<1>1. TypeOK'
  BY ZenonT(60), InvariantFacts, AbandonKeeps, DistinctContents DEF IInv,
     CheckTransaction, TypeOK, Bytes
<1>2. Agreement'
  BY InvariantFacts, AbandonKeeps DEF IInv, CheckTransaction, Agreement,
     TypeOK, Pending
<1>3. TransactionReady' /\ TransactionGone'
  BY InvariantFacts, AbandonKeeps DEF IInv, CheckTransaction,
     TransactionReady, TransactionGone, Agreement, TypeOK
<1>4. TargetIntact' /\ OnlyWindowClobbers' /\ RenameChecked'
  BY InvariantFacts, AbandonKeeps, DistinctContents DEF IInv,
     CheckTransaction, TargetIntact, OnlyWindowClobbers, RenameChecked, Bytes
<1>5. Provenance' /\ BaseReady'
  BY InvariantFacts, AbandonKeeps, DistinctContents DEF IInv,
     CheckTransaction, Provenance, BaseReady, BaseOf, TypeOK, Agreement,
     Pending, Bytes
<1> QED
  BY <1>1, <1>2, <1>3, <1>4, <1>5 DEF IInv

LEMMA StageWrittenStep ==
  ASSUME IInv, StageWritten
  PROVE  IInv'
<1>1. TypeOK'
  BY InvariantFacts, StageWrites, DistinctContents DEF IInv, StageWritten,
     TypeOK, Bytes, Stages
<1>2. Agreement'
  BY InvariantFacts, StageWrites DEF IInv, StageWritten, Agreement, TypeOK,
     Pending, Stages
<1>3. TransactionReady' /\ TransactionGone'
  BY InvariantFacts, StageWrites DEF IInv, StageWritten, TransactionReady,
     TransactionGone, Agreement, Stages
<1>4. TargetIntact' /\ OnlyWindowClobbers' /\ RenameChecked'
  BY InvariantFacts, StageWrites, DistinctContents DEF IInv, StageWritten,
     TargetIntact, OnlyWindowClobbers, RenameChecked, Bytes, Stages
<1>5. Provenance' /\ BaseReady'
  BY InvariantFacts, StageWrites, DistinctContents DEF IInv, StageWritten,
     Provenance, BaseReady, BaseOf, TypeOK, Agreement, Pending, Bytes, Stages
<1> QED
  BY <1>1, <1>2, <1>3, <1>4, <1>5 DEF IInv

LEMMA SyncTransactionStep ==
  ASSUME IInv, SyncTransaction
  PROVE  IInv'
<1>1. TypeOK'
  BY InvariantFacts, DistinctContents DEF IInv, SyncTransaction, TypeOK, Bytes
<1>2. Agreement'
  BY InvariantFacts DEF IInv, SyncTransaction, Agreement, TypeOK, Pending
<1>3. TransactionReady' /\ TransactionGone'
  BY InvariantFacts DEF IInv, SyncTransaction, TransactionReady,
     TransactionGone, Agreement
<1>4. TargetIntact' /\ OnlyWindowClobbers' /\ RenameChecked'
  BY InvariantFacts, DistinctContents DEF IInv, SyncTransaction, TargetIntact,
     OnlyWindowClobbers, RenameChecked, Bytes
<1>5. Provenance' /\ BaseReady'
  BY InvariantFacts, DistinctContents DEF IInv, SyncTransaction, Provenance,
     BaseReady, BaseOf, TypeOK, Agreement, Pending, Bytes
<1> QED
  BY <1>1, <1>2, <1>3, <1>4, <1>5 DEF IInv

LEMMA StageFlushedStep ==
  ASSUME IInv, StageFlushed
  PROVE  IInv'
<1>1. TypeOK'
  BY InvariantFacts, StageWrites, DistinctContents DEF IInv, StageFlushed,
     TypeOK, Bytes, Stages
<1>2. Agreement'
  BY InvariantFacts, StageWrites DEF IInv, StageFlushed, Agreement, TypeOK,
     Pending, Stages
<1>3. TransactionReady' /\ TransactionGone'
  BY InvariantFacts, StageWrites DEF IInv, StageFlushed, TransactionReady,
     TransactionGone, Agreement, Stages
<1>4. TargetIntact' /\ OnlyWindowClobbers' /\ RenameChecked'
  BY InvariantFacts, StageWrites, DistinctContents DEF IInv, StageFlushed,
     TargetIntact, OnlyWindowClobbers, RenameChecked, Bytes, Stages
<1>5. Provenance' /\ BaseReady'
  BY InvariantFacts, StageWrites, DistinctContents DEF IInv, StageFlushed,
     Provenance, BaseReady, BaseOf, TypeOK, Agreement, Pending, Bytes, Stages
<1> QED
  BY <1>1, <1>2, <1>3, <1>4, <1>5 DEF IInv

LEMMA CompareTargetStep ==
  ASSUME IInv, CompareTarget
  PROVE  IInv'
<1>1. TypeOK'
  BY InvariantFacts, AbandonKeeps, DistinctContents DEF IInv, CompareTarget,
     TypeOK, Bytes
<1>2. Agreement'
  BY InvariantFacts, AbandonKeeps DEF IInv, CompareTarget, Agreement, TypeOK,
     Pending
<1>3. TransactionReady' /\ TransactionGone'
  BY InvariantFacts, AbandonKeeps DEF IInv, CompareTarget, TransactionReady,
     TransactionGone, Agreement
<1>4. TargetIntact' /\ OnlyWindowClobbers' /\ RenameChecked'
  BY InvariantFacts, AbandonKeeps, DistinctContents DEF IInv, CompareTarget,
     TargetIntact, OnlyWindowClobbers, RenameChecked, Bytes
<1>5. Provenance' /\ BaseReady'
  BY InvariantFacts, AbandonKeeps, DistinctContents DEF IInv, CompareTarget,
     Provenance, BaseReady, BaseOf, TypeOK, Agreement, Pending, Bytes
<1> QED
  BY <1>1, <1>2, <1>3, <1>4, <1>5 DEF IInv

LEMMA RenameStep ==
  ASSUME IInv, Rename
  PROVE  IInv'
<1>1. /\ rec \in PublicationRecord /\ Pending /\ rec = journal.pub
      /\ txn = rec.candidate /\ rec.candidate \in Candidates
      /\ baseFile = rec.base /\ target \in {rec.base, Absent} \cup window
  BY InvariantFacts
     DEF IInv, Rename, Agreement, TransactionReady, BaseReady, RenameChecked
<1>2. TypeOK'
  BY <1>1 DEF IInv, Rename, TypeOK, TargetIntact, Bytes
<1>3. Agreement'
  BY <1>1 DEF IInv, Rename, Agreement, Pending
<1>4. TransactionReady' /\ TransactionGone'
  BY DEF Rename, TransactionReady, TransactionGone
<1>5. TargetIntact' /\ OnlyWindowClobbers' /\ RenameChecked'
  BY <1>1, DistinctContents
     DEF IInv, Rename, TargetIntact, TransactionReady, OnlyWindowClobbers,
         RenameChecked, Bytes
<1>6. Provenance'
  BY <1>1, DistinctContents DEF IInv, Rename, Provenance, Bytes
<1>7. BaseReady'
  BY <1>1 DEF IInv, Rename, BaseReady, BaseOf
<1> QED
  BY <1>1, <1>2, <1>3, <1>4, <1>5, <1>6, <1>7 DEF IInv

LEMMA StageReplacedStep ==
  ASSUME IInv, StageReplaced
  PROVE  IInv'
<1>1. TypeOK'
  BY InvariantFacts, StageWrites, DistinctContents DEF IInv, StageReplaced,
     TypeOK, Bytes, Stages
<1>2. Agreement'
  BY InvariantFacts, StageWrites DEF IInv, StageReplaced, Agreement, TypeOK,
     Pending, Stages
<1>3. TransactionReady' /\ TransactionGone'
  BY InvariantFacts, StageWrites DEF IInv, StageReplaced, TransactionReady,
     TransactionGone, Agreement, Stages
<1>4. TargetIntact' /\ OnlyWindowClobbers' /\ RenameChecked'
  BY InvariantFacts, StageWrites, DistinctContents DEF IInv, StageReplaced,
     TargetIntact, OnlyWindowClobbers, RenameChecked, Bytes, Stages
<1>5. Provenance' /\ BaseReady'
  BY InvariantFacts, StageWrites, DistinctContents DEF IInv, StageReplaced,
     Provenance, BaseReady, BaseOf, TypeOK, Agreement, Pending, Bytes, Stages
<1> QED
  BY <1>1, <1>2, <1>3, <1>4, <1>5 DEF IInv

LEMMA VerifyStep ==
  ASSUME IInv, Verify
  PROVE  IInv'
<1>1. TypeOK'
  BY InvariantFacts, AbandonKeeps, DistinctContents DEF IInv, Verify, TypeOK,
     Bytes
<1>2. Agreement'
  BY InvariantFacts, AbandonKeeps DEF IInv, Verify, Agreement, TypeOK, Pending
<1>3. TransactionReady' /\ TransactionGone'
  BY InvariantFacts, AbandonKeeps DEF IInv, Verify, TransactionReady,
     TransactionGone, Agreement
<1>4. TargetIntact' /\ OnlyWindowClobbers' /\ RenameChecked'
  BY InvariantFacts, AbandonKeeps, DistinctContents DEF IInv, Verify,
     TargetIntact, OnlyWindowClobbers, RenameChecked, Bytes
<1>5. Provenance' /\ BaseReady'
  BY InvariantFacts, AbandonKeeps, DistinctContents DEF IInv, Verify,
     Provenance, BaseReady, BaseOf, TypeOK, Agreement, Pending, Bytes
<1> QED
  BY <1>1, <1>2, <1>3, <1>4, <1>5 DEF IInv

LEMMA StageVerifiedStep ==
  ASSUME IInv, StageVerified
  PROVE  IInv'
<1>1. TypeOK'
  BY InvariantFacts, StageWrites, DistinctContents DEF IInv, StageVerified,
     TypeOK, Bytes, Stages
<1>2. Agreement'
  BY InvariantFacts, StageWrites DEF IInv, StageVerified, Agreement, TypeOK,
     Pending, Stages
<1>3. TransactionReady' /\ TransactionGone'
  BY InvariantFacts, StageWrites DEF IInv, StageVerified, TransactionReady,
     TransactionGone, Agreement, Stages
<1>4. TargetIntact' /\ OnlyWindowClobbers' /\ RenameChecked'
  BY InvariantFacts, StageWrites, DistinctContents DEF IInv, StageVerified,
     TargetIntact, OnlyWindowClobbers, RenameChecked, Bytes, Stages
<1>5. Provenance' /\ BaseReady'
  BY InvariantFacts, StageWrites, DistinctContents DEF IInv, StageVerified,
     Provenance, BaseReady, BaseOf, TypeOK, Agreement, Pending, Bytes, Stages
<1> QED
  BY <1>1, <1>2, <1>3, <1>4, <1>5 DEF IInv

LEMMA StageCleanupStep ==
  ASSUME IInv, StageCleanup
  PROVE  IInv'
<1>1. TypeOK'
  BY InvariantFacts, StageWrites, DistinctContents DEF IInv, StageCleanup,
     TypeOK, Bytes, Stages
<1>2. Agreement'
  BY InvariantFacts, StageWrites DEF IInv, StageCleanup, Agreement, TypeOK,
     Pending, Stages
<1>3. TransactionReady' /\ TransactionGone'
  BY InvariantFacts, StageWrites DEF IInv, StageCleanup, TransactionReady,
     TransactionGone, Agreement, Stages
<1>4. TargetIntact' /\ OnlyWindowClobbers' /\ RenameChecked'
  BY InvariantFacts, StageWrites, DistinctContents DEF IInv, StageCleanup,
     TargetIntact, OnlyWindowClobbers, RenameChecked, Bytes, Stages
<1>5. Provenance' /\ BaseReady'
  BY InvariantFacts, StageWrites, DistinctContents DEF IInv, StageCleanup,
     Provenance, BaseReady, BaseOf, TypeOK, Agreement, Pending, Bytes, Stages
<1> QED
  BY <1>1, <1>2, <1>3, <1>4, <1>5 DEF IInv

LEMMA DropTransactionStep ==
  ASSUME IInv, DropTransaction
  PROVE  IInv'
<1>1. TypeOK'
  BY InvariantFacts, DistinctContents DEF IInv, DropTransaction, TypeOK, Bytes
<1>2. Agreement'
  BY InvariantFacts DEF IInv, DropTransaction, Agreement, TypeOK, Pending
<1>3. TransactionReady' /\ TransactionGone'
  BY InvariantFacts DEF IInv, DropTransaction, TransactionReady,
     TransactionGone, Agreement, TypeOK
<1>4. TargetIntact' /\ OnlyWindowClobbers' /\ RenameChecked'
  BY InvariantFacts, DistinctContents DEF IInv, DropTransaction, TargetIntact,
     OnlyWindowClobbers, RenameChecked, Bytes
<1>5. Provenance' /\ BaseReady'
  BY InvariantFacts, DistinctContents DEF IInv, DropTransaction, Provenance,
     BaseReady, BaseOf, TypeOK, Agreement, Pending, Bytes
<1> QED
  BY <1>1, <1>2, <1>3, <1>4, <1>5 DEF IInv

LEMMA DropBaseStep ==
  ASSUME IInv, DropBase
  PROVE  IInv'
<1>1. TypeOK'
  BY InvariantFacts, DistinctContents DEF IInv, DropBase, TypeOK, Bytes
<1>2. Agreement'
  BY InvariantFacts DEF IInv, DropBase, Agreement, TypeOK, Pending
<1>3. TransactionReady' /\ TransactionGone'
  BY InvariantFacts DEF IInv, DropBase, TransactionReady, TransactionGone,
     Agreement
<1>4. TargetIntact' /\ OnlyWindowClobbers' /\ RenameChecked'
  BY InvariantFacts, DistinctContents DEF IInv, DropBase, TargetIntact,
     OnlyWindowClobbers, RenameChecked, Bytes
<1>5. Provenance' /\ BaseReady'
  BY InvariantFacts, DistinctContents DEF IInv, DropBase, Provenance,
     BaseReady, BaseOf, TypeOK, Agreement, Pending, Bytes
<1> QED
  BY <1>1, <1>2, <1>3, <1>4, <1>5 DEF IInv

LEMMA SettleStep ==
  ASSUME IInv, Settle
  PROVE  IInv'
<1>1. TypeOK'
  BY InvariantFacts, RemainderRecord, NoPublicationFields, DistinctContents
     DEF IInv, Settle, TypeOK, Bytes
<1>2. Agreement'
  BY InvariantFacts, RemainderRecord, NoPublicationFields DEF IInv, Settle,
     Agreement, TypeOK, Pending
<1>3. TransactionReady' /\ TransactionGone'
  BY InvariantFacts, RemainderRecord, NoPublicationFields DEF IInv, Settle,
     TransactionReady, TransactionGone, Agreement
<1>4. TargetIntact' /\ OnlyWindowClobbers' /\ RenameChecked'
  BY InvariantFacts, RemainderRecord, NoPublicationFields, DistinctContents
     DEF IInv, Settle, TargetIntact, OnlyWindowClobbers, RenameChecked, Bytes
<1>5. Provenance' /\ BaseReady'
  BY InvariantFacts, RemainderRecord, NoPublicationFields, DistinctContents
     DEF IInv, Settle, Provenance, BaseReady, BaseOf, TypeOK, Agreement,
     Pending, Bytes
<1> QED
  BY <1>1, <1>2, <1>3, <1>4, <1>5 DEF IInv

LEMMA OpenStep ==
  ASSUME IInv, Open
  PROVE  IInv'
<1>1. TypeOK'
  BY InvariantFacts, NoPublicationFields, DistinctContents DEF IInv, Open,
     TypeOK, Bytes, TargetIntact
<1>2. Agreement'
  BY InvariantFacts, NoPublicationFields DEF IInv, Open, Agreement, TypeOK,
     Pending
<1>3. TransactionReady' /\ TransactionGone'
  BY InvariantFacts, NoPublicationFields DEF IInv, Open, TransactionReady,
     TransactionGone, Agreement
<1>4. TargetIntact' /\ OnlyWindowClobbers' /\ RenameChecked'
  BY InvariantFacts, NoPublicationFields, DistinctContents DEF IInv, Open,
     TargetIntact, OnlyWindowClobbers, RenameChecked, Bytes
<1>5. Provenance' /\ BaseReady'
  BY InvariantFacts, NoPublicationFields, DistinctContents DEF IInv, Open,
     Provenance, BaseReady, BaseOf, TypeOK, Agreement, Pending, Bytes
<1> QED
  BY <1>1, <1>2, <1>3, <1>4, <1>5 DEF IInv

LEMMA RemoveOrphanStep ==
  ASSUME IInv, RemoveOrphan
  PROVE  IInv'
<1>1. TypeOK'
  BY InvariantFacts, DistinctContents DEF IInv, RemoveOrphan, TypeOK, Bytes
<1>2. Agreement'
  BY InvariantFacts DEF IInv, RemoveOrphan, Agreement, TypeOK, Pending
<1>3. TransactionReady' /\ TransactionGone'
  BY InvariantFacts DEF IInv, RemoveOrphan, TransactionReady, TransactionGone,
     Agreement
<1>4. TargetIntact' /\ OnlyWindowClobbers' /\ RenameChecked'
  BY InvariantFacts, DistinctContents DEF IInv, RemoveOrphan, TargetIntact,
     OnlyWindowClobbers, RenameChecked, Bytes
<1>5. Provenance' /\ BaseReady'
  BY InvariantFacts, DistinctContents DEF IInv, RemoveOrphan, Provenance,
     BaseReady, BaseOf, TypeOK, Agreement, Pending, Bytes
<1> QED
  BY <1>1, <1>2, <1>3, <1>4, <1>5 DEF IInv

LEMMA CloseStep ==
  ASSUME IInv, Close
  PROVE  IInv'
<1>1. TypeOK'
  BY InvariantFacts, NoPublicationFields, DistinctContents DEF IInv, Close,
     TypeOK, Bytes
<1>2. Agreement'
  BY InvariantFacts, NoPublicationFields DEF IInv, Close, Agreement, TypeOK,
     Pending
<1>3. TransactionReady' /\ TransactionGone'
  BY InvariantFacts, NoPublicationFields DEF IInv, Close, TransactionReady,
     TransactionGone, Agreement
<1>4. TargetIntact' /\ OnlyWindowClobbers' /\ RenameChecked'
  BY InvariantFacts, NoPublicationFields, DistinctContents DEF IInv, Close,
     TargetIntact, OnlyWindowClobbers, RenameChecked, Bytes
<1>5. Provenance' /\ BaseReady'
  BY InvariantFacts, NoPublicationFields, DistinctContents DEF IInv, Close,
     Provenance, BaseReady, BaseOf, TypeOK, Agreement, Pending, Bytes
<1> QED
  BY <1>1, <1>2, <1>3, <1>4, <1>5 DEF IInv

LEMMA ReconnectStep ==
  ASSUME IInv, Reconnect
  PROVE  IInv'
<1>1. TypeOK'
  BY InvariantFacts, DistinctContents DEF IInv, Reconnect, TypeOK, Bytes
<1>2. Agreement'
  BY InvariantFacts DEF IInv, Reconnect, Agreement, TypeOK, Pending
<1>3. TransactionReady' /\ TransactionGone'
  BY InvariantFacts DEF IInv, Reconnect, TransactionReady, TransactionGone,
     Agreement
<1>4. TargetIntact' /\ OnlyWindowClobbers' /\ RenameChecked'
  BY InvariantFacts, DistinctContents DEF IInv, Reconnect, TargetIntact,
     OnlyWindowClobbers, RenameChecked, Bytes
<1>5. Provenance' /\ BaseReady'
  BY InvariantFacts, DistinctContents DEF IInv, Reconnect, Provenance,
     BaseReady, BaseOf, TypeOK, Agreement, Pending, Bytes
<1> QED
  BY <1>1, <1>2, <1>3, <1>4, <1>5 DEF IInv

LEMMA ResumeTransactionStep ==
  ASSUME IInv, ResumeTransaction
  PROVE  IInv'
<1>1. TypeOK'
  BY InvariantFacts, DistinctContents DEF IInv, ResumeTransaction, TypeOK,
     Bytes
<1>2. Agreement'
  BY InvariantFacts DEF IInv, ResumeTransaction, Agreement, TypeOK, Pending
<1>3. TransactionReady' /\ TransactionGone'
  BY InvariantFacts DEF IInv, ResumeTransaction, TransactionReady,
     TransactionGone, Agreement, TypeOK
<1>4. TargetIntact' /\ OnlyWindowClobbers' /\ RenameChecked'
  BY InvariantFacts, DistinctContents DEF IInv, ResumeTransaction,
     TargetIntact, OnlyWindowClobbers, RenameChecked, Bytes
<1>5. Provenance' /\ BaseReady'
  BY InvariantFacts, DistinctContents DEF IInv, ResumeTransaction, Provenance,
     BaseReady, BaseOf, TypeOK, Agreement, Pending, Bytes
<1> QED
  BY <1>1, <1>2, <1>3, <1>4, <1>5 DEF IInv

LEMMA ResumeTargetStep ==
  ASSUME IInv, ResumeTarget
  PROVE  IInv'
<1>1. TypeOK'
  BY InvariantFacts, DistinctContents DEF IInv, ResumeTarget, TypeOK, Bytes
<1>2. Agreement'
  BY InvariantFacts DEF IInv, ResumeTarget, Agreement, TypeOK, Pending
<1>3. TransactionReady' /\ TransactionGone'
  BY InvariantFacts DEF IInv, ResumeTarget, TransactionReady, TransactionGone,
     Agreement
<1>4. TargetIntact' /\ OnlyWindowClobbers' /\ RenameChecked'
  BY InvariantFacts, DistinctContents DEF IInv, ResumeTarget, TargetIntact,
     OnlyWindowClobbers, RenameChecked, Bytes
<1>5. Provenance' /\ BaseReady'
  BY InvariantFacts, DistinctContents DEF IInv, ResumeTarget, Provenance,
     BaseReady, BaseOf, TypeOK, Agreement, Pending, Bytes
<1> QED
  BY <1>1, <1>2, <1>3, <1>4, <1>5 DEF IInv

LEMMA MarkDivergedStep ==
  ASSUME IInv, MarkDiverged
  PROVE  IInv'
<1>1. /\ rec' \in PublicationRecord /\ rec'.base = rec.base
      /\ rec'.candidate = rec.candidate
      /\ journal' \in JournalRecord /\ Pending' /\ journal'.pub = rec'
  BY InvariantFacts, ConflictFields, JournaledRecord DEF MarkDiverged, Pending
<1>2. TypeOK'
  BY <1>1 DEF IInv, MarkDiverged, TypeOK
<1>3. Agreement'
  BY <1>1 DEF IInv, MarkDiverged, Agreement, Pending
<1>4. TransactionReady' /\ TransactionGone'
  BY DEF IInv, MarkDiverged, TransactionReady, TransactionGone
<1>5. TargetIntact' /\ OnlyWindowClobbers' /\ RenameChecked'
  BY DEF IInv, MarkDiverged, TargetIntact, OnlyWindowClobbers, RenameChecked
<1>6. Provenance'
  BY <1>1 DEF IInv, MarkDiverged, Provenance
<1>7. BaseReady'
  BY <1>1 DEF IInv, MarkDiverged, BaseReady, BaseOf
<1> QED
  BY <1>1, <1>2, <1>3, <1>4, <1>5, <1>6, <1>7 DEF IInv

LEMMA DiscardStep ==
  ASSUME IInv, Discard
  PROVE  IInv'
<1>1. TypeOK'
  BY InvariantFacts, DistinctContents DEF IInv, Discard, TypeOK, Bytes
<1>2. Agreement'
  BY InvariantFacts DEF IInv, Discard, Agreement, TypeOK, Pending
<1>3. TransactionReady' /\ TransactionGone'
  BY InvariantFacts DEF IInv, Discard, TransactionReady, TransactionGone,
     Agreement
<1>4. TargetIntact' /\ OnlyWindowClobbers' /\ RenameChecked'
  BY InvariantFacts, DistinctContents DEF IInv, Discard, TargetIntact,
     OnlyWindowClobbers, RenameChecked, Bytes
<1>5. Provenance' /\ BaseReady'
  BY InvariantFacts, DistinctContents DEF IInv, Discard, Provenance,
     BaseReady, BaseOf, TypeOK, Agreement, Pending, Bytes
<1> QED
  BY <1>1, <1>2, <1>3, <1>4, <1>5 DEF IInv

LEMMA DiscardTransactionStep ==
  ASSUME IInv, DiscardTransaction
  PROVE  IInv'
<1>1. TypeOK'
  <2>1. txn' \in Candidates \cup {Absent, Torn} /\ volatile' \subseteq volatile
    BY DEF IInv, DiscardTransaction, TypeOK
  <2>2. faults' \in 0..MaxFaults
    BY BoundsAreNaturals DEF IInv, DiscardTransaction, TypeOK
  <2> QED
    BY <2>1, <2>2 DEF IInv, DiscardTransaction, TypeOK
<1>2. Agreement'
  BY DEF IInv, DiscardTransaction, Agreement, Pending
<1>3. TransactionReady' /\ TransactionGone'
  BY DEF IInv, DiscardTransaction, TransactionReady, TransactionGone
<1>4. TargetIntact' /\ OnlyWindowClobbers' /\ RenameChecked'
  BY DEF IInv, DiscardTransaction, TargetIntact, OnlyWindowClobbers, RenameChecked
<1>5. Provenance'
  BY DEF IInv, DiscardTransaction, Provenance
<1>6. BaseReady'
  BY DEF IInv, DiscardTransaction, BaseReady, BaseOf
<1> QED
  BY <1>1, <1>2, <1>3, <1>4, <1>5, <1>6 DEF IInv

LEMMA DiscardJournalStep ==
  ASSUME IInv, DiscardJournal
  PROVE  IInv'
<1>1. TypeOK'
  BY InvariantFacts, RemainderRecord, DistinctContents DEF IInv,
     DiscardJournal, TypeOK, Bytes
<1>2. Agreement'
  BY InvariantFacts, RemainderRecord DEF IInv, DiscardJournal, Agreement,
     TypeOK, Pending
<1>3. TransactionReady' /\ TransactionGone'
  BY InvariantFacts, RemainderRecord DEF IInv, DiscardJournal,
     TransactionReady, TransactionGone, Agreement
<1>4. TargetIntact' /\ OnlyWindowClobbers' /\ RenameChecked'
  BY InvariantFacts, RemainderRecord, DistinctContents DEF IInv,
     DiscardJournal, TargetIntact, OnlyWindowClobbers, RenameChecked, Bytes
<1>5. Provenance'
  BY InvariantFacts, RemainderRecord DEF IInv, DiscardJournal, Provenance
<1>6. BaseReady'
  BY InvariantFacts, RemainderRecord DEF IInv, DiscardJournal, Provenance,
     BaseReady, BaseOf, Pending
<1> QED
  BY <1>1, <1>2, <1>3, <1>4, <1>5, <1>6 DEF IInv

LEMMA DiscardBaseStep ==
  ASSUME IInv, DiscardBase
  PROVE  IInv'
<1>1. TypeOK'
  BY InvariantFacts, NoPublicationFields, DistinctContents DEF IInv,
     DiscardBase, TypeOK, Bytes
<1>2. Agreement'
  BY InvariantFacts, NoPublicationFields DEF IInv, DiscardBase, Agreement,
     TypeOK, Pending
<1>3. TransactionReady' /\ TransactionGone'
  BY InvariantFacts, NoPublicationFields DEF IInv, DiscardBase,
     TransactionReady, TransactionGone, Agreement
<1>4. TargetIntact' /\ OnlyWindowClobbers' /\ RenameChecked'
  BY InvariantFacts, NoPublicationFields, DistinctContents DEF IInv,
     DiscardBase, TargetIntact, OnlyWindowClobbers, RenameChecked, Bytes
<1>5. Provenance' /\ BaseReady'
  BY InvariantFacts, NoPublicationFields, DistinctContents DEF IInv,
     DiscardBase, Provenance, BaseReady, BaseOf, TypeOK, Agreement, Pending,
     Bytes
<1> QED
  BY <1>1, <1>2, <1>3, <1>4, <1>5 DEF IInv

LEMMA FailStep ==
  ASSUME IInv, Fail
  PROVE  IInv'
<1>1. TypeOK'
  BY InvariantFacts, AbandonKeeps, DistinctContents, BoundsAreNaturals DEF
     IInv, Fail, TypeOK, Bytes
<1>2. Agreement'
  BY InvariantFacts, AbandonKeeps DEF IInv, Fail, Agreement, TypeOK, Pending
<1>3. TransactionReady' /\ TransactionGone'
  BY InvariantFacts, AbandonKeeps DEF IInv, Fail, TransactionReady,
     TransactionGone, Agreement, TypeOK
<1>4. TargetIntact' /\ OnlyWindowClobbers' /\ RenameChecked'
  BY InvariantFacts, AbandonKeeps, DistinctContents DEF IInv, Fail,
     TargetIntact, OnlyWindowClobbers, RenameChecked, Bytes
<1>5. Provenance' /\ BaseReady'
  BY InvariantFacts, AbandonKeeps, DistinctContents DEF IInv, Fail,
     Provenance, BaseReady, BaseOf, TypeOK, Agreement, Pending, Bytes
<1> QED
  BY <1>1, <1>2, <1>3, <1>4, <1>5 DEF IInv

LEMMA KillStep ==
  ASSUME IInv, Kill
  PROVE  IInv'
<1>1. TypeOK'
  BY InvariantFacts, NoPublicationFields, DistinctContents, BoundsAreNaturals
     DEF IInv, Kill, TypeOK, Bytes
<1>2. Agreement'
  BY InvariantFacts, NoPublicationFields DEF IInv, Kill, Agreement, TypeOK,
     Pending
<1>3. TransactionReady' /\ TransactionGone'
  BY InvariantFacts, NoPublicationFields DEF IInv, Kill, TransactionReady,
     TransactionGone, Agreement
<1>4. TargetIntact' /\ OnlyWindowClobbers' /\ RenameChecked'
  BY InvariantFacts, NoPublicationFields, DistinctContents DEF IInv, Kill,
     TargetIntact, OnlyWindowClobbers, RenameChecked, Bytes
<1>5. Provenance' /\ BaseReady'
  BY InvariantFacts, NoPublicationFields, DistinctContents DEF IInv, Kill,
     Provenance, BaseReady, BaseOf, TypeOK, Agreement, Pending, Bytes
<1> QED
  BY <1>1, <1>2, <1>3, <1>4, <1>5 DEF IInv

LEMMA PowerLossStep ==
  ASSUME IInv, PowerLoss
  PROVE  IInv'
<1>1. TypeOK'
  BY InvariantFacts, NoPublicationFields, DistinctContents, BoundsAreNaturals
     DEF IInv, PowerLoss, TypeOK, Bytes, TargetIntact
<1>2. Agreement'
  BY InvariantFacts, NoPublicationFields DEF IInv, PowerLoss, Agreement,
     TypeOK, Pending, TargetIntact
<1>3. TransactionReady' /\ TransactionGone'
  BY InvariantFacts, NoPublicationFields DEF IInv, PowerLoss,
     TransactionReady, TransactionGone, Agreement, TypeOK, TargetIntact
<1>4. TargetIntact' /\ OnlyWindowClobbers' /\ RenameChecked'
  BY InvariantFacts, NoPublicationFields, DistinctContents DEF IInv,
     PowerLoss, TargetIntact, OnlyWindowClobbers, RenameChecked, Bytes
<1>5. Provenance' /\ BaseReady'
  BY InvariantFacts, NoPublicationFields, DistinctContents DEF IInv,
     PowerLoss, Provenance, BaseReady, BaseOf, TypeOK, Agreement, Pending,
     Bytes, TargetIntact
<1> QED
  BY <1>1, <1>2, <1>3, <1>4, <1>5 DEF IInv

LEMMA ForeignWriteStep ==
  ASSUME IInv, NEW b \in Foreign \cup {Initial, Absent}, ForeignWrite(b)
  PROVE  IInv'
<1>1. TypeOK'
  BY InvariantFacts, DistinctContents, BoundsAreNaturals DEF IInv,
     ForeignWrite, TypeOK, Bytes
<1>2. Agreement'
  BY InvariantFacts DEF IInv, ForeignWrite, Agreement, TypeOK, Pending
<1>3. TransactionReady' /\ TransactionGone'
  BY InvariantFacts DEF IInv, ForeignWrite, TransactionReady, TransactionGone,
     Agreement
<1>4. TargetIntact' /\ OnlyWindowClobbers' /\ RenameChecked'
  BY InvariantFacts, DistinctContents DEF IInv, ForeignWrite, TargetIntact,
     OnlyWindowClobbers, RenameChecked, Bytes
<1>5. Provenance' /\ BaseReady'
  BY InvariantFacts, DistinctContents DEF IInv, ForeignWrite, Provenance,
     BaseReady, BaseOf, TypeOK, Agreement, Pending, Bytes
<1> QED
  BY <1>1, <1>2, <1>3, <1>4, <1>5 DEF IInv

-----------------------------------------------------------------------------
(* Invariance *)

LEMMA InitialState == Init => IInv
BY DistinctContents, BoundsAreNaturals, NoPublicationFields
   DEF Init, IInv, TypeOK, TargetIntact, OnlyWindowClobbers, Agreement,
       TransactionReady, TransactionGone, RenameChecked, Provenance,
       BaseReady, BaseOf, Pending, Plain, JournalRecord, Bytes

LEMMA Stuttering == ASSUME IInv, UNCHANGED vars PROVE IInv'
BY DEF vars, ghosts, IInv, TypeOK, TargetIntact, OnlyWindowClobbers,
       Agreement, TransactionReady, TransactionGone, RenameChecked,
       Provenance, BaseReady, BaseOf, Pending

LEMMA EveryStep == IInv /\ [Next]_vars => IInv'
<1> SUFFICES ASSUME IInv, [Next]_vars PROVE IInv'
  OBVIOUS
<1>1. ASSUME NEW c \in Candidates, NEW p \in Purposes, Begin(c, p)
      PROVE  IInv'
  BY <1>1, BeginStep
<1>2. ASSUME NEW c \in Candidates,
             Supersede(c) \/ JournalUnavailable(c) \/ PreserveConflict(c)
      PROVE  IInv'
  BY <1>2, SupersedeStep, JournalUnavailableStep, PreserveConflictStep
<1>3. CASE Publishing
  BY <1>3, PrepareStep, CheckBaseStep, MakeBaseStep, SyncBaseStep,
     CheckTransactionStep, StageWrittenStep, SyncTransactionStep,
     StageFlushedStep, CompareTargetStep, RenameStep, StageReplacedStep,
     VerifyStep, StageVerifiedStep DEF Publishing
<1>4. CASE CleaningUp
  BY <1>4, StageCleanupStep, DropTransactionStep, DropBaseStep, SettleStep
     DEF CleaningUp
<1>5. CASE Resuming
  BY <1>5, ResumeTransactionStep, ResumeTargetStep, MarkDivergedStep,
     RemoveOrphanStep DEF Resuming
<1>6. CASE Discarding
  BY <1>6, DiscardTransactionStep, DiscardJournalStep, DiscardBaseStep
     DEF Discarding
<1>7. CASE Open \/ Close \/ Reconnect \/ Discard
  BY <1>7, OpenStep, CloseStep, ReconnectStep, DiscardStep
<1>8. CASE Fail \/ Kill \/ PowerLoss
  BY <1>8, FailStep, KillStep, PowerLossStep
<1>9. ASSUME NEW b \in Foreign \cup {Initial, Absent}, ForeignWrite(b)
      PROVE  IInv'
  BY <1>9, ForeignWriteStep
<1>10. CASE UNCHANGED vars
  BY <1>10, Stuttering
<1> QED
  BY <1>1, <1>2, <1>3, <1>4, <1>5, <1>6, <1>7, <1>8, <1>9, <1>10
     DEF Next, Continue

THEOREM InductiveInvariant == Spec => []IInv
BY InitialState, EveryStep, PTL DEF Spec

\* Every variable keeps its type, whatever the sets of contents are.
THEOREM TypeCorrect == Spec => []TypeOK
<1>1. IInv => TypeOK BY DEF IInv
<1> QED BY <1>1, InductiveInvariant, PTL

\* The shared file never holds partial or unsynced bytes of a publication.
THEOREM TargetStaysIntact == Spec => []TargetIntact
<1>1. IInv => TargetIntact BY DEF IInv
<1> QED BY <1>1, InductiveInvariant, PTL

\* Foreign contents are destroyed only inside the comparison window.
THEOREM ClobbersOnlyInWindow == Spec => []OnlyWindowClobbers
<1>1. IInv => OnlyWindowClobbers BY DEF IInv
<1> QED BY <1>1, InductiveInvariant, PTL

\* A publication is settled only after it replaced the target and its files
\* are gone.
THEOREM SettledIsClean == Spec => []CompletionIsClean
<1>1. IInv => CompletionIsClean
  BY DEF IInv, CompletionIsClean, Provenance, TransactionGone, BaseReady
<1> QED BY <1>1, InductiveInvariant, PTL

-----------------------------------------------------------------------------
(* The journal keeps a record, and the refinement *)

LEMMA KeepsRecord ==
  ASSUME IInv, Next PROVE RecordKept
<1>1. ASSUME NEW c \in Candidates, NEW p \in Purposes, Begin(c, p)
      PROVE  RecordKept
  BY <1>1 DEF Begin, RecordKept
<1>2. ASSUME NEW c \in Candidates,
             Supersede(c) \/ JournalUnavailable(c) \/ PreserveConflict(c)
      PROVE  RecordKept
  BY <1>2 DEF Supersede, JournalUnavailable, PreserveConflict, RecordKept
<1>3. CASE Publishing
  <2>1. CASE Prepare
    BY <2>1, InvariantFacts, JournaledRecord
       DEF Prepare, RecordKept, IInv, Agreement
  <2>2. CASE StageWritten \/ StageFlushed \/ StageReplaced \/ StageVerified
    BY <2>2, InvariantFacts, StageWrites
       DEF StageWritten, StageFlushed, StageReplaced, StageVerified, Stages,
           RecordKept, IInv, Agreement
  <2> QED
    BY <1>3, <2>1, <2>2
       DEF Publishing, CheckBase, MakeBase, SyncBase, CheckTransaction,
           SyncTransaction, CompareTarget, Rename, Verify, RecordKept
<1>4. CASE CleaningUp
  <2>1. CASE StageCleanup
    BY <2>1, InvariantFacts, StageWrites
       DEF StageCleanup, Stages, RecordKept, IInv, Agreement
  <2>2. CASE Settle
    BY <2>2 DEF Settle, RecordKept, IInv, Agreement, Provenance
  <2> QED
    BY <1>4, <2>1, <2>2 DEF CleaningUp, DropTransaction, DropBase, RecordKept
<1>5. CASE Resuming
  <2>1. CASE MarkDiverged
    BY <2>1, InvariantFacts, ConflictFields, JournaledRecord
       DEF MarkDiverged, RecordKept, IInv, Agreement
  <2> QED
    BY <1>5, <2>1
       DEF Resuming, ResumeTransaction, ResumeTarget, RemoveOrphan, RecordKept
<1>6. CASE Discarding
  BY <1>6 DEF Discarding, DiscardTransaction, DiscardJournal, DiscardBase,
              RecordKept, IInv, Agreement
<1>7. CASE Open \/ Close \/ Reconnect \/ Discard
  BY <1>7 DEF Open, Close, Reconnect, Discard, RecordKept
<1>8. CASE Fail \/ Kill \/ PowerLoss
  BY <1>8 DEF Fail, Kill, PowerLoss, RecordKept
<1>9. ASSUME NEW b \in Foreign \cup {Initial, Absent}, ForeignWrite(b)
      PROVE  RecordKept
  BY <1>9 DEF ForeignWrite, RecordKept
<1> QED
  BY <1>1, <1>2, <1>3, <1>4, <1>5, <1>6, <1>7, <1>8, <1>9 DEF Next, Continue

\* A journaled publication leaves the journal only once it is published,
\* discarded, or superseded as a conflict.
THEOREM JournalKeepsPublication == Spec => PublicationLeavesJournal
<1>1. IInv /\ [Next]_vars => [RecordKept]_vars
  BY KeepsRecord
<1> QED
  BY <1>1, InductiveInvariant, PTL DEF Spec, PublicationLeavesJournal

\* Failing, crashing, and every step that keeps journal and target, is a turn.
LEMMA TurnMaps ==
  ASSUME UNCHANGED <<target, journal, published>>, pc' # "rename"
  PROVE  Abstract!Turn
BY DEF Abstract!Turn, AbstractPending, AbstractPhase

\* Journaling a record is a proposal.
LEMMA ProposeMaps ==
  ASSUME IInv, UNCHANGED <<target, published>>,
         pc' \notin {"rename", "discard-journal"},
         journal'.pub \in PublicationRecord,
         \/ ~Pending
         \/ journal.pub.state = "conflict"
         \/ /\ journal'.pub.base = journal.pub.base
            /\ journal'.pub.candidate = journal.pub.candidate
  PROVE  Abstract!Propose
<1> DEFINE r == [base |-> journal'.pub.base,
                 candidate |-> journal'.pub.candidate,
                 state |-> journal'.pub.state]
<1>1. r \in Abstract!Replacement
  BY RecordFields DEF Abstract!Replacement, Bytes
<1>2. \/ AbstractPending = Abstract!None
      \/ AbstractPending.state = "conflict"
      \/ r.base = AbstractPending.base /\ r.candidate = AbstractPending.candidate
  BY InvariantFacts DEF AbstractPending, Abstract!None, NoPublication
<1>3. AbstractPending' = r
  BY DEF AbstractPending
<1>4. AbstractPhase' = "open"
  BY DEF AbstractPhase
<1> HIDE DEF r
<1> QED
  BY <1>1, <1>2, <1>3, <1>4 DEF Abstract!Propose

\* Clearing a record of a published or discarded candidate forgets it.
LEMMA ForgetMaps ==
  ASSUME UNCHANGED <<target, published>>,
         pc' \notin {"rename", "discard-journal"},
         journal'.pub = NoPublication,
         journal.pub.candidate \in published \/ pc = "discard-journal"
  PROVE  Abstract!Forget
BY DEF Abstract!Forget, Abstract!None, AbstractPending, AbstractPhase,
       NoPublication

LEMMA PublishingMaps ==
  ASSUME IInv, Publishing PROVE Abstract!Next
<1>1. CASE Prepare
  <2>1. Abstract!Propose
    BY <1>1, ProposeMaps, InvariantFacts, JournaledRecord
       DEF Prepare, ghosts, IInv, Agreement
  <2> QED
    BY <2>1 DEF Abstract!Next
<1>2. CASE StageWritten \/ StageFlushed \/ StageReplaced \/ StageVerified
  <2>1. /\ rec' \in PublicationRecord /\ journal'.pub = rec'
        /\ rec'.base = rec.base /\ rec'.candidate = rec.candidate
        /\ Pending => rec = journal.pub
    BY <1>2, InvariantFacts, StageWrites
       DEF StageWritten, StageFlushed, StageReplaced, StageVerified, Stages,
           IInv, Agreement
  <2>2. Abstract!Propose
    BY <1>2, <2>1, ProposeMaps
       DEF StageWritten, StageFlushed, StageReplaced, StageVerified, ghosts
  <2> QED
    BY <2>2 DEF Abstract!Next
<1>3. CASE CompareTarget /\ target = rec.base /\ pc' = "rename"
  <2>1. Abstract!Check
    BY <1>3, InvariantFacts, NoPublicationFields, RecordFields, DistinctContents
       DEF CompareTarget, ghosts, IInv, Agreement, Abstract!Check,
           Abstract!None, AbstractPending, AbstractPhase, Bytes
  <2> QED
    BY <2>1 DEF Abstract!Next
<1>4. CASE Rename
  <2>1. rec = journal.pub /\ txn = rec.candidate
    BY <1>4 DEF Rename, IInv, Agreement, TransactionReady
  <2>2. Abstract!Install
    BY <1>4, <2>1 DEF Rename, Abstract!Install, AbstractPending, AbstractPhase
  <2> QED
    BY <2>2 DEF Abstract!Next
<1>5. CASE \/ CheckBase \/ MakeBase \/ SyncBase \/ CheckTransaction
           \/ SyncTransaction \/ Verify
           \/ CompareTarget /\ pc' # "rename"
  <2>1. UNCHANGED <<target, journal, published>> /\ pc' # "rename"
    BY <1>5 DEF CheckBase, MakeBase, SyncBase, CheckTransaction,
                SyncTransaction, Verify, CompareTarget, Abandon, ghosts
  <2> QED
    BY <2>1, TurnMaps DEF Abstract!Next
<1>6. CASE CompareTarget
  <2>1. pc' = "rename" => target = rec.base
    BY <1>6 DEF CompareTarget, Abandon
  <2> QED
    BY <1>3, <1>5, <1>6, <2>1
<1> QED
  BY <1>1, <1>2, <1>4, <1>5, <1>6 DEF Publishing

LEMMA CleaningUpMaps ==
  ASSUME IInv, CleaningUp PROVE Abstract!Next
<1>1. CASE StageCleanup /\ rec.stage # "cleanup"
  <2>1. /\ rec' \in PublicationRecord /\ journal'.pub = rec'
        /\ rec'.base = rec.base /\ rec'.candidate = rec.candidate
        /\ Pending => rec = journal.pub
    BY <1>1, InvariantFacts, StageWrites
       DEF StageCleanup, Stages, IInv, Agreement
  <2>2. Abstract!Propose
    BY <1>1, <2>1, ProposeMaps DEF StageCleanup, ghosts
  <2> QED
    BY <2>2 DEF Abstract!Next
<1>2. CASE Settle
  <2>1. Abstract!Forget \/ UNCHANGED AbstractPending
    BY <1>2, ForgetMaps, RemainderRecord, InvariantFacts
       DEF Settle, ghosts, IInv, Agreement, Provenance, AbstractPending
  <2>2. UNCHANGED <<target, published>> /\ AbstractPhase' = "open"
    BY <1>2 DEF Settle, ghosts, AbstractPhase
  <2> QED
    BY <2>1, <2>2 DEF Abstract!Next, Abstract!Turn
<1>3. CASE \/ StageCleanup /\ rec.stage = "cleanup"
           \/ DropTransaction \/ DropBase
  <2>1. UNCHANGED <<target, journal, published>> /\ pc' # "rename"
    BY <1>3 DEF StageCleanup, DropTransaction, DropBase, ghosts
  <2> QED
    BY <2>1, TurnMaps DEF Abstract!Next
<1> QED
  BY <1>1, <1>2, <1>3 DEF CleaningUp

LEMMA NextMaps ==
  ASSUME IInv, Next PROVE Abstract!Next
<1>1. ASSUME NEW c \in Candidates, NEW p \in Purposes, Begin(c, p)
      PROVE  Abstract!Next
  <2>1. UNCHANGED <<target, journal, published>> /\ pc' # "rename"
    BY <1>1 DEF Begin, ghosts
  <2> QED
    BY <2>1, TurnMaps DEF Abstract!Next
<1>9. ASSUME NEW c \in Candidates, Supersede(c)
      PROVE  Abstract!Next
  <2>1. UNCHANGED <<target, journal, published>> /\ pc' # "rename"
    BY <1>9 DEF Supersede, ghosts
  <2> QED
    BY <2>1, TurnMaps DEF Abstract!Next
<1>2. ASSUME NEW c \in Candidates,
             JournalUnavailable(c) \/ PreserveConflict(c)
      PROVE  Abstract!Next
  <2>1. NewRecord(opened, c, "plain") \in PublicationRecord
    BY NewRecordFields DEF IInv, TypeOK, Purposes
  <2>2. Abstract!Propose
    BY <1>2, <2>1, ProposeMaps, JournaledRecord
       DEF JournalUnavailable, PreserveConflict, ghosts
  <2> QED
    BY <2>2 DEF Abstract!Next
<1>3. CASE Publishing
  BY <1>3, PublishingMaps
<1>4. CASE CleaningUp
  BY <1>4, CleaningUpMaps
<1>5. CASE Resuming
  <2>1. CASE MarkDiverged
    <3>1. /\ rec' \in PublicationRecord /\ journal'.pub = rec'
          /\ rec'.base = rec.base /\ rec'.candidate = rec.candidate
          /\ Pending => rec = journal.pub
      BY <2>1, InvariantFacts, ConflictFields, JournaledRecord
         DEF MarkDiverged, IInv, Agreement
    <3>2. Abstract!Propose
      BY <2>1, <3>1, ProposeMaps DEF MarkDiverged, ghosts
    <3> QED
      BY <3>2 DEF Abstract!Next
  <2>2. CASE ResumeTransaction \/ ResumeTarget \/ RemoveOrphan
    <3>1. UNCHANGED <<target, journal, published>> /\ pc' # "rename"
      BY <2>2 DEF ResumeTransaction, ResumeTarget, RemoveOrphan, ghosts
    <3> QED
      BY <3>1, TurnMaps DEF Abstract!Next
  <2> QED
    BY <1>5, <2>1, <2>2 DEF Resuming
<1>6. CASE Discarding
  <2>1. CASE DiscardJournal
    <3>1. Abstract!Forget
      BY <2>1, ForgetMaps, RemainderRecord, InvariantFacts
         DEF DiscardJournal, ghosts
    <3> QED
      BY <3>1 DEF Abstract!Next
  <2>2. CASE DiscardTransaction \/ DiscardBase
    <3>1. UNCHANGED <<target, journal, published>> /\ pc' # "rename"
      BY <2>2 DEF DiscardTransaction, DiscardBase, ghosts
    <3> QED
      BY <3>1, TurnMaps DEF Abstract!Next
  <2> QED
    BY <1>6, <2>1, <2>2 DEF Discarding
<1>7. CASE Open \/ Close \/ Reconnect \/ Discard \/ Fail \/ Kill \/ PowerLoss
  <2>1. UNCHANGED <<target, journal, published>> /\ pc' # "rename"
    BY <1>7 DEF Open, Close, Reconnect, Discard, Fail, Kill, PowerLoss,
                Abandon, ghosts, IInv, TargetIntact
  <2> QED
    BY <2>1, TurnMaps DEF Abstract!Next
<1>8. ASSUME NEW b \in Foreign \cup {Initial, Absent}, ForeignWrite(b)
      PROVE  Abstract!Next
  <2>1. Abstract!OthersWrite
    BY <1>8 DEF ForeignWrite, Abstract!OthersWrite, AbstractPending,
                AbstractPhase, Bytes
  <2> QED
    BY <2>1 DEF Abstract!Next
<1> QED
  BY <1>1, <1>2, <1>3, <1>4, <1>5, <1>6, <1>7, <1>8, <1>9
     DEF Next, Continue

\* The publication service implements a checked replacement.
THEOREM Refinement == Spec => ImplementsCheckedReplacement
<1>1. Init => Abstract!Init
  BY DEF Init, Abstract!Init, Abstract!None, AbstractPending, AbstractPhase,
         Plain, NoPublication, Bytes
<1>2. IInv /\ [Next]_vars => [Abstract!Next]_(Abstract!abstractVars)
  BY NextMaps DEF vars, ghosts, Abstract!abstractVars, AbstractPending,
                  AbstractPhase
<1> QED
  BY <1>1, <1>2, InductiveInvariant, PTL
     DEF Spec, ImplementsCheckedReplacement, Abstract!Spec
=============================================================================
