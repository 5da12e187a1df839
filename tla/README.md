# A TLA+ verification of SCPEFE

SCPEFE edits small encrypted files that may lie on a local disk, a share or a
cloud-synchronised directory, where several people use the same file and no
server orders their writes. This directory models the parts of the program that
make this safe, model-checks them with TLC and proves theorems about them with
TLAPS. Paths below are relative to the repository.

## 1. The system

| Component | Where | State it keeps | What must hold |
|---|---|---|---|
| Publication | `apps/windows/src/publication.mjs`, `candidate-publication.mjs` | target file, recovery-base and transaction siblings, record in the work journal | the target is never torn, never overwritten unless compared, a record outlives every interruption |
| Work journal | `work-journal.mjs` | one encrypted record per document (text, base, publication) | atomic; what it holds stays readable |
| Document service | `document-service.mjs` | `active` session (text, dirty, base, key, pending publication), two promise chains, timers | checkpointed work is not lost, a lock ends and keeps the work |
| Divergence resolution | `document-service.mjs`, `divergence-merge.mjs` | conflict record, merge draft | a conflict stays until it is merged or discarded |
| Editing lease | `document-service.mjs`, `lease-takeover.mjs`, `container.cpp` | lease session in the container, heartbeat, one-shot takeover tokens | two editors know of each other |
| Container | `src/container/container_state.cpp`, `container.cpp` | access, editing, lease, attention, publication phase; candidate, pending activity | at most one candidate; editing authorised; never stuck |
| Activities | `activity-event.mjs`, `document-service.mjs` | started/known outcome in the journal | an attempt's outcome is recorded once |
| Head witness | `head-witness.mjs` | highest head seen per document | a rollback is noticed |
| Lifecycle | `lifecycle-barrier.mjs`, `replacement-coordinator.mjs`, `secure-lock-coordinator.mjs`, `single-instance.mjs`, `external-open-lifecycle.mjs`, `document-lifecycle-host.mjs` | queue of readers and writers, generations, claims | one document is replaced, locked or closed at a time |
| Revision graph | `src/format/revision_graph.cpp`, `src/core/history_service.cpp`, `src/document/merge_save.cpp` | causal history of sealed and provisional records | whatever an operation computes can be decoded; a merge keeps both sides' history |
| Envelope and slots | `src/container/revised_v3_container.cpp`, `password_slots.cpp` | one wrapper per password slot over the encrypted history | every member's password opens the member's slot |
| C interface and addon | `src/abi/context_abi.cpp`, `apps/windows/native/addon.cpp` | handle of the live container, handle the addon keeps, context | the layers agree; clear text only to an authenticated session |
| Frontend session | `packages/frontend-core/src` | working copy, presentation state | the text on screen is the text being saved |
| Codec, cryptography, functions without a context, IPC, React UI, zxcvbn | remaining sources | | byte formats, marshalling, rendering, vendored code: not modelled |

How they interact. The renderer calls the document service over IPC. The
service drives one native container through the addon and the C ABI: it asks
for a candidate (a save, a lease change, a slot change, an activity's event),
hands the bytes to the publication service, and reports the result back to the
container, which alone adopts it. Publication and checkpoints share the one
journal record of the document. The lifecycle classes decide which of these
operations may overlap with opening, replacing, locking and closing.

What is hard. Every `await` is a point where the process may crash, an I/O call
may fail, a timer may fire, the user may type, and another client or a
synchronisation provider may replace the target; the file systems in question
have no compare-and-swap. `PROJECT.json` lists the hazards line by line.

## 2. Modules

| Module | Models | Checked by | Proved in |
|---|---|---|---|
| `CheckedReplacement` | abstract promise of publication | refinement in `publication` | `PublicationProofs` |
| `Publication` | `PublicationService` and its callers, file by file | `publication` | `PublicationProofs` |
| `WorkRecovery` | working copy, checkpoints, saves, refresh, lock, reopen | through `WorkRecoveryHost`; four violation runs | `WorkRecoveryProofs` |
| `WorkRecoveryHost` | the same under the locks of the host, which are exclusive work of the barrier | `work_recovery` | `WorkRecoveryProofs` |
| `ContainerState` | the pure transition table of the state manager | through `Container` | `ContainerProofs` |
| `Container` (`MCContainer`) | every operation of `Container` with an obedient host | `container` | `ContainerProofs` |
| `LifecycleBarrier` (`MCLifecycleBarrier`) | the barrier between maintenance and exclusive work | `lifecycle_barrier` | `LifecycleBarrierProofs` |
| `ServiceLock` (`MCServiceLock`) | the locks of host and service, composed with the barrier | `host_lock` (violation) | `LifecycleBarrierProofs` |
| `RevisionGraph` | a history, its records and every check decoding makes | through `DocumentHistory` | `RevisionGraphProofs` (lemmas) |
| `RevisionOperations` | what each operation on a history computes | through `DocumentHistory` | `DocumentHistoryProofs` |
| `DocumentEnvelope` | wrappers, slot changes, the merge of two files | through `DocumentHistory` | `DocumentHistoryProofs` |
| `DocumentHistory` (`MCDocumentHistory`) | clients with replicas of one document | `document_history` | `DocumentHistoryProofs`, `LineageProofs` |
| `NativeContext` | the C interface over `Container` | through `NativeSession` | `NativeSessionProofs` |
| `NativeSession` (`MCNativeSession`) | the addon's methods and the calls of each operation of the service | `native`, `native_reopen` (violation) | `NativeSessionProofs` |

`LifecycleBarrier` is extended by `ServiceLock`; `WorkRecovery` by
`WorkRecoveryHost`; `Container` by `NativeContext` and
that by `NativeSession`; `RevisionGraph` by `RevisionOperations`, that by
`DocumentEnvelope` and that by `DocumentHistory`. `Publication` instantiates
`CheckedReplacement`.

### Publication

One step is the code between two awaits. Contents are opaque values; comparing
hashes is comparing contents. `target`, `baseFile`, `txn` are the three files,
`volatile` says which of them a power loss would still tear, `journal` is the
durable record, `pc`/`rec` are where the process is and the record in its
memory. `Begin` stands for every operation that makes a candidate;
`PreserveConflict`, `Supersede` and the `resume-*` steps for a merge, a reopen
and a reconnect; `CheckBase` to `StageVerified` for `#complete`, `StageCleanup`
to `Settle` for `#cleanup`, `Discard*` for `discard`. `Fail` throws out of any
step, `Kill` stops the process, `PowerLoss` also tears volatile files,
`ForeignWrite` is another client. `published`, `window` and `clobbered` only
observe. Renames are assumed durable once they return, as the code assumes.
Not modelled: encryption of the journal, `publishPlaintext`, `publishReplica`.

### WorkRecovery

Text is the number of the edit that made it, so "older" is `<`. The two chains
of the service are `queue`/`pub` (publications) and `flush` (checkpoints); both
write `journal`. A publication is compressed to the journal writes and the
replacement that the other chain can observe. `key` becomes `"zero"` once its
buffer is overwritten. A lock closes the native container, so the publication
in flight fails when it next calls it: it is neither adopted nor pending.
Not modelled: leaving edit mode, discarding provisional work, another writer of
the target (Publication has it), reopening while operations of an old session
still run, typing while locking, a save to an unavailable target, reconnecting
from viewing; a retry is only taken with an empty queue.

`Lock` and `Fail` are the locks the service starts itself, for want of activity or
because a refresh failed: they run outside the barrier, and publications go on.
A lock by a command of the user, the screen lock or a suspension is
`lockActive` (`document-lifecycle-host.mjs:133`), exclusive work of the barrier under
which every publication runs. `WorkRecoveryHost` adds it: `RequestLock` counts the
publications that stand before it (`ahead`), `Admit` lets those in and no other,
`EnterLock` locks the service or joins the lock under way, `LeaveLock` lets the queue
go on. All other steps are `WorkRecovery`'s. A lock that waits for a refresh queued
behind it never ends (`Hung`); that an acquisition can stand there too is left to
`ServiceLock`, so none is started while a lock of the host waits.
Also not modelled: the conflict a regular save journals when it finds another
revision in the target (`#preserveRegularSaveConflict`, `document-service.mjs:3139`);
`Publication` has it as `PreserveConflict`.

### ContainerState and Container

`ContainerState` has, for each transition T of `container_state.cpp`, `MayT`
(the facts it requires), `T` (the state proposed) and `TEffects`. `Container`
installs them behind the checks of `container.cpp`. An image is what the model
needs of a container file: the slots' rights, which are unclaimed invitations,
the lease session, the text, whether the last record is provisional and over
which sealed text, and an attempt whose outcome is missing. `HostDoes` is a
host that performs exactly the effects returned; it reports a candidate
verified only if it was written, refused only if it was not, ambiguous either
way. A refused operation is no step. `CloseContainer` is
`scpefe_container_close`: the transition, then the release of the container, so
that the next opening starts afresh. `NextOperation` numbers operations as the
service does. Another client's writes appear where the container meets them, as
the observed target of `ApplyTargetDocument`; `RaiseAttention` is undone only by
closing, since `transition()` refuses `ClearAttention`.
Abstracted: lease counters and the evidence of staleness (a boolean of the
host), the overflow checks at the largest 64-bit number, password policy and
the limit of seven slots, history bodies and head identifiers, the check of the
work-journal key; the recovery slot is an owner; a merge is a submission of the
resolved text followed by a save.

### LifecycleBarrier and ServiceLock

`LifecycleBarrier` has a step for every turn in which `lifecycle-barrier.mjs`
runs: the two calls, the queued function of an exclusive call (`TakeOwnership`),
the end of its operation, the release of its owner, and the reactions that leave
the barrier and drain its queue. `context` is what `AsyncLocalStorage` would
return to the caller: nothing, the active owner, or one that has expired (work
an earlier operation left behind). The counter `readers` is a set here.
`generation` is left out: nothing reads it.

`ServiceLock` extends it with the calls the service and the host make: each
publication is a maintenance call that also waits for the publication queued
before it (`publicationChain`); an acquisition is under way before it queues
one; the service's lock, which a timer or a failed refresh starts by itself, or
the host inside an exclusive call, waits for acquisitions and the heartbeat.
`current` stands for `leaseGeneration`: the refresh in flight whose generation
is the present one, of which there is at most one. Timers and requests come
between turns (`Quiet`). Not modelled: staged documents that a lock disposes of,
the close decision, leaving edit mode, unlocking again.

### RevisionGraph, RevisionOperations, DocumentEnvelope, DocumentHistory

The first three have no variables: they compute. `RevisionGraph` defines records,
deltas and `Valid`, the checks of `RevisionGraph::decode` in the order of the
code; `RevisionOperations` one operator per operation of the class (save, seal,
discard, assess, merge, event, compaction); `DocumentEnvelope` what
`RevisedV3Container` adds: the wrapper of each password, and the slot changes of
`password_slots.cpp`, whose `mode` says where a wrapper is inserted, replaced or
removed. `DocumentHistory` lets two clients work: each holds a replica (`held`),
prepares a candidate from it (`pending`) as `container.cpp` does, and publishes it
if the target is still the replica it started from, else merges or drops it.
`Keep` is the check each preparation ends with: the result is encoded, decoded
and opened again. `refusal` records how it failed.

Data. A digest is `<<author, number>>`: only its author mints it, so that equal
names mean equal immutable parts, which is what the hash gives. A content hash is
the text itself, a text a sequence of opaque pieces, so that prefixes, suffixes and
repetitions exist. A session is its member, a password a model value, a wrapper
the password that opens it. `Reseal` may happen or not: in the code it does when
the same session seals the same text within the millisecond. Publication is one
step here, since `Publication` takes it apart. `Only` walks the records once,
as `revision_graph.cpp:435` collects the canonical ones: that it keeps the order
is then a lemma and not part of the definition. The assumptions say that the two
clients, their first passwords and the recovery's are different
(`MembersDiffer`), that the code's limit leaves room for a first document
(`BoundsAreNaturals`), and that an absent document is neither a document nor a
digest (`NoDocument`).
Abstracted: the byte encoding and its canonical order, the lease field, clocks,
names and initials, password strength, the size limits of single fields. The
limit on the number of records (1024) is `MaxEntries`.

### NativeContext and NativeSession

`NativeContext` has each function `scpefe_container_*` of the interface, with the
order of its checks (live handle, access, invitation), over the operations of
`Container`; `answer` is the status. Any call that allocates or decrypts may be
refused (`Calls`), one that only asks the state manager is refused only by it
(`Asks`). `NativeSession` has each method of the addon as the sequence of
functions it calls, and each operation of the service as the sequence of methods
it calls between two awaits of its own: `todo` is what is left of it, `rescue`
what the `catch` of the code does, and then its `catch`. `Decide` and `Require` are
the conditions the service evaluates between calls, `Remember` its assignments.
The service's `openActiveContainer`, `syncNativeLeaseSource`, `finishLock` and
the others keep their names. `publishCandidate` and `foreignWrite` change the
target between operations.

A lock is two stretches. `finishLock` locks, closes or discards the container;
then the service waits for acquisitions, the heartbeat and the flush (`screen` is
"locking"); `clearSession` may prepare the release of a held lease and forgets the
session with its password. In between, operations go on that the lock has overtaken:
an acquisition that has read the target, a save, a refresh, a slot change, with the
password that is still there (`CarryOn`). Even later a password change can still
come, because the password it uses is the one the user typed (`changePasswordLate`); a
late claim of an invitation is a late change whose unlocking is refused, and every
other late operation is refused at its first call for want of a password.
`overtaken` is a history variable: such an operation has run since the lock.
An operation is taken to run from the read of the target to the candidate without a
pause; the `await` of the profile in `#prepareSlotCandidate` (637) is merged into it.

The addon also makes contexts of its own for one question (`openDocument` reads
what the password shows, a merge asks whether it is possible). Nothing survives
them, so they are the pure operators `open_revised_document` and
`scpefe_container_assess_merge`. Not modelled: `apply_target`, which the addon
never calls, the lists of slots, the tables of history, the functions on bytes
(`revision_abi.cpp`, `history_abi.cpp`), and two live contexts side by side.

## 3. Runs

| Run | Asks | Bounds and why they are enough |
|---|---|---|
| `publication` | type, target integrity, the compare/rename window, clean completion, fate of records, refinement of `CheckedReplacement`, and that a started, unambiguous recovery completes | two candidates (one can interrupt, supersede or follow the other), one foreign content, two faults (a crash during the recovery from a crash), two foreign changes (away and back); no symmetry, since one property is a liveness property |
| `work_recovery` | the target never regresses, a reopen offers current work, a lock keeps the work, a lock of either kind ends and a save is answered unless the heartbeat stands behind the host's lock | two edits (one older, one newer than what is in flight), two saves, one refresh, one fault, regular saves on, a lock of the host at any point |
| `work_checkpoint`, `work_lock`, `work_key`, `work_restore` | four disagreements with `docs/SPECIFICATION.md` (section 6) | |
| `container` | editing authority, one publication, no refused follow-up, host in step, confirmed image, journaled outcomes, newer text | an owner and one slot with none, some or all rights; two interchangeable texts; own and foreign lease session; three operations per opening (attempt, a failed outcome, its retry), one submission per opening, any number of openings |
| `lifecycle_barrier` | exclusion, order, that every call is served | three maintenance and two exclusive calls, from outside and from any owner: maintenance before, between and after exclusive work, one exclusive call nested in the other, an expired owner calling during the next |
| `host_lock` | violated: a lock asked of the host completes (section 6) | one acquisition, heartbeat, save and lock |
| `document_history` | results decode and open, every member's password opens the member's slot, lineages mean what they say, sealed history and its texts stay | an owner, and a guest with less than every right and a second password, to claim an invitation or to change; texts `a` and `aa`, whose common prefix and suffix overlap; from a new document, a shared one and one a record short of the limit of 7; four candidates: two each is what it takes to diverge, merge, and have the merge meet another change; compactions that keep none or one delta |
| `native` | the handles and images of context, addon and service agree between operations, the container of a document being locked or locked is locked unless an overtaken operation went on, clear text is answered to an authenticated session only | an owner and one other slot, two texts, own and foreign lease session, three operations per opening as in `container`; every call refused or not, any number of openings, two-stretch locks with whatever goes on in them, and foreign writes |
| `native_reopen` | violated: a password that opens the target unlocks the document (section 6) | as `native` |

`Publication` and its runs may stop where the bounds are used up, so their
configurations say `CHECK_DEADLOCK FALSE`, and so do those of the barrier, where
a call is made once, and those of `WorkRecoveryHost`, where a hung lock stops the
document for good; all others are checked for deadlock, where in
`DocumentHistory` a client can always refresh its replica.

Fairness. `publication` assumes weak fairness of `Continue`: the
process, once in the middle of an operation, takes its next step. That is what
an awaited file-system call does when it settles. `work_recovery` assumes it
of the steps that an awaited call drives (`HostCheckpointing`, `HostPublishing`,
`HostLockFlush`), separately because the chains do not wait for each other, and of
`EnterLock` and `LeaveLock`, which the barrier takes as soon as it may. A
publication behind a lock of the host is not enabled before the lock is over, so
nothing is assumed of it.
`lifecycle_barrier` assumes that every operation handed to the barrier settles, and
`host_lock` that whatever is not waiting for something else goes on. Nothing is
assumed of users, timers, faults, other clients, and no strong fairness is
used: a queue served in order needs none.

Each property of a passing run has a mutant in `PROJECT.json`: a plausible bug
in one definition under which TLC finds the property violated.

## 4. What is proved

For every value of the constants, from the assumptions named in the modules
(distinct contents, bounds are naturals, "no value" is none of the values):

* `PublicationProofs`: `TypeCorrect`, `TargetStaysIntact`,
  `ClobbersOnlyInWindow`, `SettledIsClean`, `JournalKeepsPublication` and
  `Refinement` (publication implements `CheckedReplacement`).
* `ContainerProofs`: `TypeCorrect`, `EditingStaysAuthorized`,
  `OnePublicationAtATime`, `NeverWedges`, `HostStaysInStep`,
  `ConfirmedStaysTarget`, `OutcomeStaysJournaled`, `NewerTextIsKept`: every
  property the `container` run checks; and `RaisedStaysBlocked`, which only
  the proof states.
* `WorkRecoveryProofs`: `TypeCorrect`, `RecoveryStaysCurrent`, `NeverRegresses`
  and `LocksLoseNoText`: every safety property of `WorkRecovery` the `work_recovery`
  run checks; and `HostLocksImplement` (`WorkRecoveryHost` implements `WorkRecovery`,
  so that they hold under the host's locks too), which only the proof states.
* `LifecycleBarrierProofs`: `TypeCorrect`, `ExclusionHolds` and `OrderHolds`: every
  safety property of its run; `LocksUseBarrier` (`ServiceLock` implements
  `LifecycleBarrier`) and `LocksEndTheLease`, which only the proofs state.
* `DocumentHistoryProofs`: `TypeCorrect`, `MembersStayOpen` and
  `SealedHistoryStays`; `LineageProofs`: `LineageStaysSound` and `TextsStayKept`;
  `RevisionGraphProofs` has the lemmas about sequences and the operators of
  `RevisionGraph`.
* `NativeSessionProofs`: `ClearStaysAuthenticated`, `LayersStayAgreed` and
  `LockedStaysLocked`: every property the `native` run checks.

Along which argument. None of the properties is inductive by itself.

*Publication.* That the rename installs whole, durable bytes depends on the
transaction file, so `IInv` adds `TransactionReady` (between its sync and the
rename the file is the record's candidate and not volatile) and `Agreement`
(which record the process may hold at which step); `ClobbersOnlyInWindow` needs
`RenameChecked` (at the rename the target is the base, or arrived in the
window); `SettledIsClean` needs `Provenance` (only the rename puts a candidate
in the target) and `BaseReady`. The refinement maps the journal's record to the
pending replacement and the step before the rename to the phase "checked".

*Container.* `NeverWedged` says that the transition nested in an adoption is
never refused. It depends on facts fixed when the candidate was prepared, which
`CandidateFits` carries through every step until the report: the candidate's
kind and change agree, its image still contains the active slot unless it
removes it, a locked session can only have prepared a lease change that
releases. `Lifetime`, `ActiveSlot` and `Overlay` tie the state manager's record
to the decoded slot, the confirmed image and the observed target, which
`container.cpp` stores separately. `StillRaised` explains `RaisedBlocks`:
reauthentication clears the attention, but only if a target overlays it, and
the overlay stays. `Settles` collects what every follow-up (lock, rights,
lease) leaves, and `AdoptStep` is one proof over it; `ProposeStep` is the same
for the fifteen preparations. The two action properties follow from the
invariant and from which actions can change `activity` or end a candidate.

*Barrier.* Who owns the barrier is written in three variables; `OwnerMatchesStage`
says that they agree at each stage of an exclusive call, and `PendingWasCalled`
that a reentrant call cannot be made again from another context. Every path that
lets calls in ends in `Drain`, so one lemma about it (`DrainAdmits`) serves them.
The order needs `WaitsOnce`, that a call stands in the queue at most once: then a
drain, which lets a first interval of the queue in, leaves nobody waiting who
came before.

*Locks.* Each step of `ServiceLock` is one of the barrier or leaves it alone, so
the barrier's invariants hold of it. A lock remembers one heartbeat, but two may
be in flight when an acquisition ends the generation of the first. The lock
still ends the lease, because publications settle in the order they were queued:
`ServiceInv` ranks them along the chain (`InOrder`), says that what has settled
is a first part of it (`SettlesInOrder`), and that no refresh outstanding stands
behind the one the lock will wait for (`RefreshesKnown`). Its hypothesis is that no
publication is of two kinds.

*Work recovery.* What reaches the target was captured earlier: when a save was
asked for, when a publication failed and was retained, or when it was journaled
before a crash. The invariant orders these captures. Each is ahead of whatever
will reach the target before it (`Order`), the editor is ahead of all
(`Working`), and a retained or journaled publication is the target's revision or
its successor (`Journal`, `Retention`). So what is based on the target's
revision is not behind the target's text (`Bases`), which is why comparing bases
is enough to reject outdated work (`Recovered`). That a lock loses no text is a
second layer, `CleanIsSaved`: text that is not marked dirty is in the target or on its
way there.

*Document history.* `IInv` says of each document that its wrappers are in step
with its members (`InStep`) and that only its last record may be provisional
(`IsHistory`); of any two, that one digest names one immutable part
(`DigestsName`); and of a client, that its candidate continues the replica it was
prepared from (`Replicas`). Publication compares the target with that replica,
so what was sealed stays. Every operation on a history comes down to one
statement, `Succeeds`: it keeps what was sealed and adds at most one record, with
the digest it mints; every change of members to an insertion, a replacement or a
removal at one place of both lists. The validation is taken apart only as far as
that needs. What a function defined by recursion over the records computes is
reached through `Induction` and `Recursion`, which derive both from the
well-foundedness of `<` for a set and a step function: the library's own
induction theorems take an operator, which the provers cannot instantiate.

*Lineages.* `assess_target` compares heads, but its answers promise something
about whole histories. The bridge is a second invariant, `LineageInv`: every
document is `Lineal`, that is, its links lead back, its head is its last record,
and any set of its names that has the head and whatever its members link to is
all of them; every document is `Rooted` in the sealed baseline it was created with;
and the target `Continues` every replica held. The validator establishes
the first in parts, as one line of own records and as what each merge reaches
among the records it took in, a set computed by a recursive function of which only
one fact is needed (`Recursion` again): a closed set contains it. Two documents name equal
parts alike (`DigestsName`), so they agree on links; hence a head found in the
target brings everything it reaches (`HeadBringsAll`), and equal records have
equal heads, because nothing links to the last (`SameRecordsSameHead`). The root
is on both canonical lines, so no replica is unrelated. Each operation keeps
`Lineal` since what it prepares has been decoded again.

*Texts.* That a merge or a compaction loses no text it should keep is not
inductive over the target alone: the candidate was computed over the replica its
client holds. `TextsInv` therefore says of every candidate that it keeps the texts
of that replica (`KeepsTexts`, the body of `TextsKept` for any two histories), and
publication hands this to the target. It also needs that every document is
`Worded`: a revision on the line that is not pruned has a text, and a pruned one
lies before the cutoff of a compaction, or a candidate made by a merge could lack
a text the target had and no event would explain it. A document's texts are a
recursive function over its records; two lists that say the same up to a place
have the same texts up to there (`TextsCoincide`). A save, a seal, a discard and
every change of members come down to one statement, `BuiltOn`: they keep the history
up to a place, drop only provisional records after it, and add at most one revision,
at the end. A compaction keeps the order and the digests, and its checkpoint is the
text there was, from which the deltas that follow give what they gave before;
a merge is built on the client's own line, and what it takes in from the target is
foreign there. What each operation computes is decoded before it becomes a
candidate, and the proof uses of that the checks of links, texts and cutoffs. The
one assumption it adds is that a text is not what stands for an absent one
(`TextsAreTexts`).

*Native session.* `ClearIsAuthenticated` is inductive as it stands: a function that
reads answers "clear" only after its checks and changes nothing, every other
answers something else, and a step without a call leaves the answer and the
session. There is one lemma for each group of functions.

`LayersAgree` and `LockedIsLocked` hold between operations only. Within one a
container may be open that the addon does not own yet, closed and still
remembered, or hold a candidate the service has not taken note of. `LayersInv`
says what the layers are like at each step of a stretch (`Expects`), from that
step and the next two; that what is due follows (`Follows`, for every step of
`Legal`), so that a stretch cannot end before the layers agree; and that where a call
can still be refused they agree already, but for a copy that cannot be refused
there. `Answered` is what the proof needs of the container: which calls may
unlock, confirm an image, or begin or end a candidate. Each stretch an operation
starts, each one the service puts in and each one it falls back on is shown
`Legal` once. A document being locked or locked that nothing overtaken has touched
(`Shut`) is unlocked only under `openDocument`'s catch (`TriesFirst`), which ends
with the document shown or falls back on locking it (`LocksAgain`); `lock` and
`close` may be refused, `discard` cannot. What prepares the release of the lease
unlocks nothing, and only a lock that has begun can end (`LocksOnly`).

Only model-checked: `ResultsDecode` of the document history, which needs every
check of the decoder of every result (`TextsStayKept` gets by with the checks a
candidate has passed): nothing in it is out of the prover's reach, but its proof, a
lemma for each check and each operation, has not been written. And everything about
liveness, which is beyond the prover.

## 5. Why some properties are stated as they are

* `LockFlushesWork` speaks of locks that report the journal saved and leave no
  publication pending; the others promise no more than what the journal holds.
* `ConfirmedIsTarget` excludes an observed target: then the container keeps the
  image it confirmed, and says so.
* `ResultsDecode` forbids a malformed result only. A result that exceeds the limit
  of records is refused as such, before a candidate exists; that is what the
  code promises.
* `TextsKept` allows a text to go with a compaction whose cutoff is later, and with
  a merge, which keeps the other side's records and not their bodies.
* `LineageSound` says nothing of where a provisional replica stands: its tail may
  have been replaced, and then its head is nowhere in the target.
* `LockCompletes` and `SaveSettles` except `Hung`, a lock of the host that waits for
  the heartbeat behind it: that it never ends is the fifth disagreement of section 6.
* `LockedIsLocked` excludes what the lock has overtaken, since the code does not hold
  there (below). `UnlockShowsDocument` does too: its counterexample is to be a
  document nothing else has happened to.
* `LayersAgree` lets the service know no container while there is one. The code
  reaches that (below).

Behaviours no property forbids, because nothing in the repository promises
otherwise, which a reader should know of:

* A base file written but not synced by a crashed attempt matches on the retry and is
  reused without a sync; a power loss then tears it (`publication.mjs:375`).
* A merge drops the only record that names the transaction file of the conflict it
  resolves, which then stays behind (`document-service.mjs:1333`).
* Not every conflict can be merged. A candidate built on a provisional head that
  another client has replaced is assessed as a rollback
  (`revision_graph.cpp:687`), and one that was published and built upon as an
  advanced target (`:903`); both can only be discarded.
* A replaced container is remembered only once it is unlocked
  (`document-service.mjs:607`, `:1375`, `:2627`). If the unlock throws, the service
  knows no container and closes none, so that every later opening is refused, until
  the program is restarted.
* A reopen reports a retained candidate as a definite failure
  (`document-service.mjs:546`), which the container refuses for one already
  ambiguous; the release of a lease after a lock can end so.
* A lock can end with the native container unlocked. `#finishLock` locks it first and
  then waits for what it has overtaken (`document-service.mjs:1585-1592`); an
  acquisition past its read of the target synchronises and unlocks the container
  (`:2448`, `:2619`) before it looks at the lock (`:2492`), a regular save does
  (`:1836`, `:600`), and a password change even after the end of the lock (`:799`).
  The plaintext in the renderer and the session's password are gone all the same,
  the one in the native library is not. `docs/SPECIFICATION.md:323` says "An open
  document automatically re-locks", `:284` that security locking "still clears
  plaintext", and `:334` that "Decrypted keys may have remained in library memory
  during screen Lock". An unlock with another slot's password then fails once, as the
  container still shows the first slot's document (`:561-567`), and locks it.
* A document holds at most 1024 records (`cbor_reader.cpp:124`), events included, and
  a compaction removes bodies, not records. `docs/SPECIFICATION.md:176` says that the
  format imposes no arbitrary maximum, but also that clients enforce limits.

## 6. Disagreements with the documentation

Each is a violation run with a finding in `PROJECT.json`.

1. A publication that carries older text overwrites and then clears the
   checkpoint of newer text (`work_checkpoint`).
2. A failed lease refresh locks without journaling what was typed meanwhile and
   reports the journal saved (`work_lock`).
3. A lock overwrites the journal key that a save in flight still uses
   (`work_key`).
4. Work recovered together with an interrupted refresh is offered but not
   restored (`work_restore`).
5. A lock asked of the host while a heartbeat or an acquisition is about to
   publish waits for it inside the barrier, and it waits for the barrier: the
   document stays unlocked and every later operation queues up (`host_lock`).
6. A save submits its text to the native container before it is prepared. When the
   preparation is refused, or the save fails, the text stays there; after a lock
   every unlock compares it with the target, finds them different and refuses
   (`native_reopen`).

## 7. Plan

In this order; the first two rows carry the most risk.

| Module | Will model | Checked and proved |
|---|---|---|
| `EditingLease` | several clients acquiring, refreshing, taking over and releasing one lease through checked replacement; clocks as evidence | abstract spec of the lease; a refused refresh stops editing; exclusion outside the compare/rename window |
| `ReplacementCoordinator` and `SecureLock` | claims, cancellation, the close decision and its publications under the barrier, secure lock, single instance, external opens, composed under the barrier | no document is replaced under a pending lock |
| `ActivityEvent` | attempt, action, outcome across crashes, composed with the container's activity | an outcome is recorded at most once |
| `HeadWitness` | read-modify-write per document | a head once seen is not forgotten |
| `FrontendWorkingCopy` | working copy and session of the renderer | text on screen and text saved |

Proofs to follow: the lease's refinement.

## 8. Not modelled

The editing lease between clients, activities' outcomes, the head witness, the
document lifecycle and the renderer's working copy are planned (section 7). The
byte formats (`cbor_reader.cpp`, `cbor_writer.cpp`, `snapshot_revision.cpp`),
cryptography, the functions of the C interface that take bytes and keep no state
(`revision_abi.cpp`, `history_abi.cpp`), the IPC contracts, the React components
and the vendored password strength library have no control for a model checker to
explore, or none that survives a call. Inside the modelled parts, section 2 names
under each module what it leaves out, and `PROJECT.json` the status of each
component.
