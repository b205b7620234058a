# A verification project for Keyspilli

Keyspilli is a self-hosted piano practice application: a web application
(`apps/web`), a transcription worker (`services/transcribe`) and the packages
they share, over one data directory and one SQLite database. What is hard in it
is not the music but the *catalog*: several processes install, replace, delete
and read the artifact tree of a song, which lives in directories, in SQLite rows
and in source files that no single transaction covers. This project models that
core in TLA+, checks it with TLC, and proves its main invariants with TLAPS.
Around the core it models the editors and uploads that go through it, the loop of
the worker, the player's transport and the engraving worker of the browser.

Paths below are relative to the repository.

## 1. Inventory

| Component | State it keeps | Operations | Talks to |
| --- | --- | --- | --- |
| Artifact publication (`packages/catalog/src/publish.ts`) | per base: the trees `BASE`, `.BASE.old`, `.BASE.new`, a marker `.publication-id` in a tree, the journal `.BASE.reconciliation.json`, the receipt, the lock database | `publishBaseArtifact`, `deleteBaseArtifact`, `inspectBaseArtifact`, `reconcileBaseArtifact` | the commit callbacks, all callers |
| Catalog commit (`reconcile.ts`, `recovery.ts`, `scripts/reconcile-artifacts.ts`) | song rows, job rows, uploads, transcriptions | `commitCatalogPublication`, `commitCatalogDeletion`, the inventory, two reconcilers | `db.ts`, `publish.ts` |
| Job store (`db.ts`) | `conversion_jobs` with leases, songs, the read-model cache of a process | enqueue, claim, renew, requeue, update, delete | worker, routes |
| Worker (`worker.ts`, `worker-runtime.ts`) | the claim, the fence flag, health, shutdown state | poll, process, drain, grace expiry | job store, `ingest.ts` |
| Ingest (`ingest.ts`) | a prepared arrangement, a staged upload | publishes through `publish.ts` | worker, upload route |
| Readers (`apps/web/src/lib/catalog-api.ts`) | per request: two revisions and what was read; a cache of artifact pairs | `withStablePublication`, detail, sheet, export | the trees and rows, without the lock |
| Routes (`apps/web/src/app/api`) | none | retry, delete, cancel, import, upload, metadata, recovery | all of the above |
| Quarantine (`tombstone.ts`) | a record per base, files under `quarantine/` | quarantine, finish, undo, purge | the lock, rows |
| Song update and harmony (`song-update.ts`, `harmony-publication.ts`) | per request: a snapshot, a patch, a revision | rebuild and republish, add a reviewed harmony | `publish.ts`, rows |
| Uploads and handoff (`uploads/route.ts`, `source-candidate-handoff.ts`) | handoff records; per upload a copy of one | create, confirm, bind, accept, reject, clean up; publish, reuse, replace | `ingest.ts` |
| Read model (`db.ts`) | cached rows and signatures, per process | snapshot of the visible rows, invalidation | database, policy files |
| Worker health (`worker-health.ts`, `worker-health-check.ts`) | the health file | write, remove, probe | the loop, the process manager |
| Player transport (`engine.ts`, `grading.ts` in `packages/player-core`) | playhead, loop, scheduling horizon, grader | play, seek, frame, loop, settings, grade | the web player, audio |
| Stored practice (`practice-store.ts`, `owner-state.ts`) | practice and owner state in the browser | merge, export, restore | the web player |
| Engraving (`verovio-worker.ts`, `render-worker.mjs`) | requests and sessions; in the worker a toolkit and a cached score | open, render, close, time out | the sheet view |
| Music algorithms, research tools, deployment, plugins | none shared | pure functions, reports, scripts | - |

The difficult behaviours are crashes between the steps of a publication, the
resumption of a resumption, readers without a lock, leases that expire under a
running worker, routes that act on a job somebody is processing, edits prepared
from a snapshot that others overtake, and waits that only a timer ends.
`PROJECT.json` lists them as hazards, each at its line.

What makes the core components correct:

- publication: without a pending journal the tree and the rows are the same
  publication; before a deletion the last committed tree is never lost; the rows
  never run ahead of the disk; what was replaced or deleted stays so;
- reconciliation: it can always go on where a predecessor stopped, resolves every
  journal, and its receipt is true;
- readers: one answer, one publication, current during the request;
- jobs: at most one publication, a done job exactly with its song, a cancel is
  final, every job settles;
- edits and uploads: no change is lost, nothing is refused for a reason that is
  none, a request that names a revision replaces that one, and a handoff tells
  what was published;
- read model: an answer is of one instant, a cached answer is current;
- worker loop: a signal ends it within its grace, and a healthy probe means
  progress;
- player: every attack sounds once, every target is counted once;
- engraving: a page belongs to the score it was asked of, and nobody waits for
  ever.

## 2. Modules

| Module | Models | Built on |
| --- | --- | --- |
| `CatalogRegister` | what a base promises: a register that is served, suspended, decided and resumed | - |
| `Publication` | the protocol of one base, step by step, with stops, both reconcilers and the commits | `CatalogRegister` (refinement) |
| `PublicationInv` | the inductive invariant of `Publication` | `Publication` |
| `PublicationProofs` | the theorems about the protocol | `PublicationInv` |
| `RegisterProofs` | the theorem that the protocol implements the register | `PublicationProofs` |
| `StableRead` | a reader without the lock beside the writers of `Publication` | `Publication` |
| `StableReadProofs` | the theorems about readers | `StableRead`, `PublicationProofs` |
| `ImportJob` | one import: its row, workers, leases, routes, its publication reduced to a lock, a journal and an installed tree | `ImportOutcome` (refinement) |
| `ImportOutcome` | what an import promises: one outcome at a time, listed only through an attempt | - |
| `JobProofs` | the theorems about imports, its refinement of `ImportOutcome` among them | `ImportJob` |
| `Tombstone` | the reversible deletion of one base: its record, its files on both sides, undo and purge | `ReversibleRemoval` (refinement) |
| `ReversibleRemoval` | what the quarantine promises: a base is hidden, brought back or given up as a whole | - |
| `TombstoneProofs` | the theorems about the quarantine, its refinement of `ReversibleRemoval` among them | `Tombstone` |
| `SongUpdate` | the editors of one base: metadata updates and harmonies beside ingests, deletions, plays, stops and replays; the protocol reduced to lock, swap, commit and journal | `SongEdits` (refinement) |
| `SongEdits` | what editors promise: each request changes the whole base at one instant, or answers that it did not | - |
| `SongUpdateProofs` | the theorems about editors, their refinement of `SongEdits` among them | `SongUpdate` |
| `SourceHandoff` | uploads of symbolic files by several processes and the handoff they answer | - |
| `UploadMove` | the renames that bring an uploaded source into place, beside replays, deletions and stops; the protocol reduced to a journal and a tree | - |
| `ReadModel` | the cached rows of one process beside the writes of others | - |
| `Transport` | the transport of the player and its grader | - |
| `WebProofs` | the theorems about uploads, their handoff and source files, about the cache with the condition they need, about the transport, and about all the parts `MCWeb` runs | `MCWeb`, `SongUpdateProofs` |
| `WorkerRuntime` | the loop of the worker, its timers and its health file | - |
| `Engraving` | the requests of the browser and the engraving worker | - |
| `MCPublication`, `MCStableRead`, `MCImportJob`, `MCTombstone` | finite instances | - |
| `MCWeb` | the instance of `ReadModel`, `SongUpdate`, `SourceHandoff`, `UploadMove` and `Transport` | these |
| `MCTimers` | the instance of `WorkerRuntime` and `Engraving` | these |
| `TimersProofs` | the theorems about the loop, its health file and the engraving | `MCTimers` |

### Publication

One process is at one step (`pc`) of one operation (`op`); `tok` is its
publication id, `pin` the journal digest an operator reviewed. A tree is a
record: whose content it is, its marker, and whether it is whole; a recursive
removal passes through trees with files, and perhaps the marker, missing
(`Removing`). The journal is absent, torn, or names a publication or a deletion.
`fate` is history: a token is fresh, staged or committed.

Each action is what happens between two points at which the process can die.
The order of the actions is the order of the code:

| Step (`pc`) | Code |
| --- | --- |
| `recover`, `sweep` | `recoverInterruptedPublish` |
| `ready` | past the preamble; `reuseExisting`, `inspect` and the delete snapshot |
| `write`, `mark`, `fence` | writer and checks, marker, `beforeSwap` |
| `discard` | the `catch` that removes the stage |
| `journal`, `intent` | creation and content of the journal |
| `retire`, `install` | the two renames |
| `source`, `rows` | `commitCatalogPublication`: upload, then transaction |
| `erase`, `unlist`, `unsource` | removal of the tree, `deleteBaseRows`, source files |
| `clean`, `receipt`, `close` | removal of `.old`, receipt, removal of the journal |
| `examine`, `unstage` | `reconcileBaseArtifact` up to its decision; the roll back |

`Stop` is the death of a process, and also a call that throws where no handler
touches the disk: both drop the lock and leave the files. Publishers are those
that pass `afterSwap`, as every one of the service does, so `requiresCommit` is
always true.

### StableRead

The reader runs `withStablePublication` around the rows, the manifest and the
notes, one file-system or database access per action, with its two attempts or
its required revision, as `loadSongDetail` calls it: the rows are looked up before
(`FindNothing` when there are none, which answers null at once), and rows that were
removed since make the value null and drop the revision. Readers change nothing, so
one stands for all. `live` collects, while a request runs, the publications the
register served.

### ImportJob

A worker polls (`scan`, `requeue`, `list`), reads, claims, works and publishes
(`publish` to `close`); time is abstract: a lease may expire whenever its owner
is gone, or, bounded by `MaxStops`, when its owner stalls. `requeueOrphaned` is
two actions, because it reads the journals before its transaction. The routes
that retry, delete and cancel, the deletion of the published song and the
reconciliations are actions of the environment.

### Tombstone

A base owns files at several paths (`Paths`); `place` and `saved` say what lies
at a path and in its quarantine directory, and `tomb` is the row of
`catalog_tombstones`. An operation holds the lock (`act`) and runs the steps of
`operate`: `check`, `mark` (the record says which way it goes), `move` path by
path, `verify` and `record`, or for a purge `clear`, `remove` and `drop`. A stop
at any step drops the lock and leaves record and files as they are. Publication,
deletion and reconciliation are whole steps here, because they run under the same
lock, which refuses a hidden base (`publish.ts:94`, and for the rows the triggers
of `catalog-schema.ts`); jobs are queued without the lock, so they appear at any
moment. `PutNewer` is somebody who writes into the data directory by hand, as the
tests do.

### SongUpdate

`applySongMetadata` reads the rows, checks the revision, reads the manifest and
the notes, all without the lock, rebuilds, and takes the lock to read everything
again (`Recheck`) before it swaps; each read is one action. A tree and a row say
which request gave them each field, so that a lost edit shows; a request
publishes once, and its name is also its revision. `publishHarmonyCandidate` has
no snapshot but a revision and a binding, by which a repeated request is
recognised. The backing that a harmony adds is carried into later trees by
`stagePreparedBacking` (`BackingFits`). A journal holds the rows of the snapshot,
so a replay after a stop commits those.

### SourceHandoff

A file is its own base, so a file is what is published. An upload looks at the
receipt of its file (`Inspect`), binds a copy of the handoff, is arranged, decides
again under the lock (`Publish`) and writes its copy of the handoff back
(`SaveOutcome`). `confirmSourceCandidateHandoff` is two actions with the write
lock of SQLite between them (`tx`). One process serves one upload at a time; two
processes may serve two.

### UploadMove

`ingestSource` stages the bytes under a name with a token; once the tree is
installed, `commitCatalogPublication` renames the previous source to a backup
(`MoveAside`), the staged file into place (`MoveIntoPlace`), checks it
(`VerifySource`), commits the rows and removes the backup. A replay finds the work
of the interrupted commit by the names that exist. A base of the upload route is
addressed by the hash of its bytes, and the script that ingests an upload again
reads the retained file: every file of a base has the same bytes, so a file is
there or is not. A roll back leaves the staged upload, a failed removal leaves a
backup, and a deletion looks for neither; no document speaks of them and no property
does.

### ReadModel

One call of `visibleSongRowsSnapshot` is a sequence of reads; between any two
another process may commit or replace a policy file. Versions stand for contents
and for signatures: the fingerprints and `data_version` are taken to tell any two
versions apart.

### Transport

Time is counted in ticks of the lookahead. `sounds` counts how often the attack of
a note was handed to the audio since the last silence (`cancelAll`), `origin` is
where the scheduling began since then and `last` is `lastScheduled`. Every call
that moves or bounds the playhead is an action, the frame with each duration up
to a stall. The grader's list becomes the sets `open` (to come), `gone` (missed)
and `taken` (played), beside the counts the code keeps.

### WorkerRuntime

One thread that gives way at its awaits: `at` says where. Time is counted in
heartbeat periods; `Period` ages the heartbeat and the file and cannot pass a
heartbeat that is due while the loop lives. The file is written, removed when it
cannot be written, or kept when neither succeeds.

### Engraving

`inbox` and `outbox` are the two message channels. The main thread gives a request a
number and a timer; the worker takes its messages one after the other. Ending the
worker empties its inbox but not the messages it has already posted, which the
next generation must not take for its own.

`MCWeb` and `MCTimers` check parts that share no state in one run: the variable
`part` says which one moves, and the others stay where they begin. States add up
instead of multiplying, and the fairness of a part is assumed only where that part
runs.

## 3. Runs

| Run | Instance | Shows |
| --- | --- | --- |
| `publication` | 2 processes, 3 tokens, HTTP reconciler, 2 stops anywhere; 361,698 states up to symmetry | the safety of the protocol, its refinement of `CatalogRegister`, and that `PublicationInvariant` is an invariant |
| `recovery` | 2 processes, 1 token, both reconcilers, 1 stop outside the windows below | journals stay resolvable and are resolved |
| `stable_read` | 1 writer, 2 tokens, 1 stop anywhere | the reader's guarantees |
| `import_job` | 2 workers, 3 owner ids, 2 attempts, 2 stops, 1 retry | safety and progress of an import, the bound of its attempts, its refinement of `ImportOutcome`; 276,565 states |
| `tombstone` | 3 owned paths, 2 publications, 2 stops anywhere, 1 newer file, 1 job | no bytes lost before a purge, no mixed base shown, the base is settled, the refinement of `ReversibleRemoval` |
| `web` | 2 updates, 2 harmonies, an ingest and a deletion of which 3 are sent, 1 play, 1 stop; 2 upload processes, 2 files, 3 uploads; 2 ingestions of one base, 3 stops; 1 foreign change per call; a song of 4 ticks with 4 notes | no edit is lost, the editors' refinement of `SongEdits`, uploads and their handoff agree, the source of a listed base survives, rows of one instant, exact attacks and counts; 835,064 states, half of the time for `SongEdits` |
| `timers` | polls of up to 2 jobs, staleness after 2 periods; 2 scores, one too large to cache, 2 pages, 4 requests, 2 workers | truth of the health file, pages of their score, every wait ends |
| `roll_back_killed`, `delete_replayed`, `read_rows`, `stale_owner`, `stale_hit` | small | five disagreements with the documentation, section 6 |

Why the bounds are enough. Two processes make every pair of operations compete
for the lock, and the lock makes a third only wait. Three tokens let one
publication be replaced by a second and the second be interrupted or followed by
a third, so old trees of two different publications meet one stage. Two stops
reach a reconciliation that is itself stopped; the invariant and the proofs of
section 5 do not depend on any of these numbers. A reader needs two publications
to tell them apart and makes at most two attempts. Two workers and three owner
ids are one owner more than there are claims at a time, two attempts are the
default of the service. Three owned paths leave one moved, one under way and one
not moved when an operation stops; two stops interrupt a resumed operation, and two
publications let a base be published again after it was restored.

Three requests in `web` are an edit, somebody who overtakes it and somebody who
overtakes that, in every mixture of kinds; one stop leaves a journal that the
third finds or that is replayed under it. Two processes with two files give two
uploads of one file, of two files into one handoff, and one expected and one
unexpected format. Three stops cut a first
ingestion, its replay, and one that replaces it. One foreign change during a call is what the single retry of
the code is made for; `stale_hit` shows what two do. A song of four ticks has two
notes at one onset, a pitch that returns, and two regions that overlap, and a frame
may be longer than the lookahead, than the tolerance and than a region. In
`timers` a second job waits while the first runs when the signal comes, and the
second engraving worker repeats the session numbers of the first.

`NotInWindow` (run `recovery`) excludes two stops: while a journal is written,
which leaves a torn journal that the code refuses by design, and after the stage
was removed in a roll back, which is the defect run `roll_back_killed` shows.

### Fairness

`recovery` assumes that a process that holds the lock goes on (`WF` on `Work`:
the event loop runs), and that an operator who keeps reviewing and reconciling a
pending journal gets the lock again and again although others compete
(`SF` on `Review` and `Reconciling`: the lock does not queue, so weak fairness would not
do, and the documentation makes resolution an explicit, repeated act of the
operator). `import_job` assumes that workers run and are restarted by their
process manager, and that the lease of a dead owner runs out; users, the
operator, stalls and crashes owe nothing. `tombstone` assumes that an operation
that holds the lock goes on, that jobs end, and that an owner keeps asking for
what applies (`SF` on `Operate`, again because the lock does not queue); neither
the end of a retention nor the removal of a newer file is assumed.
`timers` assumes that timers fire (the grace of the loop, the time-out of a
request) and that the loop runs on between its awaits. It assumes nothing of polls,
jobs, heartbeats, the signal or the engraving worker; a startup does end, because
the loop waits for it and its only await is a command limited to ten seconds and
ended by the signal (`worker.ts:651`).

## 4. The abstract specifications

Four modules say what a component promises without locks, journals, records,
leases or stops. The component is an implementation of it under the mapping its own
module gives; a run checks the implementation and a theorem of section 5 proves it.

| Abstract | Implemented by | Mapping | Property |
| --- | --- | --- | --- |
| `CatalogRegister` | `Publication` | `Register` | `RegisterSpec` |
| `ReversibleRemoval` | `Tombstone` | `Removal` | `RemovalSpec` |
| `ImportOutcome` | `ImportJob` | `Outcome` | `OutcomeSpec` |
| `SongEdits` | `SongUpdate` | `Edits` | `EditsSpec` |

`CatalogRegister` has a value, what is served of it, a phase, and the set of past
values. `Suspend` takes it out of service, `Decide` sets it once to something
that was never current before or to nothing, `Resume` serves the decision, or
the old value when there was none. The value is the publication in the rows, what is
served is the content of the tree while no journal is pending, and the phase is read
off the journal and the rows.

`ReversibleRemoval` has the content that is shown and the content that can still come
back, each as a whole. `Hide` turns one into the other, `Return` does the opposite,
and `Doom` gives the kept content up, after the retention and for good. The kept
content is, path by path, whatever side the path lies on (`Copy`), from the record to
the undo's last step or to the first step of a purge.

`ImportOutcome` is the row of an import as its user sees it (`Told`), whether the base
is listed, and the attempt at publishing that is open (`Attempt`). It says which
outcome may follow which: only a plain failure is taken back, a cancellation comes
before an attempt or not at all, a base is listed by an attempt whose files are in
place, and such an attempt ends in no other way.

`SongEdits` has the base as one value with everything an editor can change. A request
is sent, takes effect once and is answered, or is answered that it did not take
effect; only a stopped one may answer either way. The effect is on the base as it is at
that instant, on all its parts. In `SongUpdate` the instant is the swap: from then on
the base counts as what its journal will leave (`Catalog`, the rows the commit will
make of the rows there are), though the rows change later, and if the process stops,
by another hand. A play that is counted between the swap and the commit belongs to
the new base at once, because the commit keeps the larger count.

## 5. Proofs

Eight modules hold the proofs. Those about the publication and its readers assume
`ConstantsDistinct`, `BoundsAssumption` and `MissingAssumption` (names of constants
differ, stopping points are steps) and nothing else: any number of processes,
tokens and stops, any set of reconcilers, stops at any step. For each of the five
disagreements of section 6 one theorem says when the promise does hold, under a
condition its statement names: `SourcesGoWithRows` (the command-line reconciler is
not used), `JournalsResolvable` (no stop in the four steps that section 6 is about),
`RowsAreOfRevision` (`NotOvertaken`), `JournalsCommittable` (`LeaseKept` and
`ScanCurrent`) and `HitsAreCurrent` (one change in a call). Those about editors and uploads assume
that names differ, that kinds of requests are disjoint and that bounds are numbers
(`UpdateConstants`, `NothingIsNone`, `HandoffConstants`, `MoveAssumption`): any number of requests,
servers, files, plays and stops. Those about the quarantine and about imports
(`PathsAssumption`, `ValuesDistinct`, `LimitsAssumption`; `JobAssumption`) hold for
any number of paths, workers, lease owners, attempts, retries and stops. Those about the read model hold for any number
of changes, of which at most one falls into a call (`MaxPerCall \in {0, 1}`). Those about the transport assume `TransportConstants` alone:
any finite set of notes within the song, any loops and passages, any lookahead, stall
and tail. Those about the loop and the engraving (`RuntimeConstants`,
`EngravingConstants`) hold for any number of jobs in a poll and of scores, pages,
requests and workers.

| Theorem | Property |
| --- | --- |
| `InvariantHolds` | `PublicationInvariant` |
| `TypeCorrect` | `TypeOK` of `Publication`, a conjunct of `PublicationInvariant` |
| `TreeMatchesCatalog` | `CatalogMatchesTree` |
| `TreeSurvives` | `CommittedTreeSurvives` |
| `ReceiptsAreTrue` | `ReceiptTruthful` |
| `RowsOnlyFollow` | `RowsFollowTree` |
| `NothingResurrected` | `NoResurrection` |
| `RegisterImplemented` | `RegisterSpec` |
| `SourcesGoWithRows` | `SourcesFollowRows` |
| `JournalsResolvable` | `JournalResolvable` |
| `ReaderTypeCorrect` | `ReaderTypeOK` (proved, not run) |
| `FilesAreOfRevision` | `FilesMatchRevision` |
| `AnswersWereServed` | `AnswerWasServed` |
| `RowsAreOfRevision` | `RowsMatchRevision`, when the reader is not overtaken before its first revision |
| `PartsAgree` | `BaseAgrees` |
| `NoEditIsLost` | `EditsCompose` |
| `NamedRevisionReplaced` | `RevisionHonoured` |
| `NoSpuriousConflict` | `PlaysNeverConflict` |
| `EditsImplemented` | `EditsSpec` |
| `AcceptanceIsTrue` | `AcceptedWasPublished` |
| `BindingIsKept` | `ConfirmKeepsBinding` |
| `ReplacesOnlyReviewed` | `UploadReplacesReviewed` |
| `SourceIsRetained` | `SourceRetained` |
| `AnswersOneInstant` | `AnswerOfOneInstant` |
| `HitsAreCurrent` | `HitIsCurrent` |
| `AttacksAreExact` | `AttacksExact` |
| `EveryTargetCounts` | `ScoreAddsUp` |
| `TombstoneTyped` | `TypeOK` of `Tombstone` (proved, not run) |
| `ShownBasesAreWhole` | `ShownIsWhole` |
| `NoBytesLost` | `BytesKept` |
| `RowsGoLast` | `RowsLast` |
| `NewerFilesKept` | `NewerKept` |
| `RemovalImplemented` | `RemovalSpec` |
| `JobTyped` | `TypeOK` of `ImportJob` (proved, not run) |
| `AttemptsStayBounded` | `AttemptsBounded` |
| `PublishesOnce` | `PublishedOnce` |
| `SongMeansDone` | `DoneWithSong` |
| `CancelHolds` | `CancelIsFinal` |
| `OutcomeImplemented` | `OutcomeSpec` |
| `JournalsCommittable` | `JournalCommittable`, when leases are kept and journals read in time |
| `TimersTyped` | `TimersTypeOK` (proved, not run) |
| `HealthIsTrue` | `HealthFileTruthful` |
| `PagesBelong` | `PageOfItsScore` |
| `WebTyped` | `WebTypeOK` |
| `PartsOfWeb` | the specifications of the five parts of `MCWeb` |

### The publication

None of its safety properties is inductive: each speaks of the states without a
journal, or of one file, and a step of the protocol relies on what earlier steps
of the same operation, or of an operation that was stopped, left behind.
`PublicationInvariant` says what that is.

- `LockInv`: only the lock holder is inside an operation. Every other conjunct
  about a step is used through it: a step of the holder cannot invalidate what
  another process relies on, because the others are idle (`StepFrame`).
- `ShapeInv`: a marker is the token of its own tree, a complete tree exists, a
  journal of a publication carries a token. The reconciler decides by comparing
  markers with the journal; without this, a marker of another tree could decide.
- `DiskInv`: what a process that finds the disk after a stop may rely on.
  Without a journal of a publication or a deletion the current tree is the one in
  the rows. With one of a publication, the base is `BeforeSwap` (token never
  committed, previous tree installed or aside) or `AfterSwap` (journaled tree
  installed and complete; rows committed, or previous tree aside). This is the
  reason the roll back and the roll forward are both safe.
- `StepInv`: how far the operation of the lock holder has come (`StepAt`): the
  stage is complete and marked before it is journaled, the backup goes only
  after the commit, the rows of a deletion only after its trees.
- `ReceiptInv`: a publication reported rolled back is held by no process, and a
  journal that still names it is not installed, so it cannot be committed later.

One lemma per action shows that it keeps the invariant, conjunct by conjunct;
`NextKeeps` combines them. The properties follow from the invariant, the two
action properties also from `RowsChange` (only two actions change the rows).

`RegisterImplemented` proves the refinement: `InitImplements`, and
`NextImplements`, where `OpenJournal` is `Suspend`, `CloseJournal` is `Resume`, a
commit that changes the rows is `Decide` (and so is the journal of a deletion of
a base that has no rows), and everything else stutters.

`SourceInv` ties the source files to the rows: they may precede the rows only while
the journal of an installed publication is pending, and a deletion that cleans up
has removed them. `ResolveInv` says where the token of an intact journal is: in
the installed tree, in the stage, or in a roll back that is past its decision.

### Readers

A request takes no lock, and any number of operations may run between its reads.
`FilesInv` says why comparing the first and the last revision is enough for its
files: a file of another publication was read from an installed tree, so the first
revision had left its place (`Gone`), and a tree that has left the installed place
to another one never returns to it, because only a base without an installed tree
is given its backup back (`GoneKept`, which rests on `PlaceInv`). The rows are not
compared, so for them only `ServedInv` holds: what a request met was served while
it ran, or belongs to the journal that is pending and must be gone before the
request answers. That holds of the files too, and of requests that return no
revision (`AnswerWasServed`): a base whose tree is away at both revision reads, in
the middle of a swap or for want of a marker, lets a request through with files of two
publications, but never with one that was replaced before it began or was not
committed.

`RowsAreOfRevision` says how narrow the gap is that `read_rows` (section 6) finds.
`RowsInv` gives the rows the argument of the files: they are those of the first
revision until that publication is gone, and then it is not the last revision. It
needs them to be so when that revision is read, which a pending journal is all that
prevents (`NotOvertaken`).

### Editors

`BaseAgrees` fails to be inductive while a journal is open, and the three action
properties speak of what a request read long before. `UpdateInv` adds:

- `JournalInv`: an open journal belongs to the request that is between its swap and
  the removal of the journal, or to one that was stopped there. The tree is already
  that of the request; its rows are in the journal, and are committed or not yet.
- `RequestInv`, and in it `Decided`: what a request found under the lock (its
  revision, its source, the backing it may carry) still holds when it swaps,
  because nobody else has the lock. This is why the second look under the lock is
  enough, and why the first one, without it, decides nothing.
- `PlaysGrow` with `Unused`: plays only grow while the rows live, and a request that
  has not published gave no field its value. A snapshot that agrees in title and
  tempo with the rows is therefore of the same life of the song.

`NoSpuriousConflict` needs one invariant more, `QuietInv`: while nobody published
since a request began, everything it has read is still there, up to the count of
plays (`Undisturbed`). A comparison that fails then shows a publication.

`EditsImplemented` follows from `UpdateInv`. A reading step and a commit stutter: the
commit makes of the rows exactly what the base already counts as, whatever plays came
between (`EditStep` and the lemma of each action). The swap is `Apply`: `Decided` gives the guard of
the abstract edit, and `JournalInv` with `BaseAgrees` that the rows of the snapshot are
the rows of the base, so that nothing of it is lost. The mutant of `EditsSpec` lets a
publication begin over the journal of a stopped one: the effect of the stopped request,
which an observer may have seen installed, is then undone in part.

### Uploads

`UploadsFit` says that the record an upload carries names its own file, and says
accepted only if that file was published with it; whichever of several records is
written back last, the property holds. `TransactionFits` says that a confirmation
that has begun still sees the stored record it read, because the transaction holds
the write lock. `BindingIsKept` rests on it.

For the source file, `Moving` lists how far the renames of the journaled publication
can have come: nothing moved yet, the previous source aside and the staged one not in
place, or the staged one in place. Each replay starts from one of the three and goes
on from there (`JournalFits`, `HolderFits`).

### The read model

`ReadModelInv` counts: versions only grow, and a call that repeats its reads has
met the one change it is allowed (`CountedInv`), so nothing changes around the
second reads. The cache then holds rows of the very versions it is stored under
(`CacheInv`). With two changes the invariant fails where `stale_hit` finds it: the
second rows are stored under signatures that were never compared.

### The quarantine

An operation that was stopped is resumed from its record alone. `SidesInv` says,
for every state of the record, on which side each path may lie: on one of the two
and never on both while files move, all away when the record says so, and in a
purge nowhere but in the quarantine. `StepInv` is what the holder of the lock has
established in this operation; in each state it follows again from the record and a
look at the files, which is why a resumed operation may skip what is done.

`RemovalImplemented` rests on the same invariant. A move of one path changes neither what
is shown nor `Copy`, and stutters; the only steps of an operation with an effect
outside are those that write the record. That `Return` gives back what was hidden is
the conjunct of `SidesInv` that no path is on both sides, together with `BytesKept`.

`NewerFilesKept` excludes every step but `TakeNewer`, its owner's, as the end of a
file that appeared at an owned path of a hidden base. Only `Move` could replace it;
it finds the publication of the record in quarantine and a file in place, or a file
that is not the record's, and both are a collision. A purge looks for such files once
and touches only the quarantine, so one that comes after that look also stays.

### Import jobs

No property of a job is inductive alone, since a worker acts on what it read before
its claim. `AttemptsInv` bounds the count it may write back: a retry sets the
attempts to nought, a worker may still add one to a count from before it, and so
every retry admits at most one attempt more. `OnceInv` says that a published job is
done or deleted, and no step brings such a row back to a state that is claimed,
requeued or committed. `CancelInv` says that a cancelled job is in error, which
every later step refuses.

`OutcomeImplemented` needs `AttemptInv` beside the job's invariant: what a worker did to
the journal and the files since its fence is still there, because it holds the lock, and
when it is about to write its intent its job is neither listed nor cancelled. The
routes take the same lock, so nothing comes between the fence and the intent; the
mutant lets a cancellation pass without it, and an attempt then begins at a cancelled
import.

`JournalsCommittable` shows that what `stale_owner` (section 6) finds has two causes
and no others. `OwnerInv`: the job of a journal is claimed under the owner the journal
names, waits for the operator, or is done; from the fence on, the publishing worker owns
it. A lease that runs out under a live worker breaks the second part (`LeaseKept`: it
then journals a job that may have been requeued), and a poll that has missed the
journal of a dead one the first (`ScanCurrent`). Every other release of a lease is by
the owner itself, for the operator once it has a journal, or before the fence.

### The transport

`SoundInv` is inductive: a paused player has nothing scheduled beyond where it began
(`origin = last`), and while it runs the next window begins where the last one ended,
so no attack falls into two windows or between them. A stalled frame, a loop that
wraps, a seek and every reinstallation begin again from silence. An answer in wait mode
moves the schedule back to the playhead over sound already handed out; it is the
exception the property names for how often a note sounds, and none for where the sound
may be (`SoundNear`). `TargetsCounted` says that the targets of the
passage are partitioned into open, missed and played ones, and that the counts are the
sizes of these sets; a late answer moves a target from one set to another.

### The worker's loop and the engraving

The probe judges a file by its age, so what is inductive is that the loop has not
been silent for longer than the file is old (`FileFits`); which status is published
where (`StatusFits`, `RunningFits`) shows that every status the probe accepts is
written by a loop that has just got somewhere.

A page is identified by the number of its session, and the engraving worker forgets
its numbers when it is replaced. `SessionInv` says that whoever holds a number of the
present worker, a session of the page, a queued request or an answer on its way, holds
it for the score that number stands for; `PastInv` that numbers and workers are never
named before they exist, so that a new session or worker cannot meet an old message
it fits.

### The parts together

`MCWeb` runs five components that share no state. `PartsOfWeb` proves that its
behaviours are behaviours of each of them, with the others at rest, so that the
theorems about a component hold of the instance; `WebTyped` proves its type invariant
from the five inductive invariants (`WebInv`).

Only model-checked: the liveness properties `PendingIsResolved`, `JobSettles`,
`HiddenIsSettled` and `WaitsEnd` (fairness is out of the prover's reach). Every
invariant and every action property of a passing run, and all four refinements, are
theorems. Four type invariants (`ReaderTypeOK`, `TimersTypeOK`, and `TypeOK` of
`Tombstone` and of `ImportJob`) are proved and no longer run: the proof covers every
instance.

## 6. Disagreements with the documentation

Each is a run with one property that TLC violates; `PROJECT.json` quotes the
lines.

- `roll_back_killed`: a reconciler that is killed after it removed the stage of a
  roll back and before it removed the journal leaves a journal whose token is in
  neither tree. The base is intact, yet every later reconciliation calls it
  ambiguous. The failure model promises that explicit reconciliation discards the
  stage.
- `delete_replayed`: the command-line reconciler completes a deletion without
  the source clean-up, so uploads and transcriptions remain, where the comment of
  `commitCatalogDeletion` says the clean-up survives a crash.
- `read_rows`: `withStablePublication` looks for a journal before it reads the
  first revision. A publication that replaces the base, begins and swaps in between,
  and commits after the rows were read, gives the caller the rows of the old
  publication with the revision of the new one; a base that has no rows at the lookup
  is answered null and is not concerned. The files of the answer always match
  (`FilesMatchRevision`); the rows do unless a journal is pending when that revision
  is read (`RowsAreOfRevision`).
- `stale_owner`: `requeueOrphaned` reads the journals before its transaction. A
  worker whose lease lapsed can journal and install in between; the job is
  requeued and may be deleted, and then no reconciliation can commit. With leases
  that never run out under a live owner and journals read in time this cannot happen
  (`JournalsCommittable`).
- `stale_hit`: `visibleSongRowsSnapshot` repeats its reads once when something
  changed around them, but stores the second rows under signatures taken after
  them without comparing again. A commit of another process in between leaves old
  rows under current signatures, and they are served until something else changes,
  where the comment says another process cannot leave the cache stale.

## 7. Not modelled, and why

- Bundles and semantic validation of a stage are pure checks; their outcome is
  `WriteTree` or `FailStage`.
- The renames of an upload are one step in `Publication` (`CommitSource`) and one by
  one in `UploadMove`, which in turn reduces the trees.
- Which uploads and transcriptions a base owns, the budget over all bases and the
  validation of a record (`tombstone.ts`): inventory and bounds; `Tombstone` takes
  the paths as given and the budget as a choice. Maintenance scripts that write
  rows without the lock between `plan` and the record are operated with the
  service stopped and left out.
- What a metadata update computes, the evidence a harmony candidate is admitted by, whether
  a repeated harmony request names the candidate, receipts and statement that are bound,
  and the choice of parts of an upload are data; their outcome is an input.
- Two web processes can overwrite each other's outcome of one handoff, and a file
  that fails to replace an accepted one leaves the handoff rejected; an upload
  answered from an existing receipt never accepts one. The model has all of this;
  no document says which outcome should win, so no property speaks of it.
- In `Transport`, answers in wait mode move the schedule back over sound already
  handed out; how often a note then sounds is not promised, and `AttacksExact` says
  only where the schedule may stand. Targets are a set, so two that agree in onset
  and pitch are one. The grading of releases, the preview
  and practice runs without a passage, which the player does not start, are left out.
- Transcription, arrangement, research tooling, deployment and presentation are
  numeric algorithms over audio and notes, external programs, reports over fixtures
  and scripts that run while writes are stopped. They are most of the lines of the
  repository, and hold no state that several actors share.
- Practice and owner state in the browser (`practice-store.ts`, `owner-state.ts`) are
  read and written at once by one page; the merge rules are pure.

## 8. Plan

1. An abstract specification, with its refinement, for `SourceHandoff`: what a client
   may conclude from a handoff it has read.
2. The restore of owner state, whose writes to the browser's storage fail one by one.
3. What a request without a revision may be told: in `StableRead` it can mix two
   publications, and the code would have to say what it promises there.
