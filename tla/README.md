# Verification of YuwenDesk

TLA+ models, TLC runs and TLAPS proofs for YuwenDesk, the Electron desktop
application for Chinese-language teachers in this repository: its main process,
the pages that keep state between two calls, and the scripts that put a release
together. Unless a path names another directory it is relative to
`apps/desktop/src/main/`; `scripts/` is the directory at the root.

1. [Inventory](#1-inventory)
2. [Modules and how they correspond to the code](#2-modules)
3. [Runs, bounds and fairness](#3-runs)
4. [Theorems](#4-theorems)
5. [Observed while modelling](#5-observed)
6. [What is not modelled](#6-not-modelled)
7. [Plan](#7-plan)

## 1. Inventory

The main process owns every state that survives: one SQLite database
(`yuwendesk.db`, opened by `db/sqliteStore.ts`), one directory of published
materials, backups, the journals of migrations and restores, staged updates and
encrypted credentials. The renderer reaches it through a fixed set of IPC
channels (`ipc.ts`, validated by `schemaGate.ts`). A single-instance lock keeps
one main process. `better-sqlite3` is synchronous, so a transaction is atomic
and code without an `await` cannot be interleaved; concurrency is what happens
at the `await`s of overlapping handlers, in timers, between the operating
system's calls when the process ends, and in other programs that touch the data
directory.

| Part | State | Operations | Hard behaviours | What makes it correct |
|---|---|---|---|---|
| Launch (`index.ts`) | installed build, protection reason | restore, then migrate, then open | a crash anywhere, at every launch | a build that accepts writes serves the whole data |
| Schema migration (`update/migration.ts`, `update/journal.ts`) | journal, lock, five directories per job | run, reconcile, rollbackSwitch | crash between two renames, undo that fails, another program, change of build | every crash point can be reconciled; nothing is dropped |
| Restore (`protection/restore.ts`, `protection/service.ts`) | marker, stage, rollback and failed directories, tokens | preview, confirm, switch before open, undo | crash or failure between seven renames, interference | never a mixture of data sets; an undo is exact |
| Model calls (`model/service.ts`, `model/providers.ts`) | `model_job`, `model_config`, in-flight map, cancel signals | run, attribution, cancel, configure | timeout against answer, retry of a charged call, a reported cost that nothing bounds, cancel, restart, purge | reservations cover the open attempts at their estimate; spending passes the cap only with a cost reported above its reservation; a purged source leaves no job |
| Preparation (`preparation/`) | session, context, sources, plans, replays | context, sources, build, review, confirm, export | a build or export that waits while everything changes | what is exported was reviewed and fits its inputs |
| Presentation (`presentation/`) | map of windows | open, close | the session is exported again or redacted meanwhile | the class sees a plan that was reviewed and published |
| Changes and materials (`change/`, `materials/`, `ipc.ts`) | revisions, bundles and their directories, keys | preview, apply, generate, history | overlapping changes, repeated keys, files before rows | no lost change, one bundle per key, rows and files agree |
| Rules of a change (`change/change.ts`, `lesson/build.ts`, `review/`) | none | pure functions | proportions, minimums, remainders, a change of a change | schedules add up, nothing essential is cut |
| Source privacy (`db/sqliteStore.ts`, `protection/sourcePrivacy.ts`) | sources, quarantine, tombstones, deletion workflow, grants | reclassify, prepare and confirm a deletion, resume | crash between files and rows, backups that still hold the source | purged data never returns; the workflow ends |
| Backups (`protection/backup.ts` and formats) | backup directories, daily coordinator | create, rotate, delete, find a source in them | overlap of operations, crash before rename, repeated failure | the last complete backup is never lost |
| Maintenance idempotency (`protection/service.ts`) | maps in memory and `maintenance_idempotency` | once | crash between reservation and result, automatic backups in between | an operation happens at most once per key |
| Draft and close (`lifecycle.ts`, `../renderer/draftController.ts`) | draft row, idempotency keys, handshake, dialogs | save, load, resolve a conflict, close | edit during a save, late answer, lost answer, watchdog | no text is lost silently |
| Feedback (`feedback/`, its page in `../renderer/App.tsx`) | events, observations, tombstones, stream revision, proposals | record, delete, analyse, decide, revert | observations deleted while the model analyses, a page of another plan | a decision rests on observations that are there |
| Update staging (`update/service.ts` and formats) | ledger, partial and ready directories, tokens | inspect, stage, withdraw | two calls at once, removals that fail, crash between rename and ledger | who is told that a package is staged finds it |
| Release scripts (`scripts/`) | `reports/release`, runs, journals, the tree | build, acceptance, evidence, SBOM, verify | crash between renames, files that change while they are described | what verifies is one release |
| Sources (`sources/`) | documents, versions, text, search index | import, version, retire | parsing in a worker, cancellation | versions are exact and traceable |
| Secrets, diagnostics, schema gate, JSON store | little or none | read, encrypt, format, validate | - | outside the models |

Interactions. `index.ts` applies a pending restore, runs the migration and opens
the store, in this order and before any window exists. Preparation calls the
model service, saves plans and registers bundles; a change publishes further
revisions and makes the exported session follow. The privacy operations cut
across everything: one transaction protects or deletes a source, redacts the
plans that quote it, removes their bundles, artefacts and stored results, and
deletes the model jobs that carry its excerpts; the files go through a
quarantine around that transaction. Every successful write may start the daily
backup. The window asks its page to save before it closes. The release scripts
run outside the application and share only files.

## 2. Modules

| Module | Code | Role |
|---|---|---|
| `DatabaseMigration` | `update/migration.ts`, `update/journal.ts`, gate of `SqliteStore.load`, `bootstrap` | specification |
| `MigrationUnderExternalChange` | the same, hook `afterLockAcquired` | extends it with another program |
| `PendingRestore` | `protection/restore.ts`, `ProtectionService.restore`, `bootstrap`, `relaunch` | specification |
| `ModelCalls` | `model/service.ts`, `model/providers.ts`, `model_job` | specification |
| `Preparation` | `preparation/service.ts`, `stateMachine.ts`, its tables in `sqliteStore.ts` | specification |
| `Publication` | `change/service.ts`, `materials/publish.ts`, `changeApply` and `materialsGenerate` of `ipc.ts`, commits, quarantine and purge of `sqliteStore.ts` | specification |
| `LessonSchedule` | `change/change.ts`, the schedule rules of `lesson/build.ts` and `review/review.ts` | operators, instantiated by `Publication` |
| `ManagedBackups` | `createLocalUnlocked`, rotation and deletion in `protection/backup.ts`, `createSanitizedSnapshot` | specification of one backup at a time |
| `Maintenance` | `protection/service.ts`, `BackupCoordinator`, `maintenance_idempotency` | extends `ManagedBackups` |
| `SourceDeletion` | `protection/sourcePrivacy.ts`, `deleteSourcePermanently` and its workflow in `sqliteStore.ts`, `index.ts`, `ipc.ts` | extends `ManagedBackups` |
| `DraftClosing` | `lifecycle.ts`, `../renderer/draftController.ts`, `commitDraftSave` | specification |
| `Feedback` | `feedback/`, its tables in `sqliteStore.ts`, handlers of `ipc.ts`, its page in `../renderer/App.tsx` | specification |
| `Updates` | `update/service.ts` | specification |
| `PublishedSet` | | abstract: a set of files that switches at once |
| `ReleaseSet` | `scripts/` | specification, implements `PublishedSet` |
| `PageProofs` | | theorems about `Feedback` and `DraftClosing` |
| `ReleaseProofs` | | theorems about `ReleaseSet` and `Updates` |
| `BackupProofs` | | theorems about `Maintenance` and `SourceDeletion`, over what holds of `ManagedBackups` under both |
| other `...Proofs` | | theorems about the module they are named after |
| `MC...` | | constants and symmetry for TLC |

Operators named `...Loosely`, `...Late`, `...Blindly` and the like, under a
comment that begins with "Mutant", are plausible mistakes in the definition they
stand before. Nothing uses them; `PROJECT.json` says which property each one
must break when it takes the definition's place.

### DatabaseMigration

A database file is a record of what the coordinator can tell apart: schema,
data generation, the job that produced it, soundness, and the number of the last
business write it holds. Equality of SHA-256 is equality of this record. `files`
holds the five directories of every job, `journal` and `lock` the two files
beside the database. `at` is the program counter of one process that goes
through `bootstrap`; every `await` of `run`, `reconcile`, `rollbackSwitch`,
`preserveFailedDatabase` and `createRecoveryPoint` is an action of its own, named
after what the code does there (`MoveOriginal`, `WriteOriginalMoved`, ...). The
failure actions (`AttemptFails`, `SwitchFails`, `UndoFails`, ...) take the `catch`
clause that really surrounds each step. `Crash` keeps `disk` and resets memory.
`InstallVersion` lets the user change the build while the application is closed.

`MigrationUnderExternalChange` adds one action: the file is replaced or removed
by another program between launches, under the lock, or before it is hashed
again.

### PendingRestore

A component of the data directory is modelled by the data set it belongs to.
`Components` are the seven entries of `components` in
`applyPendingRestoreBeforeOpen`, moved in the order of `Position`. The actions
follow the function from the marker to its removal, then its `catch` clause:
`CheckSplit`, `MoveBack`, `CheckMovedBack` for an old data set that was not
completely moved, `CheckUndo`, `PreserveCandidate`, `RestoreOld`,
`CheckRestored` for one that was. The service's part is `Preview`,
`RequestConfirmation`, `ExpireToken`, `Confirm` and the two steps of writing the
marker; `Stageable` says what `preparePortableRestore` accepts. `DamageStage` and `Tamper` are other programs.

### ModelCalls

`row` is the budget side of `model_job`, `call` the memory of one `execute`.
`Run` is the synchronous stretch from the request to the first dispatch; after
it a call waits for the provider (`Answer`, `ProviderFails`, `Timeout`) or for
the back-off (`Retry`). `Cancel` only raises the signal, as in the code;
the steps that look at it come later. `billed` is history: how many attempts the
provider may have billed. What it bills is not limited by the estimate of an attempt
(characters divided by four, `model/service.ts:242`): a result is settled at the
cost it reports (`Reported`), or at the reservation when it reports none
(lines 283, 290, 296). Providers are external; which failures may come after a charge is read
from `providers.ts` (`HttpError`, `StreamErrors`, `ProviderErrors`).

### Preparation

One session, its context, two source versions of which one is selected, every
plan and bundle ever saved, and `maintenance_idempotency` per key. `Build`
either completes synchronously (`local_authored`) or waits (`AskModel`), and
`ModelAnswers` or `HandlerFails` continue with what the handler read before;
`Export` waits for its files in the same way. The reclassification, deletion,
retirement and replacement of a source and a change of the context are actions
of the environment with the whole effect of their transaction. `Restart` applies
`reconcileInterruptedPreparationSessions`. `MayPresent` is what
`PresentationService.open` asks of the session, its plan, its report and its
bundle before the classroom window shows anything.

### Publication

One plan that quotes one source, as it is after its first export. `plan` is the
chain of revisions, `bundle` every bundle ever started with its row and where
its directory is, `replays` is `lesson_change_idempotency`. A revision holds its
schedule: `MakesRevision`, `Revision` and `Passes` apply the operators of
`LessonSchedule` (`FitSchedule`, `AddIndependentTime`, `Repack`) and the checks of
the review to it, so that a change of a change is computed and not assumed. A handler builds,
stages, promotes, and commits or cleans up; each of these is a step at an
`await`. A privacy operation writes its quarantine rows, moves every directory,
runs the transaction, and restores or removes, one file operation per step with
a crash or a failing call in between, but no handler runs meanwhile because the
code has no `await` there (`Running`). `strayed` records that a move back out of
quarantine failed, `Deletions` tells deletions from reclassifications: a
version that the session selects cannot be deleted, because
`preparation_source` refers to it (`MayDelete`).

### ManagedBackups

A backup is a directory with a state (`partial` while it is made, `ready` when
the rename has published it, `broken` when a removal got half through), the
sources and bundles that its snapshot registers, the bundles whose files it
holds, and the week it is the weekly one of. `older` gives for every complete
backup those that were complete before it: the order of `createdAt` in `list`,
in which rotation counts (`Newer`, `Newest`). `making` is the memory of one `createLocalUnlocked`; `exclusive` is
`lock`. The snapshot, the listing of the materials, the copying, the rename, the
choice of what rotation removes and each removal are steps, with the failing
call (`CreateFails`, `VanishFails`) or `Crash` in between. `DeleteManaged` is the
user's own deletion, which does not wait for the lock. A privacy operation may
take a bundle back at any instant (`TakeBack`).

### SourceDeletion

`grant` holds the confirmations, `work` what one `delete` or the resumption at
launch holds in memory, `tombstone` the row and its workflow, `result` the row of
`maintenance_idempotency`. `Delete` is the check before the lock is awaited;
under the lock `ScopeHolds` compares what the dialog named with what exists now,
and `DeleteDocument`, `Replay` or `Refuse` follows; then `RemoveScoped` one
backup at a time, the restore point (`FindPost`, `StartPost`, the steps of
`ManagedBackups`, `EndPost`), and `Record` after a second look that may fail.
`Continued` is the same place in `delete` and in `reconcilePending`. A launch
resumes the pending workflows one by one (`Resume`) before it opens; one that
cannot be recorded ends the launch (`LaunchFails`).

The restore point is named by a hash of the deletion's key, which the user
interface draws once per source and revision. The model names it after the
source; a changed revision is one of the reasons of `Refuse`.

### Maintenance

`row` is `maintenance_idempotency` and `flight` the map of calls under way. A
request either finds its key (`ReplayCreate`, or a refusal) or reserves it
(`AskCreate`), waits for the lock, makes the backup with the steps of
`ManagedBackups`, and saves its result, which may fail (`Settle`). A deletion
needs a token (`GrantDelete`, `AskDelete`) and is done without the lock, as in the
code. `auto` is the coordinator: `NoteWrite` after a write, `AutoList` looks
whether today has a backup, then it waits for the lock like everyone else.
`failures` is the durable counter after which it gives up. `acted`, `confirmed`
and `streak` are history.

### DraftClosing

`page` is `DraftController`, `main` is `CloseController` with its dialogs, `store`
the draft row and `ledger` the keys of its saves. `toMain` and `toPage` carry the
messages in order. `runs` are the calls of `save` that wait in `drain`; `at` says
where the first of them is, at one of the two `await`s of its loop. `OnClose`
arms the watchdog and sends the request; `OnFlushResult`, `OnTimeout` and
`ConfirmForceQuit` are the three ways it can end. `closed` tells whether a window closed
after asking, or without asking with a text that was saved or dropped.

### Feedback

A stream per plan with its revision; teaching events, observations, proposals
and decisions are numbered. `screen`, `request` and `ref` are the page: what it
shows, what each of its handlers awaits, and the reference by which it drops the
answer of an old analysis. A handler that sent a request under one plan may
receive its answer when another plan is open (`OpenPlan`, `Answered`, `Load`).
`AnalyzeInternal` begins an analysis on what is there, `ModelAnswers` ends it
after anything may have been written. Deleted observations leave a tombstone.

### Updates

A release has two directories, `partial` and `ready`, each with an installer, a
manifest and a record that may be of different packages. A call goes through
`ReadLedger`, `Replay` or `Reserved`, `InspectAgain`, `Existing`, `ClearPartial`,
`MakePartial`, `CopyPackage`, `Describe`, `Readback`, `PublishRelease`, `Confirm`,
`Persist`, or from any of them through `FileFails` to `CleanUp`, or after the rename
to `CleanUpAfterRename` and `TakeBackRelease`; each is a step at an `await` and two
calls interleave. A repeated key goes through `Replay`, which looks for the release
of its entry, to `AnswerReplay`. Every removal may fail and leave any part of the
directory (`Remains`, `Leaving`): the code goes on (lines 351, 352, 361), except where
it makes room for a new directory (line 335). `Persist` writes a ledger that was
computed from what was read at the start. `withdrawn` and `left` are history: that a
release was removed between the reading and the answer of a call, and which final
directories a removal or the end of the process has left behind.

### ReleaseSet and PublishedSet

`target` holds the files of `reports/release` by the execution that wrote them
and by what they quote, `backup` and `journal` the remains of each script's
transaction, `proc` the script that runs. A script recovers its own journal,
reads, computes (`PublishRun`, `Aggregation`, `SupplyChain`), prepares a journal,
moves the old files aside and the new ones in, checks the result while it can
still go back (`Accepted`) and commits. `VerifyCode` is the exit code of
`release-verify.mjs`: 0 ready, 2 whole but not ready, 1 invalid. `View` is the
set that recovery would give; under `set <- View` every step is a switch of one
script's group or a stutter of `PublishedSet`. `mixed` says that two scripts'
transactions overlapped, where the promise is void. Files that are always
written together and read alike are one file.

## 3. Runs

| Run | Question | Bounds |
|---|---|---|
| `migration` | Between two builds, can a crash or failing call lose, hide or damage a write, or lock the application for ever? | 2 builds, 3 jobs, 2 faults, 2 writes |
| `migration_external_change` | The same under another program: is anything overwritten, created over evidence, or journaled as restored that was not? | 4 jobs, 3 faults, 1 write |
| `restore` | Can two successive restores leave a mixture, an inexact undo, a dropped file, a stale marker, or an application that never starts? | 2 jobs, 3 patterns of components, 2 faults, 1 interfering program |
| `calls` | Do reservations, cap, cancellation, sharing and purge hold for two overlapping calls, and does every call end? | 2 calls, 2 requests, 1 source, 1 retry, 1 fault, caps none and 3, an estimate of 1, reported costs 0, 1 and 3 |
| `preparation` | Can a handler land on a session it did not read, or an unreviewed plan be exported or shown to a class? | 2 handlers, 2 keys, 2 sources, 2 plans and bundles, 1 restart, 1 fault |
| `publication` | Do overlapping changes and exports, repeated keys, crashes, failing writes and privacy operations keep plan, schedule, rows, files and session in agreement? | 3 activities, 3 changes, 2 handlers, 2 keys, 3 bundles, 1 reclassification, 1 deletion, 1 fault, 1 restart, 2 failures |
| `maintenance` | Can requests, automatic backups, failures, crashes, rotation and the user's own deletions lose the last complete backup, act twice under a key, or leave the lock taken? | 2 keys, 2 backups, 2 weeks, 1 bundle, `KeepDaily` 1, `KeepWeekly` 1, 1 deletion, 1 replay, 1 fault, 1 crash, `GiveUp` 1 |
| `deletion` | Can backups made meanwhile, failures, crashes and repetitions delete what was not confirmed, misreport what is left, leave no restore point, or keep a workflow from ending? | 2 sources, both policies, 1 request at a time, 1 ordinary backup, 1 fault, 1 crash |
| `draft` | Can a window close without asking and lose text, or a save overwrite what the page was never given? | 2 texts, 2 edits, 1 save, 1 load, 2 closes, 1 other client, 1 fault |
| `feedback` | Does everything recorded stay with its plan and rest on what is there, although the page changes plans and observations are deleted? | 2 plans, 2 events (1 per plan), 2 observations of 2 qualities, 1 analysis, 1 other request at a time, 1 crash |
| `updates` | Is what a caller was told about a staged package true, with two calls at once? | 2 packages of 1 release, 3 keys, 2 calls at once of 3, 2 inspections, 2 faults (a removal that fails, a restart), a ledger of 2 |
| `release` | Is what `release:verify` accepts one release, and does a single round of scripts reach it? | 1 build, 2 commits, 2 runs, 3 executions, 1 change, 2 failures, an automated and an external case |

Why these bounds are enough for the question. Two faults are the shortest way to
the interesting cases of the journals: the first interrupts a switch, the second
interrupts its undo; a third meets states that two already reach, since a launch
depends only on the disk. Two builds and three jobs give a migration, a failed
one and its repetition. Two handlers and two keys give every overlap, a repeated
key and a foreign key; three bundles are the first one, its successor and a
competitor. One retry is enough to have an attempt before the last one
(`MAX_RETRIES` is 2 in the code). `MaxFailures` is 3 in the code and 2 in the
run: every failure but the last behaves alike. One fault in `publication` is enough
for a move back out of quarantine that fails, since the deletion of a selected
source fails by itself and has to be undone. Rotation keeps 7 and 4 in the
code and 1 and 1 in the run, so that two backups are enough to have one that
must go; the automatic backups give up after 3 failures in the code and 1 in the
run, which is the smallest number that a restart could forget. Two sources and
one ordinary backup give a restore point of one source that still holds the
other, and a launch with two workflows to resume; the user's own deletion of a
backup is left to `maintenance`. The user interface has one deletion under way
at a time. Two closes are a request and one that comes while the dialog of the
first is open. Two plans are the one that is open and the one whose answer
arrives late. A ledger of two entries, for three keys, holds two beside each other
and loses one with the third; all packages are of one release, since calls of two
releases share nothing but the ledger; of two removals that fail, or of one and a
restart, the second meets what the first has left. A reported cost of 3 is above
the reservation of 2. Three executions are an acceptance run, its evidence and its
supply chain, in any order and repeated.

The activities of the lesson in `publication` are one of each priority, and the
unit is a minute (`Least` is 60 s and `Shortest` 300 s in the code; 2 and 3 in the
run, so that a change of the result of a change can fail). `MCPublication` states in
two ASSUMEs, which TLC evaluates, that `FitSchedule` and `AddIndependentTime` give
what `IsFit` and `HasMoreTime` describe for every schedule of up to three
activities; `FitIsFit` and `MoreTimeIsMoreTime` prove it for all.

Session revisions, contexts, plans and bundles are bounded in guards of the
actions that create them, by the constants named `Max...`; reads and completions
are not cut off. In `release` the user acts when no script moves files: those
steps read nothing of the repository.

Symmetry is used for jobs, keys, handlers, calls, plans and sources in runs
without liveness properties only. Deadlock is checked in the runs of migration,
restore, model calls, deletion and feedback; in the others the models really
stop when their bounds are used up or the window is closed, so their
configurations say `CHECK_DEADLOCK FALSE`.

Fairness. `DatabaseMigration`: the process goes on (weak fairness of the steps
of startup) and the user quits and starts the application again; crashes and failures have
no fairness, and are finite because of `MaxFaults`. `PendingRestore`: the same.
`ModelCalls`: the timers of the event loop fire (`setTimeout` of the call's
timeout and of the back-off), nothing is assumed of the provider or of the user.
`Maintenance`: the steps of a backup that has begun are taken. `SourceDeletion`:
so are those of a request and of a launch, and a user who again and again has no
request under way quits at last and starts again (strong fairness, since further
requests may come in between). `DraftClosing`: the watchdog's timer fires and the
user answers a dialog; nothing is assumed of the page, which may hang.
`Preparation`, `Publication`, `Feedback`, `Updates` and `ReleaseSet` are checked for
safety only and assume nothing.

What the properties say:

- `ServesLatest`, `EveryCrashPointReconciles`, `KeepsTheWayBack`,
  `EvidenceIsOnlyMoved`, `EventuallyServes`: no accepted write is lost or hidden
  by a migration, the files a reconciliation needs exist at every instant, a
  completed migration keeps its original and a build never serves over a lock
  that no journal explains, nothing but SQLite's own writes drops or alters a
  copy, and relaunching ends in a writable application except in three refusals
  that the design wants (`LockedOut`, `NewerOnDisk`, `SourceReplaced`).
- `ForeignEvidenceIsOnlyMoved`, `EvidenceDecides`: the same towards files that
  came from outside, and a database is created or a rollback journaled only when
  the evidence on disk says so.
- `RestoreConsistent`, `SwitchIsExact`, `EventuallyRuns`: a restore happens
  completely or not at all, and both data sets survive.
- `CallsConsistent` (the attempts of a call under way, those that may have been
  billed and those that may come, are reserved at their estimate; one request runs
  once; a purged source leaves no job), `SpendingFollowsTheCap`, `CancelIsFinal`,
  `EveryCallEnds`. The reservation is not a bound of what is billed, and no property
  says so: spending grows past the cap only when a call is settled at a reported
  cost above its reservation, and what is settled never changes.
- `SessionConsistent` (a plan fits the selection it was made of, a transient
  state has a handler, the classroom is shown what was reviewed and published),
  `PublishedIsReviewed`, `RetryStartsNothing`.
- `PublicationConsistent` (the history is linear, every revision keeps the rules
  of a lesson, a key publishes once, the session follows the plan),
  `FilesFollowRows`, `OutcomeIsFinal`. `FilesFollowRows` assumes that every move
  back out of quarantine succeeded (`~strayed`). That the session follows is stated
  without a crash and failing write, because it happens in a second transaction.
- `MaintenanceConsistent` (one owner of the lock, one effect per key, automatic
  backups give up), `OnlyOldBackupsVanish`, `LockIsReleased`: but for the user's
  own deletions a backup goes only when enough newer ones exist, and every
  attempt ends.
- `DeletionConsistent`, `WorkflowReportsTruth`, `WorkflowEnds`: a source goes only
  under a confirmation that named every managed backup that holds it; what the
  tombstone calls deleted or complete is true of the disk; a deletion of backups
  leaves a complete one; and every workflow ends when failures stop, with one
  exception: the directory of its own restore point exists and is damaged.
- `DraftConsistent`, `CloseKeepsText`, `NoBlindOverwrite`, `EveryCloseIsAnswered`: a
  window that closes without asking had saved what its page showed when it
  answered; the text of another client is replaced only by a page that was given
  its revision; and a request to close ends even if the page hangs.
- `FeedbackConsistent`, `WritesAdvanceTheStream`, `EvidenceIsKept`: everything
  recorded belongs to one plan and its history can be read again; whatever
  changes a stream advances its revision; a proposal appears and is decided on
  only while what it rests on is there.
- `UpdatesConsistent`, `AnswersAreTrue`: the ledger holds no key twice; calls that
  clear, fill and rename one another's directories leave no ruin under a final name,
  only a removal that failed or the end of the process does; and a caller is told
  "staged", the first time or for a repeated key, only of a package that is there, or
  was when it was read, until its publisher withdrew it.
- `ReleaseConsistent`, `VerdictIsTrue`, `SingleRoundConverges`, `SetsSwitchAtOnce`:
  the files are where the journals say; what verifies is of one execution and one
  installer, and a refusal is explained; one `release:sbom` is enough although it
  describes files that it changes; and the scripts implement `PublishedSet`.

## 4. Theorems

Eight modules hold proofs. Their theorems are about the specifications that the
runs check, for every value of the constants; they use the named assumptions
that stand beside the constants and no others: a bound is a natural number, a
value that stands for "nothing" is not one of the values it is added to, and
what a set of the constants must contain for the code to work at all (a
directory with files has a database, schemas are numbers, the external inputs
include those a gate asks for, an external case passed or failed:
`g11-acceptance.mjs:312`; the activities of a lesson have different ids and a
length: `lesson/build.ts:176`, `preparation/modelSpec.ts:129`; a change counts in
whole seconds: `change/change.ts:109`). TLC evaluates each of
them in the runs.

| Theorem | States | Inductive invariant |
|---|---|---|
| `DatabaseMigrationProofs`: `TypeCorrect` | `Spec => []TypeOK` | `IInv` |
| `ServingLatest` | `Spec => []ServesLatest` | `IInv` |
| `CrashPointsReconcile` | `Spec => []EveryCrashPointReconciles` | `IInv` |
| `WayBackIsKept` | `Spec => []KeepsTheWayBack` | `WInv` |
| `EvidenceStaysSomewhere` | `Spec => EvidenceIsOnlyMoved` | `WInv` |
| `ForeignEvidenceStays` | `ExternalSpec => ForeignEvidenceIsOnlyMoved` | `ExternalInv` |
| `DiskDecides` | `ExternalSpec => EvidenceDecides` | `ExternalInv` |
| `PendingRestoreProofs`: `OpensWholeDirectories` | `Spec => []RestoreConsistent` | `Inv` |
| `SwitchEndsExactly` | `Spec => SwitchIsExact` | `Inv` |
| `ModelCallsProofs`: `JobsStayConsistent` | `Spec => []CallsConsistent` | `IInv` |
| `CancellationIsFinal` | `Spec => CancelIsFinal` | `IInv` |
| `SpendingIsReservedFirst` | `Spec => SpendingFollowsTheCap` | `BudgetInv` |
| `PreparationProofs`: `SessionStaysConsistent` | `Spec => []SessionConsistent` | `Inv` |
| `PublishedWasReviewed` | `Spec => []PublishedIsReviewed` | `Inv` |
| `RetriesStartNothing` | `Spec => RetryStartsNothing` | `Inv` |
| `PublicationProofs`: `FilesAlwaysFollowRows` | `Spec => []FilesFollowRows` | `Inv` |
| `OutcomesAreFinal` | `Spec => OutcomeIsFinal` | `Inv` |
| `HistoryIsReviewed` | `Spec => [](HistoryIsLinear /\ RevisionsAreChecked)` | `Inv` |
| `KeysPublishOnce` | `Spec => []KeyPublishesOnce` | `Inv` |
| `SessionAlwaysFollows` | `Spec => []SessionFollowsPlan` | `Inv` |
| `PublicationIsConsistent` | `Spec => []PublicationConsistent` | `Inv /\ RevisionsFit` |
| `TypesHold` | `Spec => []TypeOK` | `Inv` |
| `PageProofs`: `HistoryStaysReadable` | `Spec => []FeedbackConsistent` | `Inv` |
| `RevisionTellsContents` | `Spec => WritesAdvanceTheStream` | `Inv` |
| `ProposalsKeepTheirGrounds` | `Spec => EvidenceIsKept` | `Inv` |
| `DraftStaysConsistent` | `DraftSpec => []DraftConsistent` | `DraftInv` |
| `ClosingKeepsTheText` | `DraftSpec => []CloseKeepsText` | `DraftInv` |
| `NothingOverwrittenBlindly` | `DraftSpec => NoBlindOverwrite` | `DraftInv` |
| `BackupProofs`: `LockAndKeysAreConsistent` | `MaintenanceSpec => []MaintenanceConsistent` | `MaintenanceInv` |
| `OldBackupsVanishOnly` | `MaintenanceSpec => OnlyOldBackupsVanish` | `MaintenanceInv` |
| `WorkflowsTellTheTruth` | `DeletionSpec => []WorkflowReportsTruth` | `Inv` |
| `ScopesCoverBackups` | `DeletionSpec => []ScopeCoversBackups` | `Inv` |
| `DeletedStaysDeleted` | `DeletionSpec => []GoneIsGone` | `Inv` |
| `ScopeAndRestorePoint` | `DeletionSpec => []DeletionConsistent` | `Inv /\ PointInv` |
| `ReleaseProofs`: `SetsAreSwitched` | `Spec => SetsSwitchAtOnce` | `Shape` |
| `FilesAreWhereJournalsSay` | `Spec => []ReleaseConsistent` | `Transactional /\ Quotes` |
| `VerdictIsAlwaysTrue` | `Spec => []VerdictIsTrue` | `Accepting` |
| `OneRoundConverges` | `Spec => []SingleRoundConverges` | `Accepting` |
| `StagingIsConsistent` | `UpdatesSpec => []UpdatesConsistent` | `StagingInv` |
| `StagedIsThere` | `UpdatesSpec => AnswersAreTrue` | `StagingInv` |

Each proof has one step per action; lemmas say what a helper of the model does
to the variables, so that a step is about the code and not about `EXCEPT`.

**Migration.** `IInv == TypeOK /\ DiskInv /\ ProcessInv`. `DiskInv` is
what a crash leaves: an installed database is sound and holds the last write, a
missing one is explained by an unfinished journal, undrawn jobs have no files, a
verified candidate holds the last write too, and the crash point can be
reconciled. It is not inductive alone, because a rename is correct only thanks
to what the steps before it established: `ProcessInv` says for every value of
`at` where original and candidate are (`PositionHolds`), that the journal on disk
is the one in memory (`JournalIsOwn`), what the attempt has built so far
(`CandidateHolds`), and that a build serves or begins an attempt only when no
journal is unfinished (`SettledHolds`). The
lemmas `OneFileStep` and `TwoFilesStep` say what a rename does to the table of
directories, `TypeStep` and `InvStep` are the two halves of the induction.

That a completed migration leaves the original to return to needs more than
that no write is lost: `WInv == IInv /\ WayBack` adds that a migration is of an
older schema, so that the candidate is not its source (`SourceIsOlder`), that
what is switched in was verified to be of its job (`CandidateIsVerified`), that
the recovery point is there from the moment it was made (`RecoveryHolds`) and,
for a lock without a journal, that every way to a serving build is closed
(`LockIsExplained`). `EvidenceIsOnlyMoved` follows from `WInv` step by step: each
rename has an empty target, the last one because `PromotingFits` says that
`failed-candidate` is free when a `.partial` directory is promoted to it, and
`EvidenceMoves` turns this into a statement about all databases held anywhere.

When another program replaces the database between two looks at it, most of `IInv`
is false: the file need not hold the last write, nor be the candidate that was
installed. `ExternalInv` keeps what the coordinator established itself. From
`verifying_source` to `writing_candidate_ready`, and again after
`checking_original`, the file is the hashed source (`SeenPosition`); where a rename
follows, its target is free (`RenamesFindRoom`, the hypothesis under which
`EvidenceStep` is proved for both specifications); `fresh` is answered only over
a directory without a journal (`FreshHolds`), and without a journal nothing was
ever moved to a rollback directory (`RollbackIsJournaled`). `ReadsHold` is what both
invariants give `TypeStep`: the steps that read the journal in memory have one.
The proof breaks, as it should, if a change could come between the last hash and
the rename after it: the code cannot notice that one.

**Restore.** What the application opens is a matter of the last step only if
every step before it says where each component is. `PhaseFits` does, for every
value of `at`, including what another program may have taken or put there while
the old data were moved (`RestFits`); `SwitchFits` says that the switch is that of
the marker, so that the process may die anywhere and the next launch refuses;
`DirectoryFits` that a directory without an interrupted switch is whole. The
checks of the code are what carries it on: `CompleteIsOld` shows that what
`OldIsComplete` compares is enough to know the whole old directory, and
`CheckSplitInv` the same of `SplitIsProven`. `Keeps`, that nothing is dropped, is
shown for each rename from the place where it is known that the target is empty.

**Model calls.** A request is run once because the call that runs it is in the
in-flight map (`LiveIsInFlight`) and its job is "running" (`LiveIsRunning`); it is
paid once because a job that succeeded answers the next call (`PaidIsOver`). The
reservation covers the attempts one by one (`Price`, `FewerCostLess`), so that an
attempt under way, or a back-off before the next, has its estimate reserved. `Ends`
is the common shape of the ways a call ends.

How the spending may pass the cap is a statement about a sum over all jobs, a fold
with an order of its own. The lemmas from `SumIs` to `SumAdds` say what the
proof needs of it: the function that the fold computes exists (`SumsExist`, by the
size of the sets), any element may be the last (`AnyOrder`), larger terms make a
larger sum (`SumGrows`) and a new element adds its value (`SumAdds`). `BudgetInv`
adds to `IInv` that only finitely many jobs exist and that a call under way still
holds exactly its reservation; so no step makes a job dearer but `Run` and a
settlement above the reservation (`OnlyRunIsDearer`, `AnswerIsSettled`), `Run` adds one
reservation to a sum that has room for it (`RunSpends`), and a job that is settled
stays as it is (`SettledStays`).

**Preparation.** That a reviewed plan is what is exported needs the counterpart
of a revision check: what a handler or a key stored at the start agrees with the
session as long as the revision is the same (`StartFits`), and a transient state
has exactly the handler that started it (`TransientIsOwned`). Steps are of two
kinds, those that move the session (`Moves`) and those that do not (`Resting`);
`Capacity` is why a handler that waited still finds a number for its plan.

**Publication.** A bundle has its files because of what four operations do in
different orders, and one that fails half-way is repeated later. `Placed` says
where the files of every bundle are: those of a registered bundle are published,
or an unfinished privacy operation has moved them (`KeptFiles`, `MovedFiles`); those
of a bundle taken back are gone, or wait in quarantine for a removal that failed
(`PurgedFiles`); a row in `quarantine` belongs to an operation that was accepted
or has not ended (`RowsFit`). It holds as long as no move back has failed
(`FilesFit == ~strayed => Placed`), which is the premise of `FilesFollowRows`.
`HandlersFit` gives each waiting request a bundle of its own that no row shows yet,
`KeysFit` ties a registered bundle to the success its key stored; together they
exclude a second bundle of a key that is sent while the first request runs.
`PurgeFits` says that an operation counts as accepted exactly from its
transaction on, so that only then may rows lose their files. The review of a
change is shown where it is used: `HandlerFits` carries its verdict on the base the
request began with, and the transaction accepts a change only when this base is
still the last revision (`RevisionsAreChecked`).

That such a revision keeps the rules of a lesson (`RevisionsKeepTheRules`) is a
statement about `FitSchedule` and `AddIndependentTime` for every schedule, and
these are folds. Nothing recursive can be unfolded by the provers, so the proof
first follows a fold element by element: its recursion has a solution
(`FoldExists`, by induction over the indices as a well-founded order, `Upwards`),
hence the fold is the last value of a run along the sequence (`LengthenRuns`,
`KeepRuns`, `TakenRuns`, `PackedRuns`, `SumRuns`). Each pass then has an invariant
of its runs. `Lengthened` and `Kept` say that time and lengths always add up to the
target, what a compressible activity may have become, and that nothing optional
is kept once the time is gone; `Gave` says that what was taken is what is no longer
missing, and that nobody gives below the floor or before the time of those
before is used up; `Packs` that the activities follow one another without a gap
and that none is lost or doubled. `FitIsFit` and `MoreTimeIsMoreTime` put them
together, `CandidateIsMade` adds that the result is a schedule again, so that the
next change of the plan finds what it needs: `RevisionsFit` is this along the
history.

**Feedback.** `BasisLives` carries the proof: as long as the revision of a stream
is the one an analysis began with, the observations it rests on are alive. This
is true only because every write advances the revision, which is the second
theorem, proved on the classification of the steps by what they do to the tables
(`Written`, `AnalysisEnded`, `Resting`).

**Draft.** Page and main process know each other only by messages, so the
invariant is about what is under way. `OneWaits`: the run of `save` waits exactly
while one message that it sent or is owed is in one of the two queues. `MessagesFit`
says of every message what its sender did and what its receiver will find, for
example that a `done` that reports a saved text was sent after the row had it
(`LastIsKept`, by the key under which it was applied). `RevisionsKnown` is why
nothing is overwritten blindly: a revision that the page has, or that is on its
way to it or back, is never that of another client's text it was not given.
`Undisturbed` adds that without other clients and lost answers the page is told
of the revision of the row by the last message on its way, which is why it does
not conflict then.

**Backups.** `BackupInv` holds under both components that use the backups.
`MakerFits` follows the one that is being made: in its `.partial` directory until
it is published, from then on the newest and there, unless the user deletes
backups. `RotationFits` is what rotation decided, kept true while it removes one
backup after the other: of those that are newer than one to go, enough are not to
go themselves (`Surviving`). It holds at the decision because the newest `n` of any
set are counted among themselves: who is not one of them has `n` of them before
it (`NewestAreNewer`, by well-founded induction on the newest that is not kept).
`Drops` and `ReadyStays` are the two things a step can do to the complete backups,
short of publishing one.

**Maintenance.** `OneMaker` ties the lock to the one call, or the coordinator,
that is at "making"; `KeyFits` says that a key in flight is reserved and has not
acted, so that an effect and its record are counted once, whatever the process
forgets (`MaintenanceCrash` keeps the rows). `FailuresFit` is why automatic backups
stop: an attempt begins below the limit, and a failure is counted unless its
record was lost.

**Deletion.** The first three theorems rest on one fact about every step of every
process: a backup that is there afterwards was there before with the same
sources, or holds only what the database still holds (`Shrinks`). The step that
could break it is a publication, so `MakingFits` follows the backup under way: it
is in its `.partial` directory, made by the holder of the lock, and its snapshot
is of sources that are still held, because a deletion needs the same lock. What a
worker has removed but not yet recorded is true of the disk as well (`Claims`),
which is what makes the record true that is written later, by this process or,
after a crash, by the next.

That a restore point remains (`LeavesARestorePoint`) is about times when none is
there: `PointOwed` says that then some workflow still owes one (`Owing`). It is not
inductive, because of the requests that repeat a deletion after its workflow
ended: they remove what is left of the scope and owe nothing. They remove only
backups that hold their source (`RecordsFit`), so one without it is enough, and
`CleanOwed` says that there is one for every deletion that may be repeated, unless a
workflow owes. Two removals could take it away: that of another repetition, and
rotation. Sources only go, so a newer backup holds no more than an older one
(`SnapshotsShrink`), and what remains, being newer, is clean whenever the one
removed was. `OwnPoints`, that the directory of a restore point exists only after
its deletion, makes a new deletion owe a backup that is really missing, and
`ProcessFits` (who holds the lock works, alone; a launch has no confirmations)
separates the resumption at launch from the repetitions. `PointInv` was checked
by TLC on the instance of the run `deletion` before it was proved.

**Release.** `Shape` is what holds of files, journals and scripts at every step
(a script that moves files has a journal, what is left to move is a part of its
group). The refinement proof maps each step of the transaction to a step of
`PublishedSet` or a stutter: renames before the commit and their undoing map to
nothing, because the mapping reads the old files from the backups. `Transactional`
adds what the journals say of the files, `Quotes` what the files say of the runs.
`Accepting` adds what a verdict rests on. The files that `release-verify.mjs`
compares may come from different executions and different states of the
repository, so `FilesFit` is about each file wherever it lies, in place, in a
backup or in the memory of a script: what it quotes it was written with.
`BuildsFit` follows the installer from the build through its provenance to the
candidate record. Whatever combination is on disk, the comparisons of the verifier
then leave only sets of one execution (`VerifiedHolds`), and `GapsOf` relates what
is listed as a gap to what the disposition asks. That one round is enough is a
matter of what the script writes before it is so: `MadeWhole` shows that the set it
is about to publish verifies, computed from files of which half are not there
yet, and `Converging` that nothing it reads changes until it is there.

**Updates.** A call reads the ledger, waits, and writes it back with its own entry:
`HasRead` says that what it read has no key twice and not its own, and `Unique` of
the ledger that is written follows. A directory under a final name has the record
of its release (`RecordsFit`), which a removal that fails keeps or removes
(`RemainsAre`). It is whole, or a removal or the end of the process has left it, or a
call that published it still has to answer for it (`RuinsHaveACause`): such a call goes
on to "persist" only with a directory that is whole (`Stays`).
`HasStaged` is the answer before it is given, to a new key or to a repeated one: the
package is there, or its publisher has withdrawn it.

Only model-checked:

- liveness (`EventuallyServes`, `EventuallyRuns`, `EveryCallEnds`, `LockIsReleased`,
  `WorkflowEnds`, `EveryCloseIsAnswered`): the prover handles neither fairness nor
  `ENABLED`.

## 5. Observed

What follows was met while modelling. The models contain these behaviours; where
a property would not hold because of one, the property is stated so that it says
what does hold. No run is kept to demonstrate them.

Data that outlives its deletion, or does not survive where it should:

- `update/migration.ts:269`: after a failed migration the old build is accepted,
  writes, and is refused at the next launch by the `rolled_back` or `blocked`
  journal, whose hash is from before the write. The data are whole.
- `preparation/service.ts:276`: a plan or bundle saved after its wait quotes a
  source that was purged meanwhile.
- `db/sqliteStore.ts:1363`: after one failing move back, the retry deletes the
  quarantine rows of the first attempt, and the next launch removes the files of
  a bundle that is still registered. The same remainder, when another operation
  succeeds instead, lets the next launch move the files of a purged bundle back
  among the materials.
- `protection/backup.ts:68`: the materials of a backup are listed from the
  database in use and not from its snapshot: a bundle taken back in between is
  registered in the published backup without its files.
- `db/sqliteStore.ts:2876`: the answer that `feedback_idempotency` keeps for an
  observation still holds its text after the observation was deleted.

Main process:

- `protection/restore.ts:305`: when undoing a switch fails as well, every launch
  throws and ends at the error box; the protected state that
  `docs/superpowers/specs/2026-09-20-g09-protection-recovery-design.md:132`
  promises is never entered.
- `model/service.ts:283`, `290`, `296`: the reported cost is recorded whatever was
  reserved, and the estimate counts four characters to a token (line 242), too few for
  Chinese text: a call may take the spending past the cap. The next call is refused.
- `model/service.ts:333`: a call is settled by its last attempt; an earlier one
  that may have been charged counts zero, against the comment at line 325.
- `preparation/service.ts:337`: retired or superseded sources, and a context that
  changed during the first build, do not invalidate a review.
- `protection/backup.ts:303`: rotation keeps the seven newest backups that are
  tagged daily, and every backup is: several in one day push out earlier days,
  where the design (the same document, line 52) speaks of seven daily points.
- `protection/backup.ts:149`: a crash while a backup with a random id is made
  leaves a `.partial` directory that nothing removes and no deletion counts.
- `protection/sourcePrivacy.ts:300`: a token is looked at before the lock is
  awaited and not again afterwards.
- `protection/backup.ts:146`: a workflow whose own restore point is damaged is
  answered `backup_id_exists_invalid` at every launch.
- `protection/sourcePrivacy.ts:361`: a repetition after the row could not be
  written is refused as a reuse of its key when the set of backups has changed
  meanwhile; the workflow is completed by the next launch instead.
- `preparation/service.ts:174`: `rollbackBuild` reads the revision that it then
  expects. A build that fails after a restart of the work by a newer build rolls
  the newer one back.
- `db/sqliteStore.ts:3769`: a call cancelled after it was sent keeps its cost in
  the row but is left out of `budgetSpentCents`.
- `model/service.ts:270`: a retry sends its text without asking again whether it
  is approved.
- `preparation/stateMachine.ts:24`: a restart during EXPORTING does not look for
  a bundle that is already registered, as
  `docs/superpowers/specs/2026-09-21-g12-teacher-workflow-closure-design.md:118`
  asks.
- `db/sqliteStore.ts:799`: a source that any preparation session selects cannot
  be deleted permanently; the attempt fails after its files were moved, and they
  are moved back.
- `change/service.ts:315` and `ipc.ts:1686`: the transaction does not look at
  whether the revision was redacted meanwhile, so a change or an export in
  flight publishes again what was purged.
- `materials/publish.ts:129`: a crash between the rename and the transaction, or
  the second of two calls with one key, leaves a directory that no row names. It
  is never removed, and a purge does not find it.
- `ipc.ts:1563`: sending an older presentation-only change again makes the
  session name the older bundle.
- `ipc.ts:1568`: an error while the session follows is reported as
  EXPORT_INVALID although the change was accepted.
- `change/change.ts:223`: the presentation specification goes back to its
  default with the next semantic change.
- `ipc.ts:740`: the handler accepts `preview`, `request-confirmation` and
  `confirm`; the `local-preview` that the page sends to restore a local backup
  (`../preload/index.ts:389`, `protection/service.ts:208`) is refused as
  INPUT_INVALID.
- `protection/service.ts:117`: an operation that fails or is cut off by a crash
  leaves its key `running`; the key answers "incomplete" for ever.
- `protection/service.ts`: the replay of an old successful creation resets
  `repeated_failure_count`, and a failure whose record cannot be written does not
  count towards the three after which automatic backups stop.
- `protection/backup.ts:340`: whether today has a backup is asked before the lock
  is awaited; one made by hand meanwhile is followed by an automatic one.
- `presentation/service.ts:75`: after an export that was interrupted between the
  registration of its report and the transition, the newest report is not the
  session's, and the classroom view refuses until the session is exported again.
  An open window keeps what it has loaded, whatever becomes of its source.
- `model/service.ts`: a connection test compares what is spent with the cap and
  reserves nothing.
- `lesson/build.ts:216`: no lesson has links, so `remove_link` always answers
  TARGET_NOT_FOUND. With a base that passes, the review refuses no candidate of a
  change.

Draft and closing:

- `../renderer/draftController.ts:114`: after a conflict whose reload failed,
  "use the remote version" drops the local text and shows nothing remote.
- Text typed between the page's answer and the closing is lost without a question.
- A load while text is being typed adopts the revision of a row that was never
  shown; the next save overwrites it unseen.
- A save whose answer was lost after its commit conflicts with itself.
- `lifecycle.ts:43`: "go on" in the dialog of one request clears the next request,
  whose watchdog then asks although its text is saved.
- No page calls `setContent` at this commit.

Feedback:

- A crash between the beginning and the end of an analysis leaves its run and its
  key `running`.
- `../renderer/App.tsx:280`, `415`: a late answer of another plan overwrites the
  page's revision, events and cards; the checks of the store keep this from being
  recorded.
- An accepted correction whose observation was deleted cannot be reverted.

Updates:

- The panel forgets that it waits when the user leaves the page, so two calls can
  be under way. The ledger is written from what was read at the start: the entry
  of the other call is lost, and its key stages again.
- `update/service.ts:361`: when the ledger cannot be written, the ready directory
  is removed although another call was told of it.
- `update/service.ts:352`, `361`: a removal that fails or is cut off by a crash leaves
  part of a directory under the final name. No later call replaces it: every rename
  onto it fails, and the release cannot be staged again.

Release scripts:

- Each script recovers its own journal only. An acceptance run between a crash of
  `release:sbom` and its recovery is lost when the old files are put back.
- A set whose files are all published but whose journal does not say COMMITTED
  verifies, and may be rolled back afterwards.
- The tree or HEAD may change during a build or the tests without notice.
- After `release:sbom`, a lone `release:evidence` makes verification INVALID until
  `release:sbom` is run again.
- `scripts/run-g11-acceptance.mjs:287`: an error after COMMITTED makes the script
  delete the reports of the run that `release-input` already names.
- A case that is BLOCKED although every external input is registered gives a
  release that is not ready with empty KNOWN_LIMITATIONS.

## 6. Not modelled

- Formats and cryptography: archive, envelope, manifest, update container,
  signatures, secrets. Their outcome (valid or not) is a choice where it matters.
- `exportPortable`: it works in a directory of its own, takes no lock and leaves
  nothing behind but the file the user chose.
- Pure construction of documents and specifications (`lesson/build.ts`,
  `preparation/localBuilder.ts`, `modelSpec.ts`, `materials/generate.ts`) beyond the
  schedule: the models see whether a plan is produced, is ready, or is refused.
- Import and parsing of sources (`sources/`): one worker per file with a timeout
  and no state in common; versions appear in `Preparation` as actions of the
  environment.
- SQLite itself: a transaction is atomic and durable, `load` finds what was
  committed.
- A program that changes a file between the hash and the rename that follows it
  (`update/migration.ts:513`, `516`): no code can notice it.
- Recovery points and staging directories that are never cleaned up.
- Shapes of requests (`schemaGate.ts`), the pages that only send and show, the
  registry of presentation windows, diagnostics, contract checks
  (`verify-contracts.mjs`), and the JSON store that only tests construct.

## 7. Plan

The project is kept at twelve runs and forty properties, so that all of it can
be checked in one go; a component's consistency is one invariant, a conjunction
of named parts, so that the other properties can be about its history.

Done, in this order: `DatabaseMigration`,
`MigrationUnderExternalChange`, `PendingRestore`, `ModelCalls`, `Preparation`,
`Publication`, `ManagedBackups`, `SourceDeletion`, then `DraftClosing`,
`Maintenance`, `LessonSchedule`, `Updates`, `Feedback`, `ReleaseSet` with the
refinement of `PublishedSet`.

Next, most important first:

1. `Startup`, which composes restore and migration in the order of `bootstrap`,
   over an abstract store of accepted writes that both implement.
2. Preference and effect events of the feedback, when a page sends them.
