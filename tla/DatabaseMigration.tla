-------------------------- MODULE DatabaseMigration --------------------------
(***************************************************************************)
(* The journaled schema migration that runs before the store is opened:     *)
(* DatabaseMigrationCoordinator (update/migration.ts), its journal          *)
(* (update/journal.ts), the part of SqliteStore.load that decides between   *)
(* serving and the protected state (db/sqliteStore.ts), and the bootstrap   *)
(* that runs one after the other (index.ts).                                *)
(*                                                                         *)
(* A file is modelled by its content; two files with the same content have  *)
(* the same SHA-256, so `hash(f) = journal.sourceSha256' is an equality of   *)
(* contents.  Every rename, copy and journal write is a step of its own and *)
(* the process may die between any two of them.  The journal is replaced by *)
(* a rename of a fully written partial file: a crash leaves the old one or  *)
(* the new one.                                                            *)
(***************************************************************************)
EXTENDS Naturals

CONSTANTS
    Versions,      \* the application builds a user may install
    SchemaOf,      \* SQLITE_SCHEMA_TARGET of each build
    GenerationOf,  \* SQLITE_DATA_GENERATION of each build
    Jobs,          \* the migration job identifiers (random UUIDs)
    MaxFaults,     \* bound: crashes and failing I/O calls in a behaviour
    MaxWrites,     \* bound: business writes in a behaviour
    Absent,        \* no file at this path
    NoJournal,     \* no migration-journal.json
    NoJob          \* the lineage of a database that no migration produced

ASSUME VersionAssumption == /\ SchemaOf \in [Versions -> Nat]
                            /\ GenerationOf \in [Versions -> Nat]
ASSUME BoundAssumption == MaxFaults \in Nat /\ MaxWrites \in Nat

(* What the coordinator can tell apart about a database file.  `sound'     *)
(* stands for the integrity check and the unchanged credential fingerprint; *)
(* `data' numbers the last business write the file holds.                   *)
Database == [schema : Nat, generation : Nat, lineage : Jobs \cup {NoJob},
             data : Nat, sound : BOOLEAN]

ASSUME AbsentAssumption == Absent \notin Database

File == Database \cup {Absent}

(* The directories of one job: migration-rollback, migration-staging,       *)
(* migration-failed/<job>.partial, migration-failed/<job>, and the          *)
(* migration-recovery/<recovery point>.ready that the job creates.          *)
JobFiles == [rollback : File, staging : File, partial : File, failed : File,
             recovery : File]

Unfinished == {"prepared", "recovery_ready", "candidate_ready",
               "original_moved", "candidate_moved"}
Phases == Unfinished \cup {"completed", "rolled_back", "blocked"}

Journal == [job : Jobs, target : Versions, source : Database,
            candidate : File, phase : Phases]

ASSUME JournalAssumption == NoJournal \notin Journal

VARIABLES
    current,    \* disk: yuwendesk.db
    files,      \* disk: the directories of every job
    journal,    \* disk: migration-journal.json
    lock,       \* disk: does migration-maintenance.lock exist?
    version,    \* disk: the installed build
    at,         \* the next step of the process
    own,        \* the coordinator's in-memory journal
    undoing,    \* who undoes a switch: the next launch, or the failed switch
    moving,     \* which database preserveFailedDatabase() puts aside
    answer,     \* the result of run()
    latest,     \* history: the last business write committed
    used,       \* history: the job identifiers already drawn
    faults      \* history: crashes and failed calls so far

disk   == <<current, files, journal, lock, version>>
memory == <<own, undoing, moving, answer>>
vars   == <<disk, at, memory, latest, used, faults>>

-----------------------------------------------------------------------------
NoFiles == [rollback |-> Absent, staging |-> Absent, partial |-> Absent,
            failed |-> Absent, recovery |-> Absent]

Init ==
    /\ current = Absent /\ files = [j \in Jobs |-> NoFiles]
    /\ journal = NoJournal /\ lock = FALSE /\ version \in Versions
    /\ at = "off" /\ own = NoJournal /\ undoing = "launch"
    /\ moving = "current" /\ answer = "none"
    /\ latest = 0 /\ used = {} /\ faults = 0

Fault == faults < MaxFaults /\ faults' = faults + 1

mine == files[own.job]
Put(directory, db) == files' = [files EXCEPT ![own.job][directory] = db]

(* The steps of run() differ in what they touch: nothing at all, the        *)
(* database files, or the journal.                                          *)
Goto(from, to) == at = from /\ at' = to

Decide(from, to) ==
    Goto(from, to) /\ UNCHANGED <<disk, memory, latest, used, faults>>

Fail(from, to) == Goto(from, to) /\ Fault /\ UNCHANGED <<disk, memory, latest, used>>

FileStep(from, to) ==
    Goto(from, to) /\ UNCHANGED <<journal, lock, version, memory, latest, used, faults>>

WriteJournal(phase) == own' = [own EXCEPT !.phase = phase] /\ journal' = own'

Record(from, phase, to) ==
    /\ Goto(from, to)
    /\ WriteJournal(phase)
    /\ UNCHANGED <<current, files, lock, version, undoing, moving, answer,
                   latest, used, faults>>

(* run() returns r and the store is opened next; inside the outer try the   *)
(* finally removes the lock first.                                          *)
Return(r) == answer' = r /\ at' = "opening"
ReturnUnlocking(r) == answer' = r /\ at' = "unlocking"
OnlyReturns == UNCHANGED <<disk, own, undoing, moving, latest, used>>

-----------------------------------------------------------------------------
(* Starting, installing another build, quitting and dying.                  *)

Launch ==
    /\ Goto("off", "reading")
    /\ own' = NoJournal /\ undoing' = "launch"
    /\ moving' = "current" /\ answer' = "none"
    /\ UNCHANGED <<disk, latest, used, faults>>

InstallVersion(v) ==
    /\ at = "off" /\ v # version
    /\ version' = v
    /\ UNCHANGED <<current, files, journal, lock, at, memory, latest, used, faults>>

Quit == Decide("serving", "off") \/ Decide("protected", "off")

Crash == at # "off" /\ Fail(at, "off")

-----------------------------------------------------------------------------
(* run(): what the previous journal says.                                   *)

CompletedHolds ==
    /\ current # Absent /\ current.sound
    /\ current.schema >= SchemaOf[journal.target]
    /\ current.generation >= GenerationOf[journal.target]
    /\ current.lineage = journal.job

TerminalHolds == current # Absent /\ current = journal.source

FinishedJournalHolds ==
    IF journal.phase = "completed" THEN CompletedHolds ELSE TerminalHolds

ReadNoJournal ==
    /\ at = "reading" /\ journal = NoJournal
    /\ IF lock THEN Return("blocked") ELSE at' = "inspecting" /\ UNCHANGED answer
    /\ OnlyReturns /\ UNCHANGED faults

ReadFinishedJournal ==
    /\ at = "reading" /\ journal # NoJournal
    /\ journal.phase \notin Unfinished
    /\ IF FinishedJournalHolds
       THEN at' = "clearing_lock" /\ UNCHANGED answer
       ELSE Return("blocked")
    /\ OnlyReturns /\ UNCHANGED faults

ReadUnfinishedJournal ==
    /\ at = "reading" /\ journal # NoJournal
    /\ journal.phase \in Unfinished
    /\ own' = journal /\ at' = "reconciling"
    /\ UNCHANGED <<disk, undoing, moving, answer, latest, used, faults>>

(* Mutant: the lock of an explained interruption is left in place. *)
ClearLockNever == Decide("clearing_lock", "inspecting")

ClearLock ==
    /\ Goto("clearing_lock", "inspecting")
    /\ lock' = FALSE
    /\ UNCHANGED <<current, files, journal, version, memory, latest, used, faults>>

-----------------------------------------------------------------------------
(* reconcile() of an unfinished journal, and rollbackSwitch(): both put the *)
(* installed or staged candidate aside and move the original back.          *)

InstalledIsCandidate ==
    /\ own.phase = "candidate_moved"
    /\ current # Absent /\ current = own.candidate
    /\ current.schema = SchemaOf[own.target]
    /\ current.generation <= GenerationOf[own.target]

AcceptInstalled ==
    at = "reconciling" /\ InstalledIsCandidate
        /\ Record("reconciling", "completed", "reconciled")

(* The catch of reconcile() answers `blocked' and leaves the lock; the     *)
(* catch of rollbackSwitch() rewrites the journal with its phase unchanged. *)
Abandon ==
    /\ IF undoing = "launch"
       THEN Return("blocked") /\ UNCHANGED <<journal, own>>
       ELSE ReturnUnlocking("blocked") /\ WriteJournal(own.phase)
    /\ UNCHANGED <<current, files, lock, version, undoing, moving, latest, used>>

Undoing == at = "switch_failed" \/ (at = "reconciling" /\ ~InstalledIsCandidate)

(* Mutant: the original is moved back over the candidate. *)
UndoOverCandidate ==
    /\ Undoing /\ mine.rollback = own.source
    /\ at' = "restoring"
    /\ UNCHANGED <<disk, memory, latest, used, faults>>

(* Preserve the installed database or, when there is none, whatever is left *)
(* of the candidate (moveCandidateToFailed).                                *)
UndoWithRollback ==
    /\ Undoing /\ mine.rollback = own.source
    /\ moving' = IF current # Absent THEN "current" ELSE "staging"
    /\ at' = IF current = Absent /\ mine.staging = Absent /\ mine.partial = Absent
             THEN "restoring" ELSE "preserving"
    /\ UNCHANGED <<disk, own, undoing, answer, latest, used, faults>>

(* Mutant: without a rollback directory the source is taken as unmoved. *)
UndoUnproven ==
    /\ Undoing /\ undoing = "launch" /\ mine.rollback = Absent
    /\ at' = "settling"
    /\ UNCHANGED <<disk, memory, latest, used, faults>>

(* No rollback directory: the source never moved, or it is back already.    *)
UndoWithoutRollback ==
    /\ Undoing /\ undoing = "launch"
    /\ mine.rollback = Absent /\ current = own.source
    /\ moving' = "staging"
    /\ at' = IF mine.staging # Absent THEN "preserving" ELSE "settling"
    /\ UNCHANGED <<disk, own, undoing, answer, latest, used, faults>>

UndoRefused ==
    /\ Undoing /\ mine.rollback # own.source
    /\ mine.rollback = Absent /\ undoing = "launch" => current # own.source
    /\ Abandon /\ UNCHANGED faults

MovedFile == IF moving = "current" THEN current ELSE mine.staging
AfterPreserving == IF moving = "staging" THEN "clearing_staging" ELSE "restoring"

(* preserveFailedDatabase(): the first rename, <file> to failed.partial.    *)
PreserveFailed ==
    /\ FileStep("preserving", "promoting")
    /\ MovedFile # Absent /\ mine.failed = Absent /\ mine.partial = Absent
    /\ IF moving = "current"
       THEN current' = Absent /\ Put("partial", current)
       ELSE /\ files' = [files EXCEPT ![own.job].partial = mine.staging,
                                      ![own.job].staging = Absent]
            /\ UNCHANGED current

(* An earlier attempt to preserve died after its first or second rename.    *)
AlreadyPreserved ==
    /\ at = "preserving" /\ MovedFile = Absent
    /\ \/ mine.failed # Absent /\ FileStep("preserving", AfterPreserving)
       \/ /\ mine.failed = Absent /\ mine.partial # Absent
          /\ FileStep("preserving", "promoting")
    /\ UNCHANGED <<current, files>>

(* A copy exists already, or there is nothing to preserve.                  *)
PreserveRefused ==
    /\ at = "preserving"
    /\ (MovedFile = Absent) = (mine.failed = Absent /\ mine.partial = Absent)
    /\ Abandon /\ UNCHANGED faults

PromoteFailed ==
    /\ FileStep("promoting", AfterPreserving)
    /\ files' = [files EXCEPT ![own.job].failed = mine.partial,
                              ![own.job].partial = Absent]
    /\ UNCHANGED current

ClearStaging ==
    /\ FileStep("clearing_staging",
                IF mine.rollback # Absent THEN "restoring" ELSE "settling")
    /\ Put("staging", Absent) /\ UNCHANGED current

RestoreOriginal ==
    /\ FileStep("restoring", "verifying_restored")
    /\ current' = mine.rollback /\ Put("rollback", Absent)

VerifyRestored ==
    /\ at = "verifying_restored"
    /\ IF current = own.source
       THEN Decide("verifying_restored", "settling")
       ELSE Abandon /\ UNCHANGED faults

Settle ==
    /\ at = "settling"
    /\ WriteJournal("rolled_back")
    /\ IF undoing = "launch"
       THEN at' = "reconciled" /\ UNCHANGED answer
       ELSE ReturnUnlocking("rolled_back")
    /\ UNCHANGED <<current, files, lock, version, undoing, moving, latest, used, faults>>

FinishReconcile ==
    /\ at = "reconciled"
    /\ lock' = FALSE /\ Return("recovered")
    /\ UNCHANGED <<current, files, journal, version, own, undoing, moving,
                   latest, used, faults>>

-----------------------------------------------------------------------------
(* run(): a new migration attempt.                                          *)

Newer(db) == db.schema > SchemaOf[version] \/ db.generation > GenerationOf[version]

InspectNothingToDo ==
    /\ at = "inspecting"
    /\ \/ current = Absent /\ Return("fresh")
       \/ /\ current # Absent
          /\ ~current.sound \/ Newer(current)
          /\ Return("blocked")
       \/ /\ current # Absent /\ current.sound /\ ~Newer(current)
          /\ current.schema = SchemaOf[version]
          /\ Return("not_required")
    /\ OnlyReturns /\ UNCHANGED faults

(* The source is hashed before the lock is taken. *)
InspectOlder(j) ==
    /\ Goto("inspecting", "locking")
    /\ current # Absent /\ current.sound
    /\ ~Newer(current) /\ current.schema < SchemaOf[version]
    /\ j \notin used /\ used' = used \cup {j}
    /\ own' = [job |-> j, target |-> version, source |-> current,
               candidate |-> Absent, phase |-> "prepared"]
    /\ UNCHANGED <<disk, undoing, moving, answer, latest, faults>>

AcquireLock ==
    /\ at = "locking"
    /\ IF lock
       THEN Return("blocked") /\ UNCHANGED <<lock, undoing>>
       ELSE /\ lock' = TRUE /\ undoing' = "switch"
            /\ at' = "verifying_source" /\ UNCHANGED answer
    /\ UNCHANGED <<current, files, journal, version, own, moving, latest, used, faults>>

VerifySource ==
    /\ at = "verifying_source"
    /\ IF current = own.source
       THEN at' = "writing_prepared" /\ UNCHANGED answer
       ELSE ReturnUnlocking("blocked")
    /\ OnlyReturns /\ UNCHANGED faults

WritePrepared == Record("writing_prepared", "prepared", "creating_recovery")

CreateRecoveryPoint ==
    /\ FileStep("creating_recovery", "writing_recovery_ready")
    /\ Put("recovery", current) /\ UNCHANGED current

WriteRecoveryReady == Record("writing_recovery_ready", "recovery_ready", "copying")

CopyCandidate ==
    /\ FileStep("copying", "migrating")
    /\ Put("staging", mine.recovery) /\ UNCHANGED current

(* migrateCandidate, advanceDataGeneration and writeMigrationJobId. *)
Migrated(db) == [db EXCEPT !.schema = SchemaOf[own.target],
                           !.generation = GenerationOf[own.target],
                           !.lineage = own.job]

MigrateCandidate ==
    /\ FileStep("migrating", "checking_candidate")
    /\ Put("staging", Migrated(mine.staging)) /\ UNCHANGED current

(* A migration step that damages the copy or touches the credentials. *)
DamageCandidate ==
    /\ Goto("migrating", "checking_candidate") /\ Fault
    /\ Put("staging", [Migrated(mine.staging) EXCEPT !.sound = FALSE])
    /\ UNCHANGED <<current, journal, lock, version, memory, latest, used>>

IsVerifiedCandidate(db) ==
    /\ db.sound
    /\ db.schema = SchemaOf[own.target]
    /\ db.generation = GenerationOf[own.target]
    /\ db.lineage = own.job

CheckCandidate ==
    Decide("checking_candidate",
           IF IsVerifiedCandidate(mine.staging)
           THEN "writing_candidate_ready" ELSE "writing_blocked")

WriteBlocked ==
    /\ at = "writing_blocked"
    /\ WriteJournal("blocked") /\ ReturnUnlocking("blocked")
    /\ UNCHANGED <<current, files, lock, version, undoing, moving, latest, used, faults>>

(* Mutant: candidateSha256 is not recorded. *)
WriteCandidateReadyUnhashed ==
    Record("writing_candidate_ready", "candidate_ready", "checking_original")

WriteCandidateReady ==
    /\ Goto("writing_candidate_ready", "checking_original")
    /\ own' = [own EXCEPT !.phase = "candidate_ready", !.candidate = mine.staging]
    /\ journal' = own'
    /\ UNCHANGED <<current, files, lock, version, undoing, moving, answer,
                   latest, used, faults>>

-----------------------------------------------------------------------------
(* run(): the switch.  The rollback directory of a fresh job never exists.  *)

CheckOriginal ==
    Decide("checking_original",
           IF current = own.source THEN "moving_original" ELSE "switch_failed")

MoveOriginal ==
    /\ FileStep("moving_original", "writing_original_moved")
    /\ Put("rollback", current) /\ current' = Absent

WriteOriginalMoved ==
    Record("writing_original_moved", "original_moved", "moving_candidate")

MoveCandidate ==
    /\ FileStep("moving_candidate", "writing_candidate_moved")
    /\ current' = mine.staging /\ Put("staging", Absent)

WriteCandidateMoved ==
    Record("writing_candidate_moved", "candidate_moved", "verifying_installed")

VerifyInstalled ==
    Decide("verifying_installed",
           IF current = own.candidate /\ IsVerifiedCandidate(current)
           THEN "writing_completed" ELSE "switch_failed")

(* Mutant: completion cleans the rollback directory up as well. *)
WriteCompletedCleaning ==
    /\ at = "writing_completed"
    /\ WriteJournal("completed") /\ ReturnUnlocking("migrated")
    /\ Put("rollback", Absent)
    /\ UNCHANGED <<current, lock, version, undoing, moving, latest, used, faults>>

WriteCompleted ==
    /\ at = "writing_completed"
    /\ WriteJournal("completed") /\ ReturnUnlocking("migrated")
    /\ UNCHANGED <<current, files, lock, version, undoing, moving, latest, used, faults>>

(* The finally of run(); a promise that rejected ends the application.      *)
AfterUnlock == IF answer = "threw" THEN "off" ELSE "opening"

Unlock ==
    /\ Goto("unlocking", AfterUnlock)
    /\ lock' = FALSE
    /\ UNCHANGED <<current, files, journal, version, memory, latest, used, faults>>

-----------------------------------------------------------------------------
(* Calls that fail (an antivirus scanner holding the file, a full disk, a   *)
(* read error), each with the handler the code gives it.                    *)

InspectionFails ==
    /\ at \in {"reading", "inspecting"}
    /\ Fault /\ Return("blocked") /\ OnlyReturns

ClearLockFails == Fail("clearing_lock", "off")

(* fs.writeFile may fail before it creates the lock file or after: the      *)
(* catch answers MIGRATION_LOCKED and nothing removes what was created.     *)
LockFails ==
    /\ at = "locking"
    /\ Fault /\ Return("blocked")
    /\ lock' \in {lock, TRUE}
    /\ UNCHANGED <<current, files, journal, version, own, undoing, moving, latest, used>>

VerifySourceFails ==
    at = "verifying_source" /\ Fault /\ ReturnUnlocking("blocked") /\ OnlyReturns

(* No handler between the call and the finally; at "checking_original" it   *)
(* is the mkdir of the rollback directory, just before the switch's try.    *)
UncaughtFailure ==
    /\ at \in {"writing_prepared", "copying", "writing_candidate_ready",
               "writing_blocked", "checking_original"}
    /\ Fault /\ ReturnUnlocking("threw") /\ OnlyReturns

AttemptFails ==
    \E step \in {"creating_recovery", "writing_recovery_ready", "migrating",
                "checking_candidate"} : Fail(step, "writing_blocked")

SwitchFails ==
    \E step \in {"checking_original", "moving_original", "writing_original_moved",
                "moving_candidate", "writing_candidate_moved",
                "verifying_installed", "writing_completed"} :
        Fail(step, "switch_failed")

UndoSteps == {"reconciling", "switch_failed", "preserving", "promoting",
              "clearing_staging", "restoring", "verifying_restored", "settling",
              "reconciled"}

UndoFails == at \in UndoSteps /\ Fault /\ Abandon

UnlockFails == Fail("unlocking", AfterUnlock)

-----------------------------------------------------------------------------
(* SqliteStore.load and a business write.                                   *)

Opens(to) ==
    Goto("opening", to)
        /\ UNCHANGED <<files, journal, lock, version, memory, latest, used>>

(* Mutant: a protected start creates a database like any other. *)
MayCreateProtected == current = Absent

(* allowInPlaceMigrations: only a database that does not exist is created.  *)
MayCreate == current = Absent /\ answer = "fresh"

(* Mutant: the data generation of a new database is never written. *)
FreshWithoutGeneration(schema, generation) ==
    [schema |-> schema, generation |-> Absent, lineage |-> NoJob,
     data |-> 0, sound |-> TRUE]

Fresh(schema, generation) ==
    [schema |-> schema, generation |-> generation, lineage |-> NoJob,
     data |-> 0, sound |-> TRUE]

CreateDatabase ==
    /\ MayCreate /\ Opens("serving")
    /\ current' = Fresh(SchemaOf[version], GenerationOf[version])
    /\ UNCHANGED faults

(* Each schema step commits in a transaction of its own: dying in between   *)
(* leaves a database of an intermediate schema.                             *)
CreationDies ==
    /\ MayCreate /\ Opens("off") /\ Fault
    /\ \E schema \in {0} \cup {SchemaOf[v] : v \in Versions} :
          schema <= SchemaOf[version] /\ current' = Fresh(schema, 0)

MayServe ==
    /\ answer # "blocked"
    /\ current # Absent /\ current.sound
    /\ current.schema = SchemaOf[version]
    /\ current.generation <= GenerationOf[version]

OpenForWriting ==
    /\ MayServe /\ Opens("serving")
    /\ current' = [current EXCEPT !.generation = GenerationOf[version]]
    /\ UNCHANGED faults

OpenProtected ==
    /\ ~MayServe /\ ~MayCreate
    /\ Opens("protected") /\ UNCHANGED <<current, faults>>

BusinessWrite ==
    /\ at = "serving" /\ latest < MaxWrites
    /\ latest' = latest + 1
    /\ current' = [current EXCEPT !.data = latest + 1]
    /\ UNCHANGED <<files, journal, lock, version, at, memory, used, faults>>

-----------------------------------------------------------------------------
ReadJournal == \/ ReadNoJournal \/ ReadFinishedJournal \/ ReadUnfinishedJournal
               \/ ClearLock

Undo == \/ AcceptInstalled \/ UndoWithRollback \/ UndoWithoutRollback \/ UndoRefused
        \/ PreserveFailed \/ AlreadyPreserved \/ PreserveRefused \/ PromoteFailed
        \/ ClearStaging \/ RestoreOriginal \/ VerifyRestored \/ Settle
        \/ FinishReconcile

Attempt == \/ InspectNothingToDo \/ (\E j \in Jobs : InspectOlder(j)) \/ AcquireLock
           \/ VerifySource \/ WritePrepared \/ CreateRecoveryPoint
           \/ WriteRecoveryReady \/ CopyCandidate \/ MigrateCandidate
           \/ CheckCandidate \/ WriteBlocked \/ WriteCandidateReady

Switch == \/ CheckOriginal \/ MoveOriginal \/ WriteOriginalMoved \/ MoveCandidate
          \/ WriteCandidateMoved \/ VerifyInstalled \/ WriteCompleted \/ Unlock

Open == CreateDatabase \/ OpenForWriting \/ OpenProtected

Failure == \/ Crash \/ DamageCandidate \/ CreationDies \/ InspectionFails
           \/ ClearLockFails \/ LockFails \/ VerifySourceFails \/ UncaughtFailure
           \/ AttemptFails \/ SwitchFails \/ UndoFails \/ UnlockFails

Startup == ReadJournal \/ Undo \/ Attempt \/ Switch \/ Open

User == Launch \/ Quit \/ BusinessWrite \/ (\E v \in Versions : InstallVersion(v))

Next == Startup \/ User \/ Failure

Spec == Init /\ [][Next]_vars

(* The process takes its next step unless it dies; the user, told to        *)
(* restart, eventually quits and launches the application again.            *)
FairSpec == Spec /\ WF_vars(Startup) /\ WF_vars(Launch) /\ WF_vars(Quit)

-----------------------------------------------------------------------------
ProcessSteps ==
    {"off", "reading", "clearing_lock", "inspecting", "locking", "verifying_source",
     "writing_prepared", "creating_recovery", "writing_recovery_ready", "copying",
     "migrating", "checking_candidate", "writing_blocked", "writing_candidate_ready",
     "checking_original", "moving_original", "writing_original_moved",
     "moving_candidate", "writing_candidate_moved", "verifying_installed",
     "writing_completed", "unlocking", "opening", "serving", "protected"}
    \cup UndoSteps

(* The type invariant. *)
TypeOK ==
    /\ current \in File /\ files \in [Jobs -> JobFiles]
    /\ journal \in Journal \cup {NoJournal} /\ lock \in BOOLEAN
    /\ version \in Versions /\ at \in ProcessSteps
    /\ own \in Journal \cup {NoJournal}
    /\ undoing \in {"launch", "switch"} /\ moving \in {"current", "staging"}
    /\ answer \in {"none", "fresh", "not_required", "migrated", "recovered",
                   "rolled_back", "blocked", "threw"}
    /\ latest \in Nat /\ used \subseteq Jobs /\ faults \in Nat

(* Whatever crashed or failed before, a build that accepts writes serves a  *)
(* sound database holding every business write ever committed: the journal, *)
(* the renames and the gate of SqliteStore.load never serve the empty, the  *)
(* older or the damaged file of an interrupted switch.                      *)
ServesLatest ==
    at = "serving" => /\ current # Absent
                      /\ current.sound
                      /\ current.data = latest

(* At every instant, the one between two renames included, reconcile() has  *)
(* what it needs: the untouched source is still in place, or it is in the   *)
(* rollback directory of the journal's own job and nothing but that job's   *)
(* verified candidate stands in its place.                                  *)
EveryCrashPointReconciles ==
    journal # NoJournal /\ journal.phase \in Unfinished =>
        \/ current = journal.source /\ files[journal.job].rollback = Absent
        \/ /\ files[journal.job].rollback = journal.source
           /\ current \in {Absent, journal.candidate}

(* What a finished or interrupted migration leaves to bring data back with: *)
(* from the moment the journal says so the recovery point holds the source's *)
(* content, and `completed' is written only over an installed database of   *)
(* that job, with the original in the rollback directory from then on.      *)
CompletedKeepsOriginal ==
    /\ journal # NoJournal /\ journal.phase = "completed" =>
           /\ CompletedHolds
           /\ files[journal.job].rollback = journal.source
    /\ journal # NoJournal
           /\ journal.phase \in (Unfinished \cup {"completed"}) \ {"prepared"} =>
           files[journal.job].recovery = journal.source

(* No build accepts writes under an unexplained maintenance lock, the one   *)
(* thing that would shut the next launch out (MIGRATION_LOCKED).            *)
ServesWithoutOrphanLock == at = "serving" /\ lock => journal # NoJournal

(* A migration that ends leaves what a later return to the original needs,   *)
(* and a lock only with the journal that explains it.                       *)
KeepsTheWayBack == CompletedKeepsOriginal /\ ServesWithoutOrphanLock

(* Outside SQLite's own writes no step drops or alters a database that is   *)
(* current, rolled back or failed: a rename never lands on another copy.    *)
Evidence == ({current} \cup UNION {{files[j].rollback, files[j].partial,
                                    files[j].failed} : j \in Jobs}) \ {Absent}
EvidenceIsOnlyMoved ==
    [][at \notin {"opening", "serving"} => Evidence \subseteq Evidence']_vars

(* The states on disk in which the coordinator refuses by design: an        *)
(* unexplained lock, a database of a newer build, and a file other than the *)
(* one a failed attempt left.                                               *)
LockedOut == journal = NoJournal /\ lock
NewerOnDisk == current # Absent /\ Newer(current)
SourceReplaced == /\ journal # NoJournal
                  /\ journal.phase \in {"rolled_back", "blocked"}
                  /\ ~TerminalHolds

(* When the user keeps a build and keeps relaunching it, crashes and        *)
(* failures that eventually stop cannot keep it from serving, except in     *)
(* those three states.                                                      *)
EventuallyServes ==
    \A v \in Versions :
        <>[](version = v) =>
            []<>(at = "serving" \/ LockedOut \/ NewerOnDisk \/ SourceReplaced)

=============================================================================
