----------------------- MODULE DatabaseMigrationProofs -----------------------
(***************************************************************************)
(* For every set of builds, every number of jobs, faults and writes: the    *)
(* type invariant of DatabaseMigration, that a serving build holds every    *)
(* committed write (ServesLatest), that every crash point can be reconciled *)
(* (EveryCrashPointReconciles), that the way back is kept (KeepsTheWayBack) *)
(* and that no evidence is destroyed (EvidenceIsOnlyMoved).  The last part  *)
(* is about MigrationUnderExternalChange: what another program does to the  *)
(* file in between is not overwritten (ForeignEvidenceIsOnlyMoved), and     *)
(* what is on disk decides (EvidenceDecides).                               *)
(***************************************************************************)
EXTENDS MigrationUnderExternalChange, TLAPS

(* The installed database, whichever it is, holds the last committed write. *)
CurrentHolds == current # Absent => current.sound /\ current.data = latest

(* The database is missing only before it was created, or in a switch.      *)
MissingIsExplained ==
    current = Absent =>
        \/ journal = NoJournal /\ latest = 0
        \/ journal # NoJournal /\ journal.phase \in Unfinished

(* Directories of a job that was not drawn yet are empty.                   *)
JobsAreFresh ==
    /\ \A j \in Jobs : j \notin used => files[j] = NoFiles
    /\ journal # NoJournal => journal.job \in used

Verified == {"candidate_ready", "original_moved", "candidate_moved"}

(* What an unfinished journal promises about the files it names.            *)
UnfinishedHolds ==
    journal # NoJournal /\ journal.phase \in Unfinished =>
        /\ journal.source.sound /\ journal.source.data = latest
        /\ journal.phase \in Verified =>
              /\ journal.candidate # Absent
              /\ journal.candidate.sound /\ journal.candidate.data = latest

(* Steps of run() taken while no journal is unfinished.                     *)
NewAttempt == {"locking", "verifying_source", "writing_prepared"}
SettledSteps == {"clearing_lock", "inspecting", "reconciled", "serving"} \cup NewAttempt
Settled ==
    \/ at \in SettledSteps
    \/ at = "unlocking" /\ answer \notin {"blocked", "threw"}
    \/ at = "opening" /\ answer # "blocked"
SettledHolds == Settled => journal = NoJournal \/ journal.phase \notin Unfinished

ServingHolds == at = "serving" => current # Absent

(* Before its first journal write an attempt is known only to the process.  *)
NewAttemptHolds ==
    at \in NewAttempt =>
        /\ own # NoJournal /\ own.phase = "prepared" /\ own.job \in used
        /\ own.source = current /\ current # Absent
        /\ files[own.job] = NoFiles

(* From then on the journal on disk is the one in memory.                   *)
InPlace == {"creating_recovery", "writing_recovery_ready", "copying", "migrating",
            "checking_candidate", "writing_blocked", "writing_candidate_ready",
            "checking_original", "moving_original", "verifying_restored", "settling"}
Moved == {"writing_original_moved", "moving_candidate", "restoring"}
Installed == {"writing_candidate_moved", "verifying_installed", "writing_completed"}
Between == {"reconciling", "switch_failed", "preserving", "promoting",
            "clearing_staging"}
JournaledSteps == InPlace \cup Moved \cup Installed \cup Between
JournalIsOwn ==
    /\ at \in JournaledSteps \cup {"reconciled"} =>
          own = journal /\ journal # NoJournal
    /\ at \in JournaledSteps => journal.phase \in Unfinished

(* Where the original and the candidate are at each step.                   *)
SourceInPlace == current = journal.source /\ files[journal.job].rollback = Absent
SourceMoved == current = Absent /\ files[journal.job].rollback = journal.source
SourceReplacedBy == /\ current = journal.candidate /\ current # Absent
                    /\ files[journal.job].rollback = journal.source

PositionHolds ==
    /\ at \in InPlace => SourceInPlace
    /\ at \in Moved => SourceMoved
    /\ at \in Installed => SourceReplacedBy
    /\ at = "preserving" /\ moving = "current" => SourceReplacedBy \/ SourceMoved
    /\ at = "promoting" /\ moving = "current" => SourceMoved
    /\ at \in {"preserving", "promoting", "clearing_staging"} /\ moving = "staging" =>
          SourceInPlace \/ SourceMoved
    /\ at = "clearing_staging" => moving = "staging"

(* What the attempt has built so far.                                       *)
CandidateHolds ==
    /\ at \in {"writing_recovery_ready", "copying"} =>
          files[own.job].recovery = own.source
    /\ at = "migrating" => files[own.job].staging = own.source
    /\ at \in {"checking_candidate", "writing_candidate_ready"} =>
          /\ files[own.job].staging # Absent
          /\ files[own.job].staging.data = latest
    /\ at = "writing_candidate_ready" => files[own.job].staging.sound
    /\ at \in {"checking_original", "moving_original", "writing_original_moved",
              "moving_candidate"} =>
          files[own.job].staging = own.candidate
    /\ at \in {"checking_original", "moving_original", "writing_original_moved",
              "moving_candidate"} \cup Installed =>
          own.phase \in Verified

(* The part of the invariant that a crash leaves, and the process' part.     *)
DiskInv == /\ CurrentHolds /\ MissingIsExplained /\ JobsAreFresh
           /\ UnfinishedHolds /\ EveryCrashPointReconciles
ProcessInv == /\ SettledHolds /\ ServingHolds /\ NewAttemptHolds
              /\ JournalIsOwn /\ PositionHolds /\ CandidateHolds

IInv == TypeOK /\ DiskInv /\ ProcessInv

-----------------------------------------------------------------------------
(* The steps that read the in-memory journal have one.                      *)
OwnSteps == JournaledSteps \cup NewAttempt \cup {"reconciled"}

OwnHolds == at \in OwnSteps => own # NoJournal

LEMMA OwnTyped ==
  ASSUME TypeOK, OwnHolds, at \in OwnSteps
  PROVE  /\ own \in Journal /\ own # NoJournal
         /\ own.job \in Jobs /\ own.source \in Database /\ own.target \in Versions
         /\ own.candidate \in File /\ own.phase \in Phases
         /\ mine \in JobFiles
         /\ mine.rollback \in File /\ mine.staging \in File
         /\ mine.partial \in File /\ mine.failed \in File /\ mine.recovery \in File
<1>1. own \in Journal /\ own # NoJournal
  BY DEF OwnHolds, TypeOK
<1>2. /\ own.job \in Jobs /\ own.source \in Database /\ own.target \in Versions
      /\ own.candidate \in File /\ own.phase \in Phases
  BY <1>1 DEF Journal
<1>3. mine \in JobFiles
  BY <1>2 DEF TypeOK, mine
<1> QED
  BY <1>1, <1>2, <1>3 DEF JobFiles

LEMMA OwnType ==
  ASSUME IInv, at \in OwnSteps
  PROVE  /\ own \in Journal /\ own # NoJournal
         /\ own.job \in Jobs /\ own.source \in Database /\ own.target \in Versions
         /\ own.candidate \in File /\ own.phase \in Phases
         /\ mine \in JobFiles
         /\ mine.rollback \in File /\ mine.staging \in File
         /\ mine.partial \in File /\ mine.failed \in File /\ mine.recovery \in File
<1>1. TypeOK /\ OwnHolds
  BY DEF IInv, ProcessInv, OwnHolds, OwnSteps, JournalIsOwn, NewAttemptHolds
<1> QED
  BY <1>1, OwnTyped

(* What the process reads is there: all that the type of a next state needs. *)
ReadsHold == /\ OwnHolds /\ ServingHolds
             /\ at = "migrating" => files[own.job].staging \in Database

(* What the renames and copies of one job do to the table of directories.   *)
LEMMA PutOne ==
  ASSUME NEW fs \in [Jobs -> JobFiles], NEW j \in Jobs, NEW db \in File,
         NEW d \in {"rollback", "staging", "partial", "failed", "recovery"}
  PROVE  LET gs == [fs EXCEPT ![j][d] = db]
         IN  /\ gs \in [Jobs -> JobFiles]
             /\ gs[j][d] = db
             /\ \A e \in {"rollback", "staging", "partial", "failed", "recovery"} :
                   e # d => gs[j][e] = fs[j][e]
             /\ \A k \in Jobs : k # j => gs[k] = fs[k]
BY DEF JobFiles

LEMMA PutTwo ==
  ASSUME NEW fs \in [Jobs -> JobFiles], NEW j \in Jobs,
         NEW db \in File, NEW d \in {"rollback", "staging", "partial", "failed", "recovery"},
         NEW eb \in File, NEW e \in {"rollback", "staging", "partial", "failed", "recovery"}
  PROVE  [fs EXCEPT ![j][d] = db, ![j][e] = eb] \in [Jobs -> JobFiles]
BY DEF JobFiles

(* No directory but own.job's directory d changes, and it holds db.          *)
OnlyOneFile(d, db) ==
    /\ files'[own.job][d] = db
    /\ \A e \in {"rollback", "staging", "partial", "failed", "recovery"} :
          e # d => files'[own.job][e] = files[own.job][e]
    /\ \A k \in Jobs : k # own.job => files'[k] = files[k]

LEMMA OneFileStep ==
  ASSUME files \in [Jobs -> JobFiles], own.job \in Jobs, NEW db \in File,
         NEW d \in {"rollback", "staging", "partial", "failed", "recovery"},
         files' = [files EXCEPT ![own.job][d] = db]
  PROVE  OnlyOneFile(d, db)
BY DEF OnlyOneFile, JobFiles

(* Renames among the other directories of own.job leave its rollback alone. *)
KeepsRollbacks ==
    /\ files'[own.job].rollback = files[own.job].rollback
    /\ \A k \in Jobs : k # own.job => files'[k] = files[k]

LEMMA TwoFilesStep ==
  ASSUME files \in [Jobs -> JobFiles], own.job \in Jobs,
         NEW db \in File, NEW d \in {"staging", "partial", "failed", "recovery"},
         NEW eb \in File, NEW e \in {"staging", "partial", "failed", "recovery"},
         files' = [files EXCEPT ![own.job][d] = db, ![own.job][e] = eb]
  PROVE  KeepsRollbacks
BY DEF KeepsRollbacks, JobFiles

LEMMA TypeStep == TypeOK /\ ReadsHold /\ [Next]_vars => TypeOK'
<1> SUFFICES ASSUME TypeOK, ReadsHold, [Next]_vars PROVE TypeOK'
  OBVIOUS
<1> OwnHolds
  BY DEF ReadsHold
<1> USE DEF OwnSteps, JournaledSteps, InPlace, Moved, Installed, Between, NewAttempt,
            disk, memory
<1>1. CASE Launch
  BY <1>1 DEF Launch, Goto, TypeOK, ProcessSteps
<1>2. CASE Quit \/ Crash
  BY <1>2 DEF Quit, Crash, Decide, Fail, Fault, Goto, TypeOK, ProcessSteps
<1>3. CASE BusinessWrite
  BY <1>3 DEF BusinessWrite, TypeOK, File, Database, ReadsHold, ServingHolds
<1>4. CASE \E v \in Versions : InstallVersion(v)
  BY <1>4 DEF InstallVersion, TypeOK
<1>5. CASE ReadJournal
  BY <1>5 DEF ReadJournal, ReadNoJournal, ReadFinishedJournal, ReadUnfinishedJournal,
     ClearLock, Goto, Return, OnlyReturns, TypeOK, ProcessSteps, UndoSteps
<1>6. CASE AcceptInstalled
  BY <1>6, OwnTyped DEF AcceptInstalled, Record, Goto, WriteJournal, TypeOK, ProcessSteps, UndoSteps, Journal, Phases
<1>7. CASE UndoWithRollback \/ UndoWithoutRollback
  BY <1>7 DEF UndoWithRollback, UndoWithoutRollback, TypeOK, ProcessSteps, UndoSteps
<1>8. CASE UndoRefused \/ PreserveRefused \/ UndoFails
  <2>1. at \in UndoSteps /\ Abandon /\ faults' \in Nat
    BY <1>8 DEF UndoRefused, Undoing, PreserveRefused, UndoFails, UndoSteps, Fault, TypeOK
  <2> QED
    BY <2>1, OwnTyped DEF Abandon, Return, ReturnUnlocking, WriteJournal, TypeOK, ProcessSteps, UndoSteps, Journal
<1>9. CASE VerifyRestored
  BY <1>9, OwnTyped DEF VerifyRestored, Decide, Goto, Abandon, Return, ReturnUnlocking, WriteJournal, TypeOK, ProcessSteps, UndoSteps, Journal
<1>10. CASE Settle \/ FinishReconcile
  BY <1>10, OwnTyped DEF Settle, FinishReconcile, Return, ReturnUnlocking, WriteJournal,
     TypeOK, ProcessSteps, UndoSteps, Journal, Phases
<1>11. CASE PreserveFailed
  <2>1. /\ at \in OwnSteps /\ own.job \in Jobs /\ mine.staging \in File
    BY <1>11, OwnTyped DEF PreserveFailed, FileStep, Goto
  <2>2. Absent \in File /\ current \in File /\ files \in [Jobs -> JobFiles]
    BY DEF File, TypeOK
  <2>3. files' \in [Jobs -> JobFiles] /\ current' \in File
    <3>1. CASE moving = "current"
      <4>1. current' = Absent /\ files' = [files EXCEPT ![own.job]["partial"] = current]
        BY <1>11, <3>1 DEF PreserveFailed, Put
      <4> QED
        BY <2>1, <2>2, <4>1, PutOne
    <3>2. CASE moving # "current"
      <4>1. /\ current' = current
            /\ files' = [files EXCEPT ![own.job]["partial"] = mine.staging,
                                     ![own.job]["staging"] = Absent]
        BY <1>11, <3>2 DEF PreserveFailed
      <4> QED
        BY <2>1, <2>2, <4>1, PutTwo
    <3> QED
      BY <3>1, <3>2
  <2> QED
    BY <1>11, <2>3 DEF PreserveFailed, FileStep, Goto, TypeOK, ProcessSteps, UndoSteps
<1>12. CASE AlreadyPreserved
  BY <1>12 DEF AlreadyPreserved, FileStep, Goto, AfterPreserving, TypeOK, ProcessSteps, UndoSteps
<1>13. CASE PromoteFailed
  <2>1. /\ at \in OwnSteps /\ own.job \in Jobs /\ mine.partial \in File /\ Absent \in File
    BY <1>13, OwnTyped DEF PromoteFailed, FileStep, Goto, File
  <2> QED
    BY <1>13, <2>1, PutTwo DEF PromoteFailed, FileStep, Goto, AfterPreserving, TypeOK,
       ProcessSteps, UndoSteps
<1>14. CASE ClearStaging
  <2>1. /\ at \in OwnSteps /\ own.job \in Jobs /\ Absent \in File
    BY <1>14, OwnTyped DEF ClearStaging, FileStep, Goto, File
  <2> QED
    BY <1>14, <2>1, PutOne DEF ClearStaging, FileStep, Goto, Put, TypeOK, ProcessSteps, UndoSteps
<1>15. CASE RestoreOriginal
  <2>1. /\ at \in OwnSteps /\ own.job \in Jobs /\ mine.rollback \in File /\ Absent \in File
    BY <1>15, OwnTyped DEF RestoreOriginal, FileStep, Goto, File
  <2> QED
    BY <1>15, <2>1, PutOne DEF RestoreOriginal, FileStep, Goto, Put, TypeOK, ProcessSteps, UndoSteps
<1>16. CASE InspectNothingToDo \/ AcquireLock \/ VerifySource
  BY <1>16 DEF InspectNothingToDo, AcquireLock, VerifySource, Return, ReturnUnlocking,
     OnlyReturns, TypeOK, ProcessSteps
<1>17. CASE \E j \in Jobs : InspectOlder(j)
  BY <1>17 DEF InspectOlder, Goto, TypeOK, ProcessSteps, Journal, Phases, Unfinished, File
<1>18. CASE WritePrepared \/ WriteRecoveryReady \/ WriteOriginalMoved \/ WriteCandidateMoved
  BY <1>18, OwnTyped DEF WritePrepared, WriteRecoveryReady, WriteOriginalMoved,
     WriteCandidateMoved, Record, WriteJournal, Goto, TypeOK, ProcessSteps, Journal, Phases,
     Unfinished
<1>19. CASE WriteBlocked \/ WriteCompleted
  BY <1>19, OwnTyped DEF WriteBlocked, WriteCompleted, ReturnUnlocking, WriteJournal,
     TypeOK, ProcessSteps, Journal, Phases
<1>20. CASE WriteCandidateReady
  BY <1>20, OwnTyped DEF WriteCandidateReady, Goto, TypeOK, ProcessSteps, Journal, Phases, Unfinished
<1>21. CASE CreateRecoveryPoint
  <2>1. /\ at \in OwnSteps /\ own.job \in Jobs
    BY <1>21, OwnTyped DEF CreateRecoveryPoint, FileStep, Goto
  <2> QED
    BY <1>21, <2>1, PutOne DEF CreateRecoveryPoint, FileStep, Goto, Put, TypeOK, ProcessSteps
<1>22. CASE CopyCandidate
  <2>1. /\ at \in OwnSteps /\ own.job \in Jobs /\ mine.recovery \in File
    BY <1>22, OwnTyped DEF CopyCandidate, FileStep, Goto
  <2> QED
    BY <1>22, <2>1, PutOne DEF CopyCandidate, FileStep, Goto, Put, TypeOK, ProcessSteps
<1>23. CASE MigrateCandidate \/ DamageCandidate
  <2>1. /\ at \in OwnSteps /\ at = "migrating"
    BY <1>23 DEF MigrateCandidate, DamageCandidate, FileStep, Goto
  <2>2. mine.staging \in Database /\ own.job \in Jobs
    BY <2>1, OwnTyped DEF ReadsHold, mine
  <2>3. /\ Migrated(mine.staging) \in File
        /\ [Migrated(mine.staging) EXCEPT !.sound = FALSE] \in File
    BY <2>1, <2>2, OwnTyped, VersionAssumption DEF Migrated, Database, File
  <2>4. files' \in [Jobs -> JobFiles]
    <3>1. PICK db \in File : files' = [files EXCEPT ![own.job]["staging"] = db]
      BY <1>23, <2>3 DEF MigrateCandidate, DamageCandidate, Put
    <3>2. files \in [Jobs -> JobFiles]
      BY DEF TypeOK
    <3> QED
      BY <2>2, <3>1, <3>2, PutOne
  <2> QED
    BY <1>23, <2>4 DEF MigrateCandidate, DamageCandidate, FileStep, Goto, Fault, TypeOK,
       ProcessSteps
<1>24. CASE CheckCandidate \/ CheckOriginal \/ VerifyInstalled
  BY <1>24 DEF CheckCandidate, CheckOriginal, VerifyInstalled, Decide, Goto, TypeOK,
     ProcessSteps, UndoSteps
<1>25. CASE MoveOriginal
  <2>1. /\ at \in OwnSteps /\ own.job \in Jobs /\ Absent \in File
    BY <1>25, OwnTyped DEF MoveOriginal, FileStep, Goto, File
  <2> QED
    BY <1>25, <2>1, PutOne DEF MoveOriginal, FileStep, Goto, Put, TypeOK, ProcessSteps
<1>26. CASE MoveCandidate
  <2>1. /\ at \in OwnSteps /\ own.job \in Jobs /\ Absent \in File /\ mine.staging \in File
    BY <1>26, OwnTyped DEF MoveCandidate, FileStep, Goto, File
  <2> QED
    BY <1>26, <2>1, PutOne DEF MoveCandidate, FileStep, Goto, Put, TypeOK, ProcessSteps
<1>27. CASE Unlock
  BY <1>27 DEF Unlock, AfterUnlock, Goto, TypeOK, ProcessSteps
<1>28. CASE CreateDatabase \/ CreationDies
  <2>1. \E schema, generation \in Nat : current' = Fresh(schema, generation)
    BY <1>28, VersionAssumption DEF CreateDatabase, CreationDies, TypeOK
  <2>2. current' \in File
    BY <2>1 DEF Fresh, File, Database
  <2> QED
    BY <1>28, <2>2 DEF CreateDatabase, CreationDies, Opens, Goto, Fault, TypeOK, ProcessSteps
<1>29. CASE OpenForWriting \/ OpenProtected
  BY <1>29, VersionAssumption DEF OpenForWriting, OpenProtected, MayServe, Opens, Goto,
     TypeOK, ProcessSteps, File, Database
<1>30. CASE InspectionFails \/ VerifySourceFails \/ UncaughtFailure
  BY <1>30 DEF InspectionFails, VerifySourceFails, UncaughtFailure, Fault, Return,
     ReturnUnlocking, OnlyReturns, TypeOK, ProcessSteps
<1>33. CASE LockFails
  <2>1. lock' \in {lock, TRUE} /\ lock \in BOOLEAN
    BY <1>33 DEF LockFails, TypeOK
  <2>2. lock' \in BOOLEAN
    BY <2>1, Zenon
  <2>3. at' = "opening" /\ answer' = "blocked" /\ faults' \in Nat
    BY <1>33 DEF LockFails, Fault, Return, TypeOK
  <2> QED
    BY <1>33, <2>2, <2>3 DEF LockFails, TypeOK, ProcessSteps
<1>32. CASE ClearLockFails \/ AttemptFails \/ SwitchFails \/ UnlockFails
  BY <1>32 DEF ClearLockFails, AttemptFails, SwitchFails, UnlockFails, Fail, Fault, Goto,
     AfterUnlock, TypeOK, ProcessSteps, UndoSteps
<1>31. CASE UNCHANGED vars
  BY <1>31 DEF vars, TypeOK
<1> QED
  BY <1>1, <1>2, <1>3, <1>4, <1>5, <1>6, <1>7, <1>8, <1>9, <1>10, <1>11, <1>12, <1>13,
     <1>14, <1>15, <1>16, <1>17, <1>18, <1>19, <1>20, <1>21, <1>22, <1>23, <1>24, <1>25,
     <1>26, <1>27, <1>28, <1>29, <1>30, <1>31, <1>32, <1>33
     DEF Next, Startup, User, Failure, Undo, Attempt, Switch, Open

-----------------------------------------------------------------------------
(* Rewriting the journal in memory and on disk with another phase.          *)
LEMMA JournalWritten ==
  ASSUME IInv, at \in OwnSteps, NEW phase \in Phases, WriteJournal(phase)
  PROVE  /\ journal' = own' /\ journal' \in Journal /\ journal' # NoJournal
         /\ journal'.phase = phase /\ journal'.job = own.job
         /\ journal'.source = own.source /\ journal'.candidate = own.candidate
         /\ journal'.target = own.target
<1>1. own \in Journal
  BY OwnType
<1> QED
  BY <1>1, JournalAssumption DEF WriteJournal, Journal

(* Giving up an undo rewrites the journal as it is.                         *)
LEMMA AbandonKeeps ==
  ASSUME IInv, at \in UndoSteps, Abandon
  PROVE  /\ UNCHANGED <<current, files, journal, own, latest, used>>
         /\ answer' = "blocked" /\ at' \in {"opening", "unlocking"}
<1>1. at \in JournaledSteps \cup {"reconciled"}
  BY DEF UndoSteps, JournaledSteps, InPlace, Moved, Installed, Between
<1>2. own = journal /\ own \in Journal
  BY <1>1, OwnType DEF IInv, ProcessInv, JournalIsOwn, OwnSteps
<1>3. [own EXCEPT !.phase = own.phase] = own
  BY <1>2 DEF Journal
<1> QED
  BY <1>2, <1>3 DEF Abandon, Return, ReturnUnlocking, WriteJournal

LEMMA InvStep == IInv /\ [Next]_vars => (DiskInv /\ ProcessInv)'
<1> SUFFICES ASSUME IInv, [Next]_vars PROVE (DiskInv /\ ProcessInv)'
  OBVIOUS
<1> USE DEF OwnSteps, JournaledSteps, InPlace, Moved, Installed, Between, NewAttempt,
            SettledSteps, Settled, Unfinished, Verified, disk, memory
<1> USE DEF DiskInv, ProcessInv, CurrentHolds, MissingIsExplained, JobsAreFresh,
            UnfinishedHolds, EveryCrashPointReconciles, SettledHolds, ServingHolds,
            NewAttemptHolds, JournalIsOwn, PositionHolds, CandidateHolds, SourceInPlace,
            SourceMoved, SourceReplacedBy
<1> DiskInv /\ ProcessInv
  BY DEF IInv
<1>1. CASE Launch
  BY <1>1 DEF Launch, Goto
<1>2. CASE Quit \/ Crash
  BY <1>2 DEF Quit, Crash, Decide, Fail, Fault, Goto
<1>3. CASE UNCHANGED vars \/ \E v \in Versions : InstallVersion(v)
  BY <1>3 DEF InstallVersion, vars
<1>4. CASE ReadJournal
  BY <1>4 DEF ReadJournal, ReadNoJournal, ReadFinishedJournal, ReadUnfinishedJournal,
     ClearLock, Goto, Return, OnlyReturns
<1>5. CASE UndoRefused \/ PreserveRefused \/ UndoFails
  <2>1. at \in UndoSteps /\ Abandon
    BY <1>5 DEF UndoRefused, Undoing, PreserveRefused, UndoFails, UndoSteps
  <2> QED
    BY <2>1, AbandonKeeps
<1>6. CASE VerifyRestored
  <2>1. CASE current = own.source
    BY <1>6, <2>1 DEF VerifyRestored, Decide, Goto
  <2>2. CASE current # own.source
    BY <1>6, <2>2, AbandonKeeps DEF VerifyRestored, UndoSteps
  <2> QED
    BY <2>1, <2>2
<1>7. CASE InspectNothingToDo \/ AcquireLock \/ VerifySource
  BY <1>7 DEF InspectNothingToDo, AcquireLock, VerifySource, Return, ReturnUnlocking, OnlyReturns
<1>8. CASE FinishReconcile \/ Unlock
  BY <1>8 DEF FinishReconcile, Unlock, AfterUnlock, Goto, Return
<1>9. CASE CheckCandidate \/ CheckOriginal \/ VerifyInstalled
  BY <1>9 DEF CheckCandidate, CheckOriginal, VerifyInstalled, IsVerifiedCandidate, Decide, Goto, mine
<1>10. CASE InspectionFails \/ VerifySourceFails \/ UncaughtFailure \/ LockFails
  BY <1>10 DEF InspectionFails, VerifySourceFails, UncaughtFailure, LockFails, Fault, Return,
     ReturnUnlocking, OnlyReturns
<1>11. CASE ClearLockFails \/ AttemptFails \/ SwitchFails \/ UnlockFails
  BY <1>11 DEF ClearLockFails, AttemptFails, SwitchFails, UnlockFails, Fail, Fault, Goto, AfterUnlock
<1>12. CASE UndoWithRollback \/ UndoWithoutRollback
  BY <1>12 DEF UndoWithRollback, UndoWithoutRollback, Undoing, InstalledIsCandidate, mine
<1>13. CASE AlreadyPreserved
  <2>1. moving \in {"current", "staging"}
    BY DEF IInv, TypeOK
  <2> QED
    BY <1>13, <2>1 DEF AlreadyPreserved, FileStep, Goto, AfterPreserving, MovedFile
<1>14. CASE BusinessWrite
  <2>1. current \in Database /\ latest \in Nat
    BY <1>14 DEF BusinessWrite, IInv, TypeOK, File
  <2>2. current' \in Database /\ current'.data = latest' /\ current'.sound
    BY <1>14, <2>1 DEF BusinessWrite, Database
  <2>3. current' # Absent
    BY <2>2, AbsentAssumption
  <2> QED
    BY <1>14, <2>2, <2>3 DEF BusinessWrite
<1>15. CASE CreateDatabase \/ CreationDies
  <2>1. /\ current = Absent /\ answer = "fresh" /\ at = "opening" /\ at' \in {"serving", "off"}
        /\ UNCHANGED <<files, journal, own, answer, latest, used>>
    BY <1>15 DEF CreateDatabase, CreationDies, Opens, Goto, MayCreate
  <2>2. \E schema, generation \in Nat : current' = Fresh(schema, generation)
    BY <1>15, VersionAssumption DEF CreateDatabase, CreationDies, IInv, TypeOK
  <2>3. current' \in Database /\ current'.data = 0 /\ current'.sound
    BY <2>2 DEF Fresh, Database
  <2>4. current' # Absent
    BY <2>3, AbsentAssumption
  <2>5. journal = NoJournal /\ latest = 0
    BY <2>1
  <2> QED
    BY <2>1, <2>3, <2>4, <2>5
<1>16. CASE OpenForWriting
  <2>1. current \in Database /\ GenerationOf[version] \in Nat
    BY <1>16, VersionAssumption DEF OpenForWriting, MayServe, IInv, TypeOK, File
  <2>2. /\ current' \in Database /\ current'.data = current.data
        /\ current'.sound = current.sound
    BY <1>16, <2>1 DEF OpenForWriting, Database
  <2>3. current # Absent /\ current' # Absent
    BY <2>1, <2>2, AbsentAssumption
  <2> QED
    BY <1>16, <2>2, <2>3 DEF OpenForWriting, Opens, Goto, MayServe
<1>17. CASE OpenProtected
  BY <1>17 DEF OpenProtected, Opens, Goto
<1>18. CASE AcceptInstalled \/ Settle
  <2>1. at \in OwnSteps /\ own = journal /\ own.phase \in Unfinished
    BY <1>18 DEF AcceptInstalled, Settle, Record, Goto
  <2>2. PICK phase \in {"completed", "rolled_back"} : WriteJournal(phase)
    BY <1>18 DEF AcceptInstalled, Settle, Record
  <2>3. phase \in Phases /\ phase \notin Unfinished
    BY DEF Phases
  <2>4. UNCHANGED <<current, files, latest, used>>
    BY <1>18 DEF AcceptInstalled, Settle, Record
  <2>5. /\ at' \in {"reconciled", "unlocking"}
        /\ (at = "reconciling" /\ at' = "reconciled") \/ at = "settling"
    BY <1>18 DEF AcceptInstalled, Settle, Record, Goto, ReturnUnlocking
  <2>6. current # Absent
    BY <1>18, <2>1, AbsentAssumption, OwnType DEF AcceptInstalled, Settle, InstalledIsCandidate
  <2> QED
    BY <2>1, <2>2, <2>3, <2>4, <2>5, <2>6, JournalWritten
<1>19. CASE \E j \in Jobs : InspectOlder(j)
  <2>1. PICK j \in Jobs : InspectOlder(j)
    BY <1>19
  <2>2. /\ own'.job = j /\ own'.source = current /\ own'.phase = "prepared"
        /\ own' \in Journal
    BY <2>1 DEF InspectOlder, IInv, TypeOK, Journal, Phases, File
  <2>3. own' # NoJournal
    BY <2>2, JournalAssumption
  <2>4. /\ at = "inspecting" /\ at' = "locking" /\ current # Absent
        /\ used' = used \cup {j} /\ j \notin used
        /\ UNCHANGED <<current, files, journal, latest>>
    BY <2>1 DEF InspectOlder, Goto
  <2> QED
    BY <2>2, <2>3, <2>4
<1>20. CASE WritePrepared
  <2>1. /\ at = "writing_prepared" /\ at' = "creating_recovery"
        /\ WriteJournal("prepared") /\ UNCHANGED <<current, files, latest, used>>
    BY <1>20 DEF WritePrepared, Record, Goto
  <2>2. "prepared" \in Phases /\ files[own.job].rollback = Absent
    BY <2>1 DEF Phases, NoFiles
  <2> QED
    BY <2>1, <2>2, JournalWritten
<1>21. CASE WriteRecoveryReady
  <2>1. /\ at = "writing_recovery_ready" /\ at' = "copying"
        /\ WriteJournal("recovery_ready") /\ UNCHANGED <<current, files, latest, used>>
    BY <1>21 DEF WriteRecoveryReady, Record, Goto
  <2>2. "recovery_ready" \in Phases
    BY DEF Phases
  <2> QED
    BY <2>1, <2>2, JournalWritten
<1>22. CASE WriteBlocked
  <2>1. /\ at = "writing_blocked" /\ at' = "unlocking"
        /\ WriteJournal("blocked") /\ UNCHANGED <<current, files, latest, used>>
    BY <1>22 DEF WriteBlocked, ReturnUnlocking
  <2>2. "blocked" \in Phases /\ own.source # Absent
    BY <2>1, OwnType, AbsentAssumption DEF Phases
  <2> QED
    BY <2>1, <2>2, JournalWritten
<1>23. CASE WriteCandidateReady
  <2>1. /\ at = "writing_candidate_ready" /\ at' = "checking_original"
        /\ UNCHANGED <<current, files, latest, used>>
        /\ own' = [own EXCEPT !.phase = "candidate_ready", !.candidate = files[own.job].staging]
        /\ journal' = own'
    BY <1>23 DEF WriteCandidateReady, Goto, mine
  <2>2. /\ own' \in Journal /\ own'.phase = "candidate_ready" /\ own'.job = own.job
        /\ own'.source = own.source /\ own'.candidate = files[own.job].staging
    BY <2>1, OwnType DEF Journal, Phases, mine
  <2>3. journal' # NoJournal
    BY <2>1, <2>2, JournalAssumption
  <2> QED
    BY <2>1, <2>2, <2>3
<1>24. CASE WriteOriginalMoved
  <2>1. /\ at = "writing_original_moved" /\ at' = "moving_candidate"
        /\ WriteJournal("original_moved") /\ UNCHANGED <<current, files, latest, used>>
    BY <1>24 DEF WriteOriginalMoved, Record, Goto
  <2>2. "original_moved" \in Phases
    BY DEF Phases
  <2> QED
    BY <2>1, <2>2, JournalWritten
<1>25. CASE WriteCandidateMoved
  <2>1. /\ at = "writing_candidate_moved" /\ at' = "verifying_installed"
        /\ WriteJournal("candidate_moved") /\ UNCHANGED <<current, files, latest, used>>
    BY <1>25 DEF WriteCandidateMoved, Record, Goto
  <2>2. "candidate_moved" \in Phases
    BY DEF Phases
  <2> QED
    BY <2>1, <2>2, JournalWritten
<1>26. CASE WriteCompleted
  <2>1. /\ at = "writing_completed" /\ at' = "unlocking"
        /\ WriteJournal("completed") /\ UNCHANGED <<current, files, latest, used>>
    BY <1>26 DEF WriteCompleted, ReturnUnlocking
  <2>2. "completed" \in Phases
    BY DEF Phases
  <2> QED
    BY <2>1, <2>2, JournalWritten
<1>27. CASE CreateRecoveryPoint
  <2>1. /\ at = "creating_recovery" /\ at' = "writing_recovery_ready"
        /\ files' = [files EXCEPT ![own.job]["recovery"] = current]
        /\ UNCHANGED <<current, journal, own, undoing, moving, answer, latest, used>>
    BY <1>27 DEF CreateRecoveryPoint, FileStep, Goto, Put, mine
  <2>2. /\ own.job \in Jobs /\ current \in File /\ files \in [Jobs -> JobFiles]
        /\ own.job \in used
    BY <2>1, OwnType DEF IInv, TypeOK, mine, File
  <2>3. OnlyOneFile("recovery", current)
    BY <2>1, <2>2, OneFileStep
  <2> QED
    BY <2>1, <2>2, <2>3 DEF OnlyOneFile
<1>28. CASE CopyCandidate
  <2>1. /\ at = "copying" /\ at' = "migrating"
        /\ files' = [files EXCEPT ![own.job]["staging"] = files[own.job].recovery]
        /\ UNCHANGED <<current, journal, own, undoing, moving, answer, latest, used>>
    BY <1>28 DEF CopyCandidate, FileStep, Goto, Put, mine
  <2>2. /\ own.job \in Jobs /\ files[own.job].recovery \in File /\ files \in [Jobs -> JobFiles]
        /\ own.job \in used
    BY <2>1, OwnType DEF IInv, TypeOK, mine, File
  <2>3. OnlyOneFile("staging", files[own.job].recovery)
    BY <2>1, <2>2, OneFileStep
  <2> QED
    BY <2>1, <2>2, <2>3 DEF OnlyOneFile
<1>29. CASE ClearStaging
  <2>1. /\ at = "clearing_staging" /\ at' \in {"restoring", "settling"}
        /\ files' = [files EXCEPT ![own.job]["staging"] = Absent]
        /\ UNCHANGED <<current, journal, own, undoing, moving, answer, latest, used>>
        /\ (at' = "restoring") = (files[own.job].rollback # Absent)
    BY <1>29 DEF ClearStaging, FileStep, Goto, Put, mine
  <2>2. /\ own.job \in Jobs /\ Absent \in File /\ files \in [Jobs -> JobFiles]
        /\ own.job \in used
    BY <2>1, OwnType DEF IInv, TypeOK, mine, File
  <2>3. OnlyOneFile("staging", Absent)
    BY <2>1, <2>2, OneFileStep
  <2> QED
    BY <2>1, <2>2, <2>3 DEF OnlyOneFile
<1>30. CASE RestoreOriginal
  <2>1. /\ at = "restoring" /\ at' = "verifying_restored"
        /\ files' = [files EXCEPT ![own.job]["rollback"] = Absent]
        /\ UNCHANGED <<journal, own, undoing, moving, answer, latest, used>>
        /\ current' = files[own.job].rollback
    BY <1>30 DEF RestoreOriginal, FileStep, Goto, Put, mine
  <2>2. /\ own.job \in Jobs /\ Absent \in File /\ files \in [Jobs -> JobFiles]
        /\ own.job \in used
    BY <2>1, OwnType DEF IInv, TypeOK, mine, File
  <2>3. OnlyOneFile("rollback", Absent)
    BY <2>1, <2>2, OneFileStep
  <2> QED
    BY <2>1, <2>2, <2>3 DEF OnlyOneFile
<1>31. CASE MoveOriginal
  <2>1. /\ at = "moving_original" /\ at' = "writing_original_moved"
        /\ files' = [files EXCEPT ![own.job]["rollback"] = current]
        /\ UNCHANGED <<journal, own, undoing, moving, answer, latest, used>>
        /\ current' = Absent
    BY <1>31 DEF MoveOriginal, FileStep, Goto, Put, mine
  <2>2. /\ own.job \in Jobs /\ current \in File /\ files \in [Jobs -> JobFiles]
        /\ own.job \in used
    BY <2>1, OwnType DEF IInv, TypeOK, mine, File
  <2>3. OnlyOneFile("rollback", current)
    BY <2>1, <2>2, OneFileStep
  <2> QED
    BY <2>1, <2>2, <2>3 DEF OnlyOneFile
<1>32. CASE MoveCandidate
  <2>1. /\ at = "moving_candidate" /\ at' = "writing_candidate_moved"
        /\ files' = [files EXCEPT ![own.job]["staging"] = Absent]
        /\ UNCHANGED <<journal, own, undoing, moving, answer, latest, used>>
        /\ current' = files[own.job].staging
    BY <1>32 DEF MoveCandidate, FileStep, Goto, Put, mine
  <2>2. /\ own.job \in Jobs /\ Absent \in File /\ files \in [Jobs -> JobFiles]
        /\ own.job \in used
    BY <2>1, OwnType DEF IInv, TypeOK, mine, File
  <2>3. OnlyOneFile("staging", Absent)
    BY <2>1, <2>2, OneFileStep
  <2> QED
    BY <2>1, <2>2, <2>3 DEF OnlyOneFile
<1>33. CASE MigrateCandidate \/ DamageCandidate
  <2>1. /\ at = "migrating" /\ at' = "checking_candidate"
        /\ UNCHANGED <<current, journal, own, undoing, moving, answer, latest, used>>
    BY <1>33 DEF MigrateCandidate, DamageCandidate, FileStep, Goto
  <2>2. /\ own.job \in Jobs /\ files \in [Jobs -> JobFiles] /\ own.job \in used
        /\ files[own.job].staging \in Database /\ files[own.job].staging = own.source
        /\ own.target \in Versions
    BY <2>1, OwnType DEF IInv, TypeOK
  <2>3. PICK db : /\ files' = [files EXCEPT ![own.job]["staging"] = db]
                  /\ \/ db = Migrated(files[own.job].staging)
                     \/ db = [Migrated(files[own.job].staging) EXCEPT !.sound = FALSE]
    BY <1>33 DEF MigrateCandidate, DamageCandidate, Put, mine
  <2>4. db \in Database /\ db.data = own.source.data
    <3>1. SchemaOf[own.target] \in Nat /\ GenerationOf[own.target] \in Nat
      BY <2>2, VersionAssumption
    <3>2. /\ Migrated(files[own.job].staging) \in Database
          /\ Migrated(files[own.job].staging).data = own.source.data
      BY <2>2, <3>1 DEF Migrated, Database
    <3> QED
      BY <2>3, <3>2 DEF Database
  <2>5. OnlyOneFile("staging", db) /\ db # Absent
    BY <2>2, <2>3, <2>4, OneFileStep, AbsentAssumption DEF File
  <2> QED
    BY <2>1, <2>2, <2>4, <2>5 DEF OnlyOneFile
<1>34. CASE PreserveFailed
  <2>1. /\ at = "preserving" /\ at' = "promoting"
        /\ UNCHANGED <<journal, own, undoing, moving, answer, latest, used>>
    BY <1>34 DEF PreserveFailed, FileStep, Goto
  <2>2. /\ own.job \in Jobs /\ current \in File /\ files \in [Jobs -> JobFiles]
        /\ files[own.job].staging \in File /\ Absent \in File
        /\ own.job \in used /\ moving \in {"current", "staging"}
    BY <2>1, OwnType DEF IInv, TypeOK, mine, File
  <2>3. CASE moving = "current"
    <3>1. /\ current' = Absent /\ current # Absent
          /\ files' = [files EXCEPT ![own.job]["partial"] = current]
      BY <1>34, <2>3 DEF PreserveFailed, Put, MovedFile
    <3>2. OnlyOneFile("partial", current)
      BY <2>2, <3>1, OneFileStep
    <3> QED
      BY <2>1, <2>2, <2>3, <3>1, <3>2 DEF OnlyOneFile
  <2>4. CASE moving = "staging"
    <3>1. /\ current' = current
          /\ files' = [files EXCEPT ![own.job]["partial"] = files[own.job].staging,
                                   ![own.job]["staging"] = Absent]
      BY <1>34, <2>4 DEF PreserveFailed, mine
    <3>2. KeepsRollbacks
      BY <2>2, <3>1, TwoFilesStep
    <3> QED
      BY <2>1, <2>2, <2>4, <3>1, <3>2 DEF KeepsRollbacks
  <2> QED
    BY <2>2, <2>3, <2>4
<1>35. CASE PromoteFailed
  <2>1. /\ at = "promoting"
        /\ at' = (IF moving = "staging" THEN "clearing_staging" ELSE "restoring")
        /\ UNCHANGED <<current, journal, own, undoing, moving, answer, latest, used>>
    BY <1>35 DEF PromoteFailed, FileStep, Goto, AfterPreserving
  <2>2. /\ own.job \in Jobs /\ files \in [Jobs -> JobFiles]
        /\ files[own.job].partial \in File /\ Absent \in File
        /\ own.job \in used /\ moving \in {"current", "staging"}
    BY <2>1, OwnType DEF IInv, TypeOK, mine, File
  <2>3. files' = [files EXCEPT ![own.job]["failed"] = files[own.job].partial,
                               ![own.job]["partial"] = Absent]
    BY <1>35 DEF PromoteFailed, mine
  <2>4. KeepsRollbacks
    BY <2>2, <2>3, TwoFilesStep
  <2> QED
    BY <2>1, <2>2, <2>4 DEF KeepsRollbacks
<1> QED
  BY <1>1, <1>2, <1>3, <1>4, <1>5, <1>6, <1>7, <1>8, <1>9, <1>10, <1>11, <1>12, <1>13,
     <1>14, <1>15, <1>16, <1>17, <1>18, <1>19, <1>20, <1>21, <1>22, <1>23, <1>24, <1>25,
     <1>26, <1>27, <1>28, <1>29, <1>30, <1>31, <1>32, <1>33, <1>34, <1>35
     DEF Next, Startup, User, Failure, Undo, Attempt, Switch, Open

-----------------------------------------------------------------------------
LEMMA InitInv == Init => IInv
<1> SUFFICES ASSUME Init PROVE IInv
  OBVIOUS
<1>1. TypeOK
  BY DEF Init, TypeOK, File, JobFiles, NoFiles, ProcessSteps
<1>2. DiskInv
  BY DEF Init, DiskInv, CurrentHolds, MissingIsExplained, JobsAreFresh, UnfinishedHolds,
     EveryCrashPointReconciles
<1>3. ProcessInv
  BY DEF Init, ProcessInv, SettledHolds, Settled, SettledSteps, ServingHolds, NewAttemptHolds,
     NewAttempt, JournalIsOwn, JournaledSteps, PositionHolds, CandidateHolds, InPlace, Moved,
     Installed, Between
<1> QED
  BY <1>1, <1>2, <1>3 DEF IInv

LEMMA InvReads == IInv => ReadsHold
<1> SUFFICES ASSUME IInv PROVE ReadsHold
  OBVIOUS
<1>1. OwnHolds /\ ServingHolds
  BY DEF IInv, ProcessInv, OwnHolds, OwnSteps, JournalIsOwn, NewAttemptHolds
<1>2. at = "migrating" => files[own.job].staging \in Database
  BY OwnType DEF IInv, ProcessInv, CandidateHolds, OwnSteps, JournaledSteps, InPlace
<1> QED
  BY <1>1, <1>2 DEF ReadsHold

LEMMA Invariance == Spec => []IInv
<1>1. IInv /\ [Next]_vars => IInv'
  BY TypeStep, InvReads, InvStep DEF IInv
<1> QED
  BY InitInv, <1>1, PTL DEF Spec

(* Every variable keeps its type, whatever dies or fails: in particular the *)
(* journal never holds a half-built record, and a migrated candidate is a   *)
(* database of its target build.                                            *)
THEOREM TypeCorrect == Spec => []TypeOK
BY Invariance, PTL DEF IInv

(* A build that accepts writes serves a sound database with every committed *)
(* write (migration.ts and the gate of SqliteStore.load).                   *)
THEOREM ServingLatest == Spec => []ServesLatest
<1>1. IInv => ServesLatest
  BY DEF IInv, DiskInv, ProcessInv, ServingHolds, CurrentHolds, ServesLatest
<1> QED
  BY Invariance, <1>1, PTL

(* Every state a crash can leave on disk is one reconcile() can undo or     *)
(* accept (the renames of migration.ts and the order of its journal writes).*)
THEOREM CrashPointsReconcile == Spec => []EveryCrashPointReconciles
<1>1. IInv => EveryCrashPointReconciles
  BY DEF IInv, DiskInv
<1> QED
  BY Invariance, <1>1, PTL

-----------------------------------------------------------------------------
(* What a return to the original rests on, beyond IInv.                      *)

(* A migration is of an older schema.                                        *)
SourceIsOlder ==
    /\ at \in NewAttempt => own.source.schema < SchemaOf[own.target]
    /\ journal # NoJournal /\ journal.phase \in Unfinished =>
           journal.source.schema < SchemaOf[journal.target]

(* The candidate that is switched in was verified.                           *)
IsOfJob(db, j) ==
    /\ db.sound /\ db.schema = SchemaOf[j.target] /\ db.generation = GenerationOf[j.target]
    /\ db.lineage = j.job
CandidateIsVerified ==
    /\ journal # NoJournal /\ journal.phase \in Verified => IsOfJob(journal.candidate, journal)
    /\ at = "writing_candidate_ready" => IsOfJob(files[own.job].staging, own)

(* The recovery point is there from the moment it was created.               *)
WithRecoveryPoint == {"writing_recovery_ready", "copying", "migrating", "checking_candidate",
                      "writing_candidate_ready"}
RecoveryHolds == at \in WithRecoveryPoint => files[own.job].recovery = own.source

(* A lock without a journal stops every way to a build that serves.          *)
LockIsExplained ==
    journal = NoJournal /\ lock =>
        \/ at \in {"off", "reading", "verifying_source", "writing_prepared", "protected"}
        \/ at = "unlocking" /\ answer \in {"blocked", "threw"}
        \/ at = "opening" /\ answer = "blocked"

(* What failed before is not overwritten.                                    *)
PromotingFits == at = "promoting" => files[own.job].failed = Absent

WayBack == /\ SourceIsOlder /\ CandidateIsVerified /\ RecoveryHolds
           /\ CompletedKeepsOriginal /\ LockIsExplained /\ PromotingFits
WInv == IInv /\ WayBack

LEMMA InitWay == Init => WInv
<1> SUFFICES ASSUME Init PROVE WInv
  OBVIOUS
<1>1. IInv
  BY InitInv
<1>2. WayBack
  BY DEF Init, WayBack, SourceIsOlder, CandidateIsVerified, RecoveryHolds,
     CompletedKeepsOriginal, LockIsExplained, PromotingFits, NewAttempt, WithRecoveryPoint
<1> QED
  BY <1>1, <1>2 DEF WInv

(* The steps on files are taken while an unfinished journal is the own one,   *)
(* so that a finished one keeps its files.                                   *)
LEMMA WayStep == WInv /\ [Next]_vars => WayBack'
<1> SUFFICES ASSUME WInv, [Next]_vars PROVE WayBack'
  OBVIOUS
<1>0. IInv /\ WayBack /\ TypeOK
  BY DEF WInv, IInv
<1>a. ProcessInv /\ DiskInv
  BY <1>0 DEF IInv
<1> USE DEF WayBack, SourceIsOlder, CandidateIsVerified, RecoveryHolds,
            CompletedKeepsOriginal, LockIsExplained, PromotingFits, WithRecoveryPoint, IsOfJob,
            NewAttempt, Unfinished, Verified, disk, memory, CompletedHolds
<1>1. CASE Launch
  BY <1>0, <1>1 DEF Launch, Goto
<1>2. CASE Quit \/ Crash
  BY <1>0, <1>2 DEF Quit, Crash, Decide, Fail, Fault, Goto
<1>3. CASE UNCHANGED vars \/ \E v \in Versions : InstallVersion(v)
  BY <1>0, <1>3 DEF InstallVersion, vars
<1>4. CASE ReadJournal
  BY <1>0, <1>4 DEF ReadJournal, ReadNoJournal, ReadFinishedJournal, ReadUnfinishedJournal,
     ClearLock, Goto, Return, OnlyReturns
<1>5. CASE UndoRefused \/ PreserveRefused \/ UndoFails
  <2>1. at \in UndoSteps /\ Abandon
    BY <1>5 DEF UndoRefused, Undoing, PreserveRefused, UndoFails, UndoSteps
  <2>2. journal # NoJournal
    BY <1>a, <2>1 DEF UndoSteps, ProcessInv, JournalIsOwn, JournaledSteps, InPlace, Moved,
       Installed, Between
  <2> QED
    BY <1>0, <2>1, <2>2, AbandonKeeps
<1>6. CASE VerifyRestored
  <2>1. CASE current = own.source
    BY <1>0, <1>6, <2>1 DEF VerifyRestored, Decide, Goto
  <2>2. CASE current # own.source
    <3>1. journal # NoJournal
      BY <1>a, <1>6 DEF VerifyRestored, ProcessInv, JournalIsOwn, JournaledSteps, InPlace
    <3> QED
      BY <1>0, <1>6, <2>2, <3>1, AbandonKeeps DEF VerifyRestored, UndoSteps
  <2> QED
    BY <2>1, <2>2
<1>7. CASE InspectNothingToDo \/ AcquireLock \/ VerifySource
  BY <1>0, <1>7 DEF InspectNothingToDo, AcquireLock, VerifySource, Return, ReturnUnlocking, OnlyReturns
<1>8. CASE FinishReconcile \/ Unlock
  BY <1>0, <1>8 DEF FinishReconcile, Unlock, AfterUnlock, Goto, Return
<1>9. CASE CheckCandidate \/ CheckOriginal \/ VerifyInstalled
  BY <1>0, <1>9 DEF CheckCandidate, CheckOriginal, VerifyInstalled, IsVerifiedCandidate, Decide, Goto, mine
<1>10. CASE InspectionFails \/ VerifySourceFails \/ UncaughtFailure \/ LockFails
  BY <1>0, <1>10 DEF InspectionFails, VerifySourceFails, UncaughtFailure, LockFails, Fault, Return,
     ReturnUnlocking, OnlyReturns
<1>11. CASE ClearLockFails \/ AttemptFails \/ SwitchFails \/ UnlockFails
  BY <1>0, <1>11 DEF ClearLockFails, AttemptFails, SwitchFails, UnlockFails, Fail, Fault, Goto, AfterUnlock
<1>12. CASE UndoWithRollback \/ UndoWithoutRollback
  BY <1>0, <1>12 DEF UndoWithRollback, UndoWithoutRollback, Undoing
<1>13. CASE AlreadyPreserved
  BY <1>0, <1>13 DEF AlreadyPreserved, FileStep, Goto, AfterPreserving, MovedFile, mine
<1>14. CASE BusinessWrite
  <2>1. current \in Database
    BY <1>0, <1>a, <1>14 DEF BusinessWrite, TypeOK, File, ProcessInv, ServingHolds
  <2>2. /\ current' # Absent /\ current'.sound = current.sound
        /\ current'.schema = current.schema /\ current'.generation = current.generation
        /\ current'.lineage = current.lineage
    BY <1>0, <1>14, <2>1, AbsentAssumption DEF BusinessWrite, Database, TypeOK
  <2> QED
    BY <1>0, <1>14, <2>2 DEF BusinessWrite
<1>15. CASE CreateDatabase \/ CreationDies
  <2>1. /\ current = Absent /\ answer = "fresh" /\ at = "opening" /\ at' \in {"serving", "off"}
        /\ UNCHANGED <<files, journal, own, lock, answer>>
    BY <1>15 DEF CreateDatabase, CreationDies, Opens, Goto, MayCreate
  <2>2. journal = NoJournal
    BY <1>a, <2>1 DEF ProcessInv, DiskInv, MissingIsExplained, SettledHolds, Settled
  <2> QED
    BY <1>0, <2>1, <2>2
<1>16. CASE OpenForWriting
  <2>1. current \in Database /\ GenerationOf[version] \in Nat /\ current.generation \in Nat
        /\ current.generation <= GenerationOf[version]
    BY <1>0, <1>16, VersionAssumption DEF OpenForWriting, MayServe, TypeOK, File, Database
  <2>2. /\ current' # Absent /\ current'.sound = current.sound
        /\ current'.schema = current.schema /\ current'.lineage = current.lineage
        /\ current'.generation >= current.generation
    BY <1>16, <2>1, AbsentAssumption DEF OpenForWriting, Database
  <2>3. current'.generation \in Nat
    BY <1>16, <2>1 DEF OpenForWriting, Database
  <2>4. /\ at = "opening" /\ at' = "serving" /\ answer # "blocked"
        /\ UNCHANGED <<files, journal, own, lock, answer>>
    BY <1>16 DEF OpenForWriting, Opens, Goto, MayServe
  <2>5. journal # NoJournal => GenerationOf[journal.target] \in Nat
    BY <1>0, VersionAssumption DEF TypeOK, Journal
  <2> QED
    BY <1>0, <2>1, <2>2, <2>3, <2>4, <2>5
<1>17. CASE OpenProtected
  BY <1>0, <1>17 DEF OpenProtected, Opens, Goto
<1>18. CASE AcceptInstalled
  <2>1. /\ at = "reconciling" /\ at' = "reconciled" /\ own = journal /\ journal # NoJournal
        /\ WriteJournal("completed") /\ UNCHANGED <<current, files>> /\ InstalledIsCandidate
    BY <1>18, <1>a DEF AcceptInstalled, Record, Goto, ProcessInv, JournalIsOwn, JournaledSteps,
       Between
  <2>2. /\ journal' # NoJournal /\ journal'.phase = "completed" /\ journal'.job = journal.job
        /\ journal'.source = journal.source /\ journal'.candidate = journal.candidate
        /\ journal'.target = journal.target /\ journal.source \in Database
        /\ journal.target \in Versions
    BY <1>0, <2>1, JournalWritten, OwnType DEF Phases, OwnSteps, JournaledSteps, Between
  <2>3. current = journal.candidate /\ current # Absent /\ journal.phase = "candidate_moved"
    BY <2>1 DEF InstalledIsCandidate
  <2>4. IsOfJob(current, journal) /\ files[journal.job].recovery = journal.source
    BY <1>0, <2>1, <2>3
  <2>5. SchemaOf[journal.target] \in Nat /\ GenerationOf[journal.target] \in Nat
        /\ journal.source.schema < SchemaOf[journal.target]
    BY <1>0, <2>1, <2>2, <2>3, VersionAssumption
  <2>6. current # journal.source
    BY <2>2, <2>4, <2>5 DEF Database
  <2>7. files[journal.job].rollback = journal.source
    BY <1>a, <2>1, <2>3, <2>6 DEF DiskInv, EveryCrashPointReconciles
  <2> QED
    BY <1>0, <2>1, <2>2, <2>3, <2>4, <2>5, <2>7
<1>19. CASE \E j \in Jobs : InspectOlder(j)
  <2>1. PICK j \in Jobs : InspectOlder(j)
    BY <1>19
  <2>2. own'.source = current /\ own'.target = version
    BY <2>1 DEF InspectOlder
  <2>3. at' = "locking" /\ current.schema < SchemaOf[version] /\ at = "inspecting"
        /\ UNCHANGED <<current, files, journal, lock>>
    BY <2>1 DEF InspectOlder, Goto
  <2> QED
    BY <1>0, <2>2, <2>3
<1>20. CASE WritePrepared
  <2>1. /\ at = "writing_prepared" /\ at' = "creating_recovery"
        /\ WriteJournal("prepared") /\ UNCHANGED <<current, files>>
    BY <1>20 DEF WritePrepared, Record, Goto
  <2>2. "prepared" \in Phases /\ at \in OwnSteps
    BY <2>1 DEF Phases, OwnSteps
  <2> QED
    BY <1>0, <2>1, <2>2, JournalWritten
<1>21. CASE WriteRecoveryReady
  <2>1. /\ at = "writing_recovery_ready" /\ at' = "copying"
        /\ WriteJournal("recovery_ready") /\ UNCHANGED <<current, files>>
    BY <1>21 DEF WriteRecoveryReady, Record, Goto
  <2>2. "recovery_ready" \in Phases /\ at \in OwnSteps /\ own = journal
        /\ journal # NoJournal /\ journal.phase \in Unfinished
    BY <1>a, <2>1 DEF Phases, OwnSteps, ProcessInv, JournalIsOwn, JournaledSteps, InPlace
  <2> QED
    BY <1>0, <2>1, <2>2, JournalWritten
<1>22. CASE WriteBlocked \/ Settle
  <2>1. /\ at \in {"writing_blocked", "settling"} /\ at' \in {"unlocking", "reconciled"}
        /\ \E phase \in {"blocked", "rolled_back"} : WriteJournal(phase)
    BY <1>22 DEF WriteBlocked, Settle, ReturnUnlocking
  <2>2. PICK phase \in {"blocked", "rolled_back"} : WriteJournal(phase)
    BY <2>1
  <2>3. phase \in Phases /\ at \in OwnSteps
    BY <2>1 DEF Phases, OwnSteps, JournaledSteps, InPlace
  <2> QED
    BY <1>0, <2>1, <2>2, <2>3, JournalWritten
<1>23. CASE WriteCandidateReady
  <2>1. /\ at = "writing_candidate_ready" /\ at' = "checking_original"
        /\ UNCHANGED <<current, files>>
        /\ own' = [own EXCEPT !.phase = "candidate_ready", !.candidate = files[own.job].staging]
        /\ journal' = own'
    BY <1>23 DEF WriteCandidateReady, Goto, mine
  <2>2. /\ own = journal /\ own \in Journal /\ journal # NoJournal /\ journal.phase \in Unfinished
        /\ files[own.job].staging \in File
    BY <1>0, <1>a, <2>1, OwnType DEF OwnSteps, ProcessInv, JournalIsOwn, JournaledSteps, InPlace,
       mine
  <2>3. /\ own' \in Journal /\ own'.phase = "candidate_ready" /\ own'.job = own.job
        /\ own'.source = own.source /\ own'.candidate = files[own.job].staging
        /\ own'.target = own.target
    BY <2>1, <2>2 DEF Journal, Phases
  <2>4. journal' # NoJournal
    BY <2>1, <2>3, JournalAssumption
  <2> QED
    BY <1>0, <2>1, <2>2, <2>3, <2>4
<1>24. CASE WriteOriginalMoved \/ WriteCandidateMoved
  <2>1. /\ at \in {"writing_original_moved", "writing_candidate_moved"}
        /\ at' \in {"moving_candidate", "verifying_installed"}
        /\ \E phase \in {"original_moved", "candidate_moved"} : WriteJournal(phase)
        /\ UNCHANGED <<current, files>>
    BY <1>24 DEF WriteOriginalMoved, WriteCandidateMoved, Record, Goto
  <2>2. PICK phase \in {"original_moved", "candidate_moved"} : WriteJournal(phase)
    BY <2>1
  <2>3. /\ phase \in Phases /\ at \in OwnSteps /\ own = journal /\ journal # NoJournal
        /\ journal.phase \in Verified
    BY <1>a, <2>1 DEF Phases, OwnSteps, ProcessInv, JournalIsOwn, JournaledSteps, InPlace, Moved,
       Installed, CandidateHolds
  <2> QED
    BY <1>0, <2>1, <2>2, <2>3, JournalWritten
<1>25. CASE WriteCompleted
  <2>1. /\ at = "writing_completed" /\ at' = "unlocking"
        /\ WriteJournal("completed") /\ UNCHANGED <<current, files>>
    BY <1>25 DEF WriteCompleted, ReturnUnlocking
  <2>2. /\ "completed" \in Phases /\ at \in OwnSteps /\ own = journal /\ journal # NoJournal
        /\ journal.phase \in Verified
    BY <1>a, <2>1 DEF Phases, OwnSteps, ProcessInv, JournalIsOwn, JournaledSteps, Installed,
       CandidateHolds
  <2>3. /\ current = journal.candidate /\ current # Absent
        /\ files[journal.job].rollback = journal.source
    BY <1>a, <2>1 DEF ProcessInv, PositionHolds, Installed, SourceReplacedBy
  <2>4. SchemaOf[own.target] \in Nat /\ GenerationOf[own.target] \in Nat
    BY <1>0, <2>2, OwnType, VersionAssumption
  <2> QED
    BY <1>0, <2>1, <2>2, <2>3, <2>4, JournalWritten
<1>26. CASE CreateRecoveryPoint \/ CopyCandidate \/ MigrateCandidate \/ DamageCandidate
            \/ ClearStaging \/ RestoreOriginal \/ MoveOriginal \/ MoveCandidate
            \/ PreserveFailed \/ PromoteFailed
  <2>1. /\ at \in JournaledSteps /\ own' = own /\ journal' = journal
        /\ at' \notin NewAttempt
    BY <1>26 DEF CreateRecoveryPoint, CopyCandidate, MigrateCandidate, DamageCandidate,
       ClearStaging, RestoreOriginal, MoveOriginal, MoveCandidate, PreserveFailed, PromoteFailed,
       FileStep, Goto, AfterPreserving, JournaledSteps, InPlace, Moved, Installed, Between
  <2>2. own = journal /\ journal # NoJournal /\ journal.phase \in Unfinished
    BY <1>a, <2>1 DEF ProcessInv, JournalIsOwn
  <2>3. own.job \in Jobs /\ files \in [Jobs -> JobFiles] /\ current \in File /\ Absent \in File
        /\ mine \in JobFiles
    BY <1>0, <2>1, OwnType DEF TypeOK, OwnSteps, File
  <2>4. SourceIsOlder'
    BY <1>0, <2>1, <2>2
  <2>5. LockIsExplained'
    BY <2>1, <2>2
  <2>6. ASSUME files'[own.job].recovery = files[own.job].recovery
        PROVE  CompletedKeepsOriginal'
    BY <1>0, <2>1, <2>2, <2>6
  <2>7. CASE CreateRecoveryPoint
    <3>1. /\ at = "creating_recovery" /\ at' = "writing_recovery_ready"
          /\ files' = [files EXCEPT ![own.job]["recovery"] = current]
      BY <2>7 DEF CreateRecoveryPoint, FileStep, Goto, Put
    <3>2. current = journal.source
      BY <1>a, <3>1 DEF ProcessInv, PositionHolds, InPlace, SourceInPlace
    <3>3. files'[own.job].recovery = own.source
      BY <2>2, <2>3, <3>1, <3>2, OneFileStep DEF OnlyOneFile
    <3> QED
      BY <1>0, <2>1, <2>2, <2>4, <2>5, <3>1, <3>3
  <2>8. CASE CopyCandidate \/ MigrateCandidate \/ DamageCandidate
    <3>1. /\ at \in {"copying", "migrating"} /\ at' \in {"migrating", "checking_candidate"}
          /\ \E db : files' = [files EXCEPT ![own.job]["staging"] = db]
      BY <2>8 DEF CopyCandidate, MigrateCandidate, DamageCandidate, FileStep, Goto, Put
    <3>2. files'[own.job].recovery = files[own.job].recovery
      BY <2>3, <3>1 DEF JobFiles
    <3> QED
      BY <1>0, <2>1, <2>2, <2>4, <2>5, <2>6, <3>1, <3>2
  <2>9. CASE ClearStaging \/ RestoreOriginal \/ MoveOriginal \/ MoveCandidate
    <3>1. /\ at' \in {"restoring", "settling", "verifying_restored", "writing_original_moved",
                      "writing_candidate_moved"}
          /\ \E db : \/ files' = [files EXCEPT ![own.job]["staging"] = db]
                     \/ files' = [files EXCEPT ![own.job]["rollback"] = db]
      BY <2>9 DEF ClearStaging, RestoreOriginal, MoveOriginal, MoveCandidate, FileStep, Goto, Put
    <3>2. files'[own.job].recovery = files[own.job].recovery
      BY <2>3, <3>1 DEF JobFiles
    <3> QED
      BY <1>0, <2>1, <2>2, <2>4, <2>5, <2>6, <3>1, <3>2
  <2>10. CASE PreserveFailed
    <3>1. /\ at' = "promoting" /\ files[own.job].failed = Absent
          /\ \/ files' = [files EXCEPT ![own.job]["partial"] = current]
             \/ files' = [files EXCEPT ![own.job].partial = mine.staging,
                                      ![own.job].staging = Absent]
      BY <2>10 DEF PreserveFailed, FileStep, Goto, Put, mine
    <3>2. files'[own.job].recovery = files[own.job].recovery
          /\ files'[own.job].failed = files[own.job].failed
      BY <2>3, <3>1 DEF JobFiles
    <3> QED
      BY <1>0, <2>1, <2>2, <2>4, <2>5, <2>6, <3>1, <3>2
  <2>11. CASE PromoteFailed
    <3>1. /\ at' \in {"clearing_staging", "restoring"}
          /\ files' = [files EXCEPT ![own.job].failed = mine.partial,
                                   ![own.job].partial = Absent]
      BY <2>11 DEF PromoteFailed, FileStep, Goto, AfterPreserving
    <3>2. files'[own.job].recovery = files[own.job].recovery
      BY <2>3, <3>1 DEF JobFiles
    <3> QED
      BY <1>0, <2>1, <2>2, <2>4, <2>5, <2>6, <3>1, <3>2
  <2> QED
    BY <1>26, <2>7, <2>8, <2>9, <2>10, <2>11
<1> QED
  BY <1>1, <1>2, <1>3, <1>4, <1>5, <1>6, <1>7, <1>8, <1>9, <1>10, <1>11, <1>12, <1>13,
     <1>14, <1>15, <1>16, <1>17, <1>18, <1>19, <1>20, <1>21, <1>22, <1>23, <1>24, <1>25, <1>26
     DEF Next, Startup, User, Failure, Undo, Attempt, Switch, Open

LEMMA WayInvariance == Spec => []WInv
<1>1. WInv /\ [Next]_vars => WInv'
  BY TypeStep, InvReads, InvStep, WayStep DEF WInv, IInv
<1> QED
  BY InitWay, <1>1, PTL DEF Spec

(* What a finished or interrupted migration leaves to bring data back with    *)
(* stays there, and no build that accepts writes leaves a lock that would shut *)
(* the next launch out (the journal writes of migration.ts against its        *)
(* renames, and the lock against every way out of run()).                     *)
THEOREM WayBackIsKept == Spec => []KeepsTheWayBack
<1>1. WInv => KeepsTheWayBack
  BY DEF WInv, WayBack, KeepsTheWayBack, ServesWithoutOrphanLock, LockIsExplained
<1> QED
  BY WayInvariance, <1>1, PTL

-----------------------------------------------------------------------------
(* Databases are moved, not dropped.                                         *)
Traces(f) == {f.rollback, f.partial, f.failed}

(* Only the files of one job change, and what they and current held is held.  *)
LEMMA EvidenceMoves ==
  ASSUME files \in [Jobs -> JobFiles], NEW j \in Jobs,
         \A k \in Jobs : k # j => files'[k] = files[k],
         ({current} \cup Traces(files[j])) \ {Absent} \subseteq {current'} \cup Traces(files'[j])
  PROVE  Evidence \subseteq Evidence'
<1> SUFFICES ASSUME NEW db \in Evidence PROVE db \in Evidence'
  OBVIOUS
<1>1. db # Absent
  BY DEF Evidence
<1>2. ASSUME db \in {current'} \cup Traces(files'[j])
      PROVE  db \in Evidence'
  BY <1>1, <1>2 DEF Evidence, Traces
<1>3. CASE db = current
  BY <1>1, <1>2, <1>3
<1>4. ASSUME NEW k \in Jobs, db \in Traces(files[k])
      PROVE  db \in Evidence'
  <2>1. CASE k = j
    BY <1>1, <1>2, <1>4, <2>1
  <2>2. CASE k # j
    BY <1>1, <1>4, <2>2 DEF Evidence, Traces
  <2> QED
    BY <2>1, <2>2
<1> QED
  BY <1>3, <1>4 DEF Evidence, Traces

LEMMA EvidenceStays ==
  ASSUME current' = current, files' = files
  PROVE  Evidence \subseteq Evidence'
BY DEF Evidence

(* Every rename finds its place empty.                                       *)
RenamesFindRoom ==
    /\ at = "moving_original" => files[own.job].rollback = Absent
    /\ at \in {"moving_candidate", "restoring"} => current = Absent
    /\ PromotingFits

LEMMA EvidenceStep ==
  ASSUME TypeOK, OwnHolds, RenamesFindRoom, [Next]_vars, at \notin {"opening", "serving"}
  PROVE  Evidence \subseteq Evidence'
<1> USE DEF disk, memory
<1>1. CASE Launch \/ Quit \/ Crash \/ UNCHANGED vars \/ \E v \in Versions : InstallVersion(v)
  BY <1>1, EvidenceStays DEF Launch, Quit, Crash, Decide, Fail, InstallVersion, vars
<1>2. CASE ReadJournal
  BY <1>2, EvidenceStays DEF ReadJournal, ReadNoJournal, ReadFinishedJournal,
     ReadUnfinishedJournal, ClearLock, OnlyReturns
<1>3. CASE UndoRefused \/ PreserveRefused \/ UndoFails \/ VerifyRestored
  BY <1>3, EvidenceStays DEF UndoRefused, PreserveRefused, UndoFails, VerifyRestored, Abandon,
     Decide
<1>4. CASE InspectNothingToDo \/ AcquireLock \/ VerifySource \/ FinishReconcile \/ Unlock
           \/ CheckCandidate \/ CheckOriginal \/ VerifyInstalled
  BY <1>4, EvidenceStays DEF InspectNothingToDo, AcquireLock, VerifySource, FinishReconcile,
     Unlock, CheckCandidate, CheckOriginal, VerifyInstalled, Decide, OnlyReturns
<1>5. CASE InspectionFails \/ VerifySourceFails \/ UncaughtFailure \/ LockFails \/ ClearLockFails
           \/ AttemptFails \/ SwitchFails \/ UnlockFails
  BY <1>5, EvidenceStays DEF InspectionFails, VerifySourceFails, UncaughtFailure, LockFails,
     ClearLockFails, AttemptFails, SwitchFails, UnlockFails, Fail, OnlyReturns
<1>6. CASE UndoWithRollback \/ UndoWithoutRollback \/ AlreadyPreserved \/ AcceptInstalled
           \/ Settle \/ \E j \in Jobs : InspectOlder(j)
  BY <1>6, EvidenceStays DEF UndoWithRollback, UndoWithoutRollback, AlreadyPreserved,
     AcceptInstalled, Settle, InspectOlder, Record
<1>7. CASE WritePrepared \/ WriteRecoveryReady \/ WriteBlocked \/ WriteCandidateReady
           \/ WriteOriginalMoved \/ WriteCandidateMoved \/ WriteCompleted
  BY <1>7, EvidenceStays DEF WritePrepared, WriteRecoveryReady, WriteBlocked,
     WriteCandidateReady, WriteOriginalMoved, WriteCandidateMoved, WriteCompleted, Record
<1>8. CASE BusinessWrite \/ CreateDatabase \/ CreationDies \/ OpenForWriting \/ OpenProtected
  BY <1>8 DEF BusinessWrite, CreateDatabase, CreationDies, OpenForWriting, OpenProtected, Opens,
     Goto
<1>9. ASSUME at \in JournaledSteps
      PROVE  /\ own.job \in Jobs /\ files \in [Jobs -> JobFiles]
             /\ files[own.job] \in JobFiles
  BY <1>9, OwnTyped DEF OwnSteps, TypeOK, mine
<1>10. CASE CreateRecoveryPoint \/ CopyCandidate \/ MigrateCandidate \/ DamageCandidate
            \/ ClearStaging
  <2>1. /\ at \in JournaledSteps /\ current' = current
        /\ \E db : \/ files' = [files EXCEPT ![own.job]["recovery"] = db]
                   \/ files' = [files EXCEPT ![own.job]["staging"] = db]
    BY <1>10 DEF CreateRecoveryPoint, CopyCandidate, MigrateCandidate, DamageCandidate,
       ClearStaging, FileStep, Goto, Put, JournaledSteps, InPlace, Between
  <2>2. /\ Traces(files'[own.job]) = Traces(files[own.job])
        /\ \A k \in Jobs : k # own.job => files'[k] = files[k]
    BY <1>9, <2>1 DEF Traces, JobFiles
  <2> QED
    BY <1>9, <2>1, <2>2, EvidenceMoves
<1>11. CASE MoveOriginal
  <2>1. /\ at = "moving_original" /\ at \in JournaledSteps /\ current' = Absent
        /\ files' = [files EXCEPT ![own.job]["rollback"] = current]
    BY <1>11 DEF MoveOriginal, FileStep, Goto, Put, JournaledSteps, InPlace
  <2>2. files[own.job].rollback = Absent
    BY <2>1 DEF RenamesFindRoom
  <2>3. /\ files'[own.job].rollback = current
        /\ files'[own.job].partial = files[own.job].partial
        /\ files'[own.job].failed = files[own.job].failed
        /\ \A k \in Jobs : k # own.job => files'[k] = files[k]
    BY <1>9, <2>1 DEF JobFiles
  <2> QED
    BY <1>9, <2>1, <2>2, <2>3, EvidenceMoves DEF Traces
<1>12. CASE MoveCandidate \/ RestoreOriginal
  <2>1. /\ at \in {"moving_candidate", "restoring"} /\ at \in JournaledSteps
        /\ \/ files' = [files EXCEPT ![own.job]["staging"] = Absent]
           \/ /\ files' = [files EXCEPT ![own.job]["rollback"] = Absent]
              /\ current' = files[own.job].rollback
    BY <1>12 DEF MoveCandidate, RestoreOriginal, FileStep, Goto, Put, JournaledSteps, Moved, mine
  <2>2. current = Absent
    BY <2>1 DEF RenamesFindRoom
  <2>3. /\ files'[own.job].rollback = files[own.job].rollback
           \/ current' = files[own.job].rollback
        /\ files'[own.job].partial = files[own.job].partial
        /\ files'[own.job].failed = files[own.job].failed
        /\ \A k \in Jobs : k # own.job => files'[k] = files[k]
    BY <1>9, <2>1 DEF JobFiles
  <2> QED
    BY <1>9, <2>1, <2>2, <2>3, EvidenceMoves DEF Traces
<1>13. CASE PreserveFailed
  <2>1. /\ at \in JournaledSteps /\ files[own.job].partial = Absent
        /\ \/ /\ files' = [files EXCEPT ![own.job]["partial"] = current]
           \/ /\ files' = [files EXCEPT ![own.job].partial = files[own.job].staging,
                                        ![own.job].staging = Absent]
              /\ current' = current
    BY <1>13 DEF PreserveFailed, FileStep, Goto, Put, JournaledSteps, Between, mine
  <2>2. /\ files'[own.job].rollback = files[own.job].rollback
        /\ files'[own.job].failed = files[own.job].failed
        /\ current' = current \/ files'[own.job].partial = current
        /\ \A k \in Jobs : k # own.job => files'[k] = files[k]
    BY <1>9, <2>1 DEF JobFiles
  <2> QED
    BY <1>9, <2>1, <2>2, EvidenceMoves DEF Traces
<1>14. CASE PromoteFailed
  <2>1. /\ at = "promoting" /\ at \in JournaledSteps /\ current' = current
        /\ files' = [files EXCEPT ![own.job].failed = files[own.job].partial,
                                 ![own.job].partial = Absent]
    BY <1>14 DEF PromoteFailed, FileStep, Goto, JournaledSteps, Between, mine
  <2>2. files[own.job].failed = Absent
    BY <2>1 DEF RenamesFindRoom, PromotingFits
  <2>3. /\ files'[own.job].rollback = files[own.job].rollback
        /\ files'[own.job].failed = files[own.job].partial
        /\ \A k \in Jobs : k # own.job => files'[k] = files[k]
    BY <1>9, <2>1 DEF JobFiles
  <2> QED
    BY <1>9, <2>1, <2>2, <2>3, EvidenceMoves DEF Traces
<1> QED
  BY <1>1, <1>2, <1>3, <1>4, <1>5, <1>6, <1>7, <1>8, <1>10, <1>11, <1>12, <1>13, <1>14
     DEF Next, Startup, User, Failure, Undo, Attempt, Switch, Open

(* No rename of the migration lands on another copy: a database that is        *)
(* current, rolled back or put aside stays somewhere, until SQLite opens it.   *)
THEOREM EvidenceStaysSomewhere == Spec => EvidenceIsOnlyMoved
<1>1. WInv => TypeOK /\ OwnHolds /\ RenamesFindRoom
  <2> SUFFICES ASSUME WInv PROVE TypeOK /\ OwnHolds /\ RenamesFindRoom
    OBVIOUS
  <2>1. IInv /\ TypeOK /\ OwnHolds /\ PromotingFits
    BY InvReads DEF WInv, WayBack, IInv, ReadsHold
  <2>2. /\ at \in JournaledSteps => own = journal
        /\ at \in InPlace => SourceInPlace
        /\ at \in Moved => SourceMoved
    BY <2>1 DEF IInv, ProcessInv, JournalIsOwn, PositionHolds
  <2> QED
    BY <2>1, <2>2 DEF RenamesFindRoom, JournaledSteps, InPlace, Moved, SourceInPlace, SourceMoved
<1>2. WInv /\ [Next]_vars => [at \notin {"opening", "serving"} => Evidence \subseteq Evidence']_vars
  BY <1>1, EvidenceStep
<1> QED
  BY <1>2, WayInvariance, PTL DEF Spec, EvidenceIsOnlyMoved

-----------------------------------------------------------------------------
(* Under external changes yuwendesk.db may be anything whenever it is looked  *)
(* at after the launch, so that much of IInv is lost.  What remains is what   *)
(* the coordinator established itself, by looking, and what it did since.     *)

(* Nothing was ever moved before the first journal was written.              *)
RollbackIsJournaled == journal = NoJournal => \A j \in Jobs : files[j].rollback = Absent

AttemptIsNew ==
    at \in NewAttempt =>
        /\ own # NoJournal /\ own.phase = "prepared" /\ own.job \in used
        /\ files[own.job] = NoFiles
        /\ at = "writing_prepared" => own.source = current

(* Between one look at the file and the next it is where the last one found   *)
(* it: the source is verified after the lock and again before the switch.    *)
SeenPosition ==
    /\ at \in InPlace \ {"checking_original"} => SourceInPlace
    /\ at = "checking_original" => files[journal.job].rollback = Absent
    /\ at \in Moved => SourceMoved
    /\ at = "preserving" /\ moving = "current" =>
          files[journal.job].rollback = journal.source
    /\ at = "promoting" /\ moving = "current" => SourceMoved
    /\ at \in {"preserving", "promoting", "clearing_staging"} /\ moving = "staging" =>
          SourceInPlace \/ SourceMoved
    /\ at = "clearing_staging" => moving = "staging"

CopyHolds ==
    /\ at \in {"writing_recovery_ready", "copying"} =>
          files[own.job].recovery = own.source
    /\ at = "migrating" => files[own.job].staging = own.source

(* `fresh' is answered only over a directory without a journal.              *)
FreshHolds ==
    /\ at \in {"clearing_lock", "inspecting"} /\ journal # NoJournal => current # Absent
    /\ at = "opening" /\ answer = "fresh" => journal = NoJournal
    /\ at = "unlocking" => answer # "fresh"

SeenInv == /\ JobsAreFresh /\ RollbackIsJournaled /\ ServingHolds /\ AttemptIsNew
           /\ JournalIsOwn /\ SeenPosition /\ CopyHolds /\ FreshHolds /\ PromotingFits

ExternalInv == TypeOK /\ SeenInv

LEMMA SeenReads == ExternalInv => ReadsHold
<1> SUFFICES ASSUME ExternalInv PROVE ReadsHold
  OBVIOUS
<1>1. TypeOK /\ OwnHolds /\ ServingHolds
  BY DEF ExternalInv, SeenInv, OwnHolds, OwnSteps, JournalIsOwn, AttemptIsNew
<1>2. at = "migrating" => files[own.job].staging \in Database
  BY <1>1, OwnTyped DEF ExternalInv, SeenInv, CopyHolds, OwnSteps, JournaledSteps, InPlace
<1> QED
  BY <1>1, <1>2 DEF ReadsHold

LEMMA JournalRewritten ==
  ASSUME TypeOK, OwnHolds, at \in OwnSteps, NEW phase \in Phases, WriteJournal(phase)
  PROVE  /\ journal' = own' /\ journal' # NoJournal
         /\ journal'.phase = phase /\ journal'.job = own.job
         /\ journal'.source = own.source
<1>1. own \in Journal
  BY OwnTyped
<1> QED
  BY <1>1, JournalAssumption DEF WriteJournal, Journal

LEMMA AbandonRewrites ==
  ASSUME TypeOK, OwnHolds, JournalIsOwn, at \in UndoSteps, Abandon
  PROVE  /\ UNCHANGED <<current, files, journal, own, latest, used>>
         /\ answer' = "blocked" /\ at' \in {"opening", "unlocking"}
<1>1. at \in JournaledSteps \cup {"reconciled"}
  BY DEF UndoSteps, JournaledSteps, InPlace, Moved, Installed, Between
<1>2. own = journal /\ own \in Journal
  BY <1>1, OwnTyped DEF JournalIsOwn, OwnSteps
<1>3. [own EXCEPT !.phase = own.phase] = own
  BY <1>2 DEF Journal
<1> QED
  BY <1>2, <1>3 DEF Abandon, Return, ReturnUnlocking, WriteJournal

(* No step of the program leaves what it established by looking.              *)
LEMMA SeenStep == ExternalInv /\ [Next]_vars => SeenInv'
<1> SUFFICES ASSUME ExternalInv, [Next]_vars PROVE SeenInv'
  OBVIOUS
<1> TypeOK /\ OwnHolds
  BY SeenReads DEF ExternalInv, ReadsHold
<1> USE DEF OwnSteps, JournaledSteps, InPlace, Moved, Installed, Between, NewAttempt,
            Unfinished, disk, memory
<1> USE DEF SeenInv, JobsAreFresh, RollbackIsJournaled, ServingHolds, AttemptIsNew,
            JournalIsOwn, SeenPosition, CopyHolds, FreshHolds, PromotingFits, SourceInPlace,
            SourceMoved
<1> SeenInv
  BY DEF ExternalInv
<1>1. CASE Launch
  BY <1>1 DEF Launch, Goto
<1>2. CASE Quit \/ Crash
  BY <1>2 DEF Quit, Crash, Decide, Fail, Fault, Goto
<1>3. CASE UNCHANGED vars \/ \E v \in Versions : InstallVersion(v)
  BY <1>3 DEF InstallVersion, vars
<1>4. CASE ReadJournal
  BY <1>4 DEF ReadJournal, ReadNoJournal, ReadFinishedJournal, ReadUnfinishedJournal,
     FinishedJournalHolds, CompletedHolds, TerminalHolds, ClearLock, Goto, Return, OnlyReturns
<1>5. CASE UndoRefused \/ PreserveRefused \/ UndoFails
  <2>1. at \in UndoSteps /\ Abandon
    BY <1>5 DEF UndoRefused, Undoing, PreserveRefused, UndoFails, UndoSteps
  <2> QED
    BY <2>1, AbandonRewrites
<1>6. CASE VerifyRestored
  <2>1. CASE current = own.source
    BY <1>6, <2>1 DEF VerifyRestored, Decide, Goto
  <2>2. CASE current # own.source
    BY <1>6, <2>2, AbandonRewrites DEF VerifyRestored, UndoSteps
  <2> QED
    BY <2>1, <2>2
<1>7. CASE InspectNothingToDo \/ AcquireLock \/ VerifySource
  BY <1>7 DEF InspectNothingToDo, AcquireLock, VerifySource, Return, ReturnUnlocking, OnlyReturns
<1>8. CASE FinishReconcile \/ Unlock
  BY <1>8 DEF FinishReconcile, Unlock, AfterUnlock, Goto, Return
<1>9. CASE CheckCandidate \/ CheckOriginal \/ VerifyInstalled
  BY <1>9 DEF CheckCandidate, CheckOriginal, VerifyInstalled, Decide, Goto
<1>10. CASE InspectionFails \/ VerifySourceFails \/ UncaughtFailure \/ LockFails
  BY <1>10 DEF InspectionFails, VerifySourceFails, UncaughtFailure, LockFails, Fault, Return,
     ReturnUnlocking, OnlyReturns
<1>11. CASE ClearLockFails \/ AttemptFails \/ SwitchFails \/ UnlockFails
  BY <1>11 DEF ClearLockFails, AttemptFails, SwitchFails, UnlockFails, Fail, Fault, Goto, AfterUnlock
<1>12. CASE UndoWithRollback \/ UndoWithoutRollback
  BY <1>12 DEF UndoWithRollback, UndoWithoutRollback, Undoing, mine
<1>13. CASE AlreadyPreserved
  <2>1. moving \in {"current", "staging"}
    BY DEF TypeOK
  <2> QED
    BY <1>13, <2>1 DEF AlreadyPreserved, FileStep, Goto, AfterPreserving, MovedFile, mine
<1>14. CASE BusinessWrite
  <2>1. current' \in Database
    BY <1>14 DEF BusinessWrite, TypeOK, File, Database
  <2> QED
    BY <1>14, <2>1, AbsentAssumption DEF BusinessWrite
<1>15. CASE CreateDatabase \/ CreationDies
  <2>1. \E schema, generation \in Nat : current' = Fresh(schema, generation)
    BY <1>15, VersionAssumption DEF CreateDatabase, CreationDies, TypeOK
  <2>2. current' \in Database
    BY <2>1 DEF Fresh, Database
  <2> QED
    BY <1>15, <2>2, AbsentAssumption DEF CreateDatabase, CreationDies, Opens, Goto
<1>16. CASE OpenForWriting
  <2>1. current \in Database /\ GenerationOf[version] \in Nat
    BY <1>16, VersionAssumption DEF OpenForWriting, MayServe, TypeOK, File
  <2>2. current' \in Database
    BY <1>16, <2>1 DEF OpenForWriting, Database
  <2> QED
    BY <1>16, <2>2, AbsentAssumption DEF OpenForWriting, Opens, Goto
<1>17. CASE OpenProtected
  BY <1>17 DEF OpenProtected, Opens, Goto
<1>18. CASE \E j \in Jobs : InspectOlder(j)
  <2>1. PICK j \in Jobs : InspectOlder(j)
    BY <1>18
  <2>2. /\ own'.job = j /\ own'.phase = "prepared" /\ own' \in Journal
    BY <2>1 DEF InspectOlder, TypeOK, Journal, Phases, File
  <2>3. own' # NoJournal
    BY <2>2, JournalAssumption
  <2>4. /\ at = "inspecting" /\ at' = "locking"
        /\ used' = used \cup {j} /\ j \notin used
        /\ UNCHANGED <<current, files, journal, latest, moving, answer>>
    BY <2>1 DEF InspectOlder, Goto
  <2> QED
    BY <2>2, <2>3, <2>4
<1>19. CASE \/ WritePrepared \/ WriteRecoveryReady \/ WriteBlocked
            \/ WriteOriginalMoved \/ WriteCandidateMoved \/ WriteCompleted
            \/ AcceptInstalled \/ Settle
  <2>1. /\ UNCHANGED <<current, files, latest, used>> /\ at \in OwnSteps
        /\ <<at, at'>> \in {<<"writing_prepared", "creating_recovery">>,
                            <<"writing_recovery_ready", "copying">>,
                            <<"writing_blocked", "unlocking">>,
                            <<"writing_original_moved", "moving_candidate">>,
                            <<"writing_candidate_moved", "verifying_installed">>,
                            <<"writing_completed", "unlocking">>,
                            <<"reconciling", "reconciled">>,
                            <<"settling", "reconciled">>, <<"settling", "unlocking">>}
        /\ at' = "unlocking" => answer' # "fresh"
    BY <1>19 DEF WritePrepared, WriteRecoveryReady, WriteBlocked, WriteOriginalMoved,
       WriteCandidateMoved, WriteCompleted, AcceptInstalled, Settle, Record, Goto,
       ReturnUnlocking
  <2>2. PICK phase \in Phases :
           /\ WriteJournal(phase)
           /\ phase \in Unfinished
              \/ at \in {"writing_blocked", "writing_completed", "reconciling", "settling"}
    BY <1>19 DEF WritePrepared, WriteRecoveryReady, WriteBlocked, WriteOriginalMoved,
       WriteCandidateMoved, WriteCompleted, AcceptInstalled, Settle, Record, Goto, Phases
  <2>3. /\ journal' = own' /\ journal' # NoJournal
        /\ journal'.phase = phase /\ journal'.job = own.job
        /\ journal'.source = own.source
    BY <2>1, <2>2, JournalRewritten
  <2>4. own.job \in used
    BY <2>1
  <2>5. at = "writing_prepared" => files[own.job].rollback = Absent
    BY DEF NoFiles
  <2> QED
    BY <2>1, <2>2, <2>3, <2>4, <2>5
<1>20. CASE WriteCandidateReady
  <2>1. /\ at = "writing_candidate_ready" /\ at' = "checking_original"
        /\ UNCHANGED <<current, files, latest, used>>
        /\ own' = [own EXCEPT !.phase = "candidate_ready", !.candidate = files[own.job].staging]
        /\ journal' = own'
    BY <1>20 DEF WriteCandidateReady, Goto, mine
  <2>2. /\ own' \in Journal /\ own'.phase = "candidate_ready" /\ own'.job = own.job
        /\ own'.source = own.source
    BY <2>1, OwnTyped DEF Journal, Phases, mine
  <2>3. journal' # NoJournal
    BY <2>1, <2>2, JournalAssumption
  <2> QED
    BY <2>1, <2>2, <2>3
<1>21. CASE CreateRecoveryPoint
  <2>1. /\ at = "creating_recovery" /\ at' = "writing_recovery_ready"
        /\ files' = [files EXCEPT ![own.job]["recovery"] = current]
        /\ UNCHANGED <<current, journal, own, undoing, moving, answer, latest, used>>
    BY <1>21 DEF CreateRecoveryPoint, FileStep, Goto, Put
  <2>2. /\ own.job \in Jobs /\ current \in File /\ files \in [Jobs -> JobFiles]
        /\ own.job \in used
    BY <2>1, OwnTyped DEF TypeOK
  <2>3. OnlyOneFile("recovery", current)
    BY <2>1, <2>2, OneFileStep
  <2> QED
    BY <2>1, <2>2, <2>3 DEF OnlyOneFile
<1>22. CASE CopyCandidate
  <2>1. /\ at = "copying" /\ at' = "migrating"
        /\ files' = [files EXCEPT ![own.job]["staging"] = files[own.job].recovery]
        /\ UNCHANGED <<current, journal, own, undoing, moving, answer, latest, used>>
    BY <1>22 DEF CopyCandidate, FileStep, Goto, Put, mine
  <2>2. /\ own.job \in Jobs /\ files[own.job].recovery \in File /\ files \in [Jobs -> JobFiles]
        /\ own.job \in used
    BY <2>1, OwnTyped DEF TypeOK, mine
  <2>3. OnlyOneFile("staging", files[own.job].recovery)
    BY <2>1, <2>2, OneFileStep
  <2> QED
    BY <2>1, <2>2, <2>3 DEF OnlyOneFile
<1>23. CASE ClearStaging
  <2>1. /\ at = "clearing_staging" /\ at' \in {"restoring", "settling"}
        /\ files' = [files EXCEPT ![own.job]["staging"] = Absent]
        /\ UNCHANGED <<current, journal, own, undoing, moving, answer, latest, used>>
        /\ (at' = "restoring") = (files[own.job].rollback # Absent)
    BY <1>23 DEF ClearStaging, FileStep, Goto, Put, mine
  <2>2. /\ own.job \in Jobs /\ Absent \in File /\ files \in [Jobs -> JobFiles]
        /\ own.job \in used /\ own.source # Absent
    BY <2>1, OwnTyped, AbsentAssumption DEF TypeOK, File
  <2>3. OnlyOneFile("staging", Absent)
    BY <2>1, <2>2, OneFileStep
  <2> QED
    BY <2>1, <2>2, <2>3 DEF OnlyOneFile
<1>24. CASE RestoreOriginal
  <2>1. /\ at = "restoring" /\ at' = "verifying_restored"
        /\ files' = [files EXCEPT ![own.job]["rollback"] = Absent]
        /\ UNCHANGED <<journal, own, undoing, moving, answer, latest, used>>
        /\ current' = files[own.job].rollback
    BY <1>24 DEF RestoreOriginal, FileStep, Goto, Put, mine
  <2>2. /\ own.job \in Jobs /\ Absent \in File /\ files \in [Jobs -> JobFiles]
        /\ own.job \in used
    BY <2>1, OwnTyped DEF TypeOK, File
  <2>3. OnlyOneFile("rollback", Absent)
    BY <2>1, <2>2, OneFileStep
  <2> QED
    BY <2>1, <2>2, <2>3 DEF OnlyOneFile
<1>25. CASE MoveOriginal
  <2>1. /\ at = "moving_original" /\ at' = "writing_original_moved"
        /\ files' = [files EXCEPT ![own.job]["rollback"] = current]
        /\ UNCHANGED <<journal, own, undoing, moving, answer, latest, used>>
        /\ current' = Absent
    BY <1>25 DEF MoveOriginal, FileStep, Goto, Put
  <2>2. /\ own.job \in Jobs /\ current \in File /\ files \in [Jobs -> JobFiles]
        /\ own.job \in used
    BY <2>1, OwnTyped DEF TypeOK
  <2>3. OnlyOneFile("rollback", current)
    BY <2>1, <2>2, OneFileStep
  <2> QED
    BY <2>1, <2>2, <2>3 DEF OnlyOneFile
<1>26. CASE MoveCandidate
  <2>1. /\ at = "moving_candidate" /\ at' = "writing_candidate_moved"
        /\ files' = [files EXCEPT ![own.job]["staging"] = Absent]
        /\ UNCHANGED <<journal, own, undoing, moving, answer, latest, used>>
    BY <1>26 DEF MoveCandidate, FileStep, Goto, Put
  <2>2. /\ own.job \in Jobs /\ Absent \in File /\ files \in [Jobs -> JobFiles]
        /\ own.job \in used
    BY <2>1, OwnTyped DEF TypeOK, File
  <2>3. OnlyOneFile("staging", Absent)
    BY <2>1, <2>2, OneFileStep
  <2> QED
    BY <2>1, <2>2, <2>3 DEF OnlyOneFile
<1>27. CASE MigrateCandidate \/ DamageCandidate
  <2>1. /\ at = "migrating" /\ at' = "checking_candidate"
        /\ UNCHANGED <<current, journal, own, undoing, moving, answer, latest, used>>
    BY <1>27 DEF MigrateCandidate, DamageCandidate, FileStep, Goto
  <2>2. /\ own.job \in Jobs /\ files \in [Jobs -> JobFiles] /\ own.job \in used
    BY <2>1, OwnTyped DEF TypeOK
  <2>3. \A k \in Jobs : /\ k # own.job => files'[k] = files[k]
                        /\ files'[k].rollback = files[k].rollback
    BY <1>27, <2>2 DEF MigrateCandidate, DamageCandidate, Put, JobFiles
  <2> QED
    BY <2>1, <2>2, <2>3
<1>28. CASE PreserveFailed
  <2>1. /\ at = "preserving" /\ at' = "promoting"
        /\ UNCHANGED <<journal, own, undoing, moving, answer, latest, used>>
    BY <1>28 DEF PreserveFailed, FileStep, Goto
  <2>2. /\ own.job \in Jobs /\ files \in [Jobs -> JobFiles]
        /\ own.job \in used /\ moving \in {"current", "staging"}
    BY <2>1, OwnTyped DEF TypeOK
  <2>3. /\ files[own.job].failed = Absent
        /\ current' = IF moving = "current" THEN Absent ELSE current
    BY <1>28 DEF PreserveFailed, mine
  <2>4. \A k \in Jobs : /\ k # own.job => files'[k] = files[k]
                        /\ files'[k].rollback = files[k].rollback
                        /\ files'[k].failed = files[k].failed
    BY <1>28, <2>2 DEF PreserveFailed, Put, JobFiles
  <2> QED
    BY <2>1, <2>2, <2>3, <2>4
<1>29. CASE PromoteFailed
  <2>1. /\ at = "promoting"
        /\ at' = (IF moving = "staging" THEN "clearing_staging" ELSE "restoring")
        /\ UNCHANGED <<current, journal, own, undoing, moving, answer, latest, used>>
    BY <1>29 DEF PromoteFailed, FileStep, Goto, AfterPreserving
  <2>2. /\ own.job \in Jobs /\ files \in [Jobs -> JobFiles]
        /\ own.job \in used /\ moving \in {"current", "staging"}
    BY <2>1, OwnTyped DEF TypeOK
  <2>3. \A k \in Jobs : /\ k # own.job => files'[k] = files[k]
                        /\ files'[k].rollback = files[k].rollback
    BY <1>29, <2>2 DEF PromoteFailed, JobFiles
  <2> QED
    BY <2>1, <2>2, <2>3
<1> QED
  BY <1>1, <1>2, <1>3, <1>4, <1>5, <1>6, <1>7, <1>8, <1>9, <1>10, <1>11, <1>12, <1>13,
     <1>14, <1>15, <1>16, <1>17, <1>18, <1>19, <1>20, <1>21, <1>22, <1>23, <1>24, <1>25,
     <1>26, <1>27, <1>28, <1>29
     DEF Next, Startup, User, Failure, Undo, Attempt, Switch, Open

(* The change comes where nothing rests on what was seen before.             *)
LEMMA ChangeStep == ExternalInv /\ ExternalChange => ExternalInv'
<1> SUFFICES ASSUME ExternalInv, ExternalChange PROVE ExternalInv'
  OBVIOUS
<1>1. /\ at \in {"off", "verifying_source", "checking_original"}
      /\ UNCHANGED <<files, journal, lock, version, at, memory, latest, used>>
      /\ faults \in Nat /\ faults' = faults + 1
  BY DEF ExternalChange, Fault, ExternalInv, TypeOK
<1>2. current' \in File
  <2>1. PICK v \in Versions :
           current' \in {Absent, [Fresh(SchemaOf[v], GenerationOf[v]) EXCEPT
                                     !.data = MaxWrites + faults + 1]}
    BY DEF ExternalChange
  <2>2. /\ SchemaOf[v] \in Nat /\ GenerationOf[v] \in Nat
        /\ MaxWrites + faults + 1 \in Nat
    BY <1>1, VersionAssumption, BoundAssumption
  <2> QED
    BY <2>1, <2>2 DEF Fresh, File, Database
<1>3. TypeOK'
  BY <1>1, <1>2 DEF ExternalInv, TypeOK, memory
<1>4. SeenInv'
  BY <1>1 DEF ExternalInv, SeenInv, JobsAreFresh, RollbackIsJournaled, ServingHolds,
     AttemptIsNew, JournalIsOwn, SeenPosition, CopyHolds, FreshHolds, PromotingFits,
     OwnSteps, JournaledSteps, InPlace, Moved, Installed, Between, NewAttempt, memory
<1> QED
  BY <1>3, <1>4 DEF ExternalInv

LEMMA ExternalInvariance == ExternalSpec => []ExternalInv
<1>1. Init => ExternalInv
  <2> SUFFICES ASSUME Init PROVE ExternalInv
    OBVIOUS
  <2>1. TypeOK /\ JobsAreFresh
    BY InitInv DEF IInv, DiskInv
  <2>2. SeenInv
    BY <2>1 DEF Init, SeenInv, RollbackIsJournaled, ServingHolds, AttemptIsNew, JournalIsOwn,
       SeenPosition, CopyHolds, FreshHolds, PromotingFits, JournaledSteps, InPlace, Moved,
       Installed, Between, NewAttempt, NoFiles
  <2> QED
    BY <2>1, <2>2 DEF ExternalInv
<1>2. ExternalInv /\ [ExternalNext]_vars => ExternalInv'
  <2> SUFFICES ASSUME ExternalInv, [ExternalNext]_vars PROVE ExternalInv'
    OBVIOUS
  <2>1. CASE ExternalChange
    BY <2>1, ChangeStep
  <2>2. CASE [Next]_vars
    BY <2>2, SeenReads, TypeStep, SeenStep DEF ExternalInv
  <2> QED
    BY <2>1, <2>2 DEF ExternalNext
<1> QED
  BY <1>1, <1>2, PTL DEF ExternalSpec

LEMMA SeenFindsRoom == ExternalInv => TypeOK /\ OwnHolds /\ RenamesFindRoom
<1> SUFFICES ASSUME ExternalInv PROVE TypeOK /\ OwnHolds /\ RenamesFindRoom
  OBVIOUS
<1>1. TypeOK /\ OwnHolds /\ PromotingFits
  BY SeenReads DEF ExternalInv, SeenInv, ReadsHold
<1>2. /\ at \in JournaledSteps => own = journal
      /\ at \in InPlace \ {"checking_original"} => SourceInPlace
      /\ at \in Moved => SourceMoved
  BY DEF ExternalInv, SeenInv, JournalIsOwn, SeenPosition
<1> QED
  BY <1>1, <1>2 DEF RenamesFindRoom, JournaledSteps, InPlace, Moved, SourceInPlace, SourceMoved

(* Whatever replaces or removes yuwendesk.db in between, no step of the        *)
(* migration overwrites or drops a database it finds, its own or a foreign one.*)
THEOREM ForeignEvidenceStays == ExternalSpec => ForeignEvidenceIsOnlyMoved
<1>1. ExternalInv /\ [ExternalNext]_vars =>
         [at \notin {"opening", "serving"} /\ ~ExternalChange =>
             Evidence \subseteq Evidence']_vars
  BY SeenFindsRoom, EvidenceStep DEF ExternalNext
<1> QED
  BY <1>1, ExternalInvariance, PTL DEF ExternalSpec, ForeignEvidenceIsOnlyMoved

(* A database appears on opening only by being created, after `fresh'.        *)
LEMMA OnlyFreshCreates ==
  ASSUME ExternalInv, [ExternalNext]_vars, current = Absent, current' # Absent,
         at = "opening"
  PROVE  journal = NoJournal /\ \A j \in Jobs : files[j].rollback = Absent
<1>1. answer = "fresh"
  <2> USE DEF disk, memory, Goto
  <2>1. CASE CreateDatabase \/ CreationDies
    BY <2>1 DEF CreateDatabase, CreationDies, MayCreate
  <2>2. CASE OpenForWriting \/ OpenProtected
    BY <2>2 DEF OpenForWriting, OpenProtected, MayServe
  <2>3. CASE User \/ UNCHANGED vars \/ ExternalChange
    BY <2>3 DEF User, Launch, Quit, BusinessWrite, InstallVersion, Decide, vars, ExternalChange
  <2>4. CASE ReadJournal
    BY <2>4 DEF ReadJournal, ReadNoJournal, ReadFinishedJournal, ReadUnfinishedJournal, ClearLock
  <2>5. CASE Undo
    BY <2>5 DEF Undo, AcceptInstalled, UndoWithRollback, UndoWithoutRollback, UndoRefused,
       Undoing, PreserveFailed, AlreadyPreserved, PreserveRefused, PromoteFailed, ClearStaging,
       RestoreOriginal, VerifyRestored, Settle, FinishReconcile, FileStep
  <2>6. CASE Attempt
    BY <2>6 DEF Attempt, InspectNothingToDo, InspectOlder, AcquireLock, VerifySource,
       WritePrepared, CreateRecoveryPoint, WriteRecoveryReady, CopyCandidate, MigrateCandidate,
       CheckCandidate, WriteBlocked, WriteCandidateReady, FileStep, Record, Decide
  <2>7. CASE Switch
    BY <2>7 DEF Switch, CheckOriginal, MoveOriginal, WriteOriginalMoved, MoveCandidate,
       WriteCandidateMoved, VerifyInstalled, WriteCompleted, Unlock, FileStep, Record, Decide
  <2>8. CASE Failure /\ ~CreationDies
    BY <2>8 DEF Failure, Crash, DamageCandidate, InspectionFails, ClearLockFails, LockFails,
       VerifySourceFails, UncaughtFailure, AttemptFails, SwitchFails, UndoFails, UndoSteps,
       UnlockFails, Fail
  <2> QED
    BY <2>1, <2>2, <2>3, <2>4, <2>5, <2>6, <2>7, <2>8 DEF ExternalNext, Next, Startup, Open
<1> QED
  BY <1>1 DEF ExternalInv, SeenInv, FreshHolds, RollbackIsJournaled

(* Only Settle journals a rollback, and it has just seen the source.          *)
LEMMA OnlySourceIsRolledBack ==
  ASSUME ExternalInv, [ExternalNext]_vars, journal # NoJournal,
         journal.phase \in Unfinished, journal'.phase = "rolled_back"
  PROVE  current = journal.source
<1> TypeOK /\ OwnHolds /\ JournalIsOwn
  BY SeenReads DEF ExternalInv, SeenInv, ReadsHold
<1>1. journal' # journal
  BY DEF Unfinished
<1> USE DEF disk, memory
<1>2. CASE Settle
  <2>1. at \in InPlace \ {"checking_original"}
    BY <1>2 DEF Settle, InPlace
  <2> QED
    BY <2>1 DEF ExternalInv, SeenInv, SeenPosition, SourceInPlace
<1>3. CASE UndoRefused \/ PreserveRefused \/ UndoFails \/ (VerifyRestored /\ Abandon)
  <2>1. at \in UndoSteps /\ Abandon
    BY <1>3 DEF UndoRefused, Undoing, PreserveRefused, UndoFails, VerifyRestored, UndoSteps
  <2> QED
    BY <2>1, <1>1, AbandonRewrites
<1>4. CASE \/ WritePrepared \/ WriteRecoveryReady \/ WriteBlocked
           \/ WriteOriginalMoved \/ WriteCandidateMoved \/ WriteCompleted
           \/ AcceptInstalled
  <2>1. at \in OwnSteps
    BY <1>4 DEF WritePrepared, WriteRecoveryReady, WriteBlocked, WriteOriginalMoved,
       WriteCandidateMoved, WriteCompleted, AcceptInstalled, Record, Goto, OwnSteps,
       NewAttempt, JournaledSteps, InPlace, Moved, Installed, Between
  <2>2. PICK phase \in Phases : WriteJournal(phase) /\ phase # "rolled_back"
    BY <1>4 DEF WritePrepared, WriteRecoveryReady, WriteBlocked, WriteOriginalMoved,
       WriteCandidateMoved, WriteCompleted, AcceptInstalled, Record, Phases, Unfinished
  <2> QED
    BY <2>1, <2>2, JournalRewritten
<1>5. CASE WriteCandidateReady
  <2>1. own \in Journal /\ at \in OwnSteps
    BY <1>5, OwnTyped DEF WriteCandidateReady, Goto, OwnSteps, JournaledSteps, InPlace
  <2>2. journal'.phase = "candidate_ready"
    BY <1>5, <2>1 DEF WriteCandidateReady, Journal
  <2> QED
    BY <2>2
<1>6. CASE User \/ UNCHANGED vars \/ ExternalChange
  BY <1>6, <1>1 DEF User, Launch, Quit, BusinessWrite, InstallVersion, Decide, vars, ExternalChange
<1>7. CASE ReadJournal
  BY <1>7, <1>1 DEF ReadJournal, ReadNoJournal, ReadFinishedJournal, ReadUnfinishedJournal,
     ClearLock, OnlyReturns
<1>8. CASE \/ UndoWithRollback \/ UndoWithoutRollback \/ PreserveFailed \/ AlreadyPreserved
           \/ PromoteFailed \/ ClearStaging \/ RestoreOriginal \/ FinishReconcile
           \/ (VerifyRestored /\ ~Abandon)
  BY <1>8, <1>1 DEF UndoWithRollback, UndoWithoutRollback, PreserveFailed, AlreadyPreserved,
     PromoteFailed, ClearStaging, RestoreOriginal, FinishReconcile, VerifyRestored, FileStep,
     Decide
<1>9. CASE \/ InspectNothingToDo \/ (\E j \in Jobs : InspectOlder(j)) \/ AcquireLock
           \/ VerifySource \/ CreateRecoveryPoint \/ CopyCandidate \/ MigrateCandidate
           \/ CheckCandidate
  BY <1>9, <1>1 DEF InspectNothingToDo, InspectOlder, AcquireLock, VerifySource,
     CreateRecoveryPoint, CopyCandidate, MigrateCandidate, CheckCandidate, FileStep, Decide,
     OnlyReturns
<1>10. CASE CheckOriginal \/ MoveOriginal \/ MoveCandidate \/ VerifyInstalled \/ Unlock
  BY <1>10, <1>1 DEF CheckOriginal, MoveOriginal, MoveCandidate, VerifyInstalled, Unlock,
     FileStep, Decide
<1>11. CASE Open \/ CreationDies
  BY <1>11, <1>1 DEF Open, CreateDatabase, OpenForWriting, OpenProtected, CreationDies, Opens
<1>12. CASE \/ Crash \/ DamageCandidate \/ InspectionFails \/ ClearLockFails \/ LockFails
            \/ VerifySourceFails \/ UncaughtFailure \/ AttemptFails \/ SwitchFails
            \/ UnlockFails
  BY <1>12, <1>1 DEF Crash, DamageCandidate, InspectionFails, ClearLockFails, LockFails,
     VerifySourceFails, UncaughtFailure, AttemptFails, SwitchFails, UnlockFails, Fail,
     OnlyReturns
<1> QED
  BY <1>2, <1>3, <1>4, <1>5, <1>6, <1>7, <1>8, <1>9, <1>10, <1>11, <1>12
     DEF ExternalNext, Next, Startup, Failure, Undo, Attempt, Switch

(* What is on disk decides, whoever put it there: no empty database is created *)
(* over evidence of a migration, and what is journaled as rolled back is the   *)
(* source itself (run() and rollbackSwitch of migration.ts, SqliteStore.load). *)
THEOREM DiskDecides == ExternalSpec => EvidenceDecides
<1>1. ExternalInv /\ [ExternalNext]_vars =>
         [current = Absent /\ current' # Absent /\ at = "opening" =>
             /\ journal = NoJournal
             /\ \A j \in Jobs : files[j].rollback = Absent]_vars
  BY OnlyFreshCreates
<1>2. ExternalInv /\ [ExternalNext]_vars =>
         [journal # NoJournal /\ journal.phase \in Unfinished
             /\ journal'.phase = "rolled_back" => current = journal.source]_vars
  BY OnlySourceIsRolledBack
<1> QED
  BY <1>1, <1>2, ExternalInvariance, PTL
     DEF ExternalSpec, EvidenceDecides, NeverCreatesOverEvidence, RolledBackIsSource
=============================================================================
