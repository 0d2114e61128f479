---------------------------- MODULE PendingRestore ----------------------------
(***************************************************************************)
(* Restoring a backup: the confirmation flow of ProtectionService.restore   *)
(* (protection/service.ts), the marker it leaves, and                       *)
(* applyPendingRestoreBeforeOpen (protection/restore.ts), which switches    *)
(* the seven components of the data directory before anything is opened.    *)
(*                                                                         *)
(* A file is modelled by the data set it belongs to: the set the            *)
(* application started with, the backup a restore job staged, or something  *)
(* another program put there.  A database that belongs to a different set   *)
(* has a different SHA-256.  Every rename is a step, and the process may    *)
(* die between any two of them.                                             *)
(***************************************************************************)
EXTENDS Naturals

CONSTANTS
    Jobs,        \* restore job identifiers
    Patterns,    \* the sets of components a running application leaves behind
    MaxFaults,   \* bound: crashes and failing calls in a behaviour
    Original,    \* the data set the application started with
    Foreign,     \* content another program put there
    Absent,      \* no file at this path
    NoDirectory, \* the directory of a job does not exist
    NoJob        \* no pending-restore.json

(* The order in which the old components are moved. *)
Position == [database |-> 1, wal |-> 2, shm |-> 3, materials |-> 4,
             migration_journal |-> 5, migration_journal_partial |-> 6,
             migration_lock |-> 7]
Components == DOMAIN Position

(* What a candidate may have installed, and what is put aside when it fails. *)
CandidateComponents == {"database", "wal", "shm", "materials"}

ASSUME PatternAssumption ==
    /\ Patterns \subseteq SUBSET Components
    /\ \A pattern \in Patterns : "database" \in pattern
ASSUME RestoreBoundAssumption == MaxFaults \in Nat

DataSets == Jobs \cup {Original}
Content == DataSets \cup {Foreign, Absent}
Files == [Components -> Content]

ASSUME SentinelAssumption ==
    Absent \notin DataSets \cup {Foreign} /\ NoJob \notin Jobs /\ NoDirectory \notin Files

VARIABLES
    current,    \* disk: the data directory
    staged,     \* disk: the components in restore-staging/<job>
    damaged,    \* disk: the jobs whose staged database is no longer usable
    rollback,   \* disk: restore-rollback/<job>
    failed,     \* disk: restore-failed/<job>
    marker,     \* disk: the job of pending-restore.json
    at,         \* the next step of the process
    was,        \* the components present when the switch began
    moved,      \* the old components already moved to rollback
    status,     \* the result of applyPendingRestoreBeforeOpen
    prepared,   \* ProtectionService.prepared
    granted,    \* the jobs with an unused confirmation token
    writing,    \* the jobs whose marker is being written
    before,     \* history: the job and the data directory of the last switch
    tampered,   \* history: did another program interfere?
    faults      \* history: crashes and failed calls so far

directory == <<current, rollback, failed>>
stage     == <<staged, damaged>>
service   == <<prepared, granted, writing>>
switch    == <<was, moved, before>>
vars == <<directory, stage, marker, at, status, service, switch, tampered, faults>>

-----------------------------------------------------------------------------
Present(files) == {c \in Components : files[c] # Absent}
First(set) == CHOOSE c \in set : \A d \in set : Position[c] <= Position[d]
Last(set)  == CHOOSE c \in set : \A d \in set : Position[c] >= Position[d]
Empty == [c \in Components |-> Absent]
FilesOf(set, pattern) == [c \in Components |-> IF c \in pattern THEN set ELSE Absent]

Init ==
    /\ \E pattern \in Patterns \cup {{}} : current = FilesOf(Original, pattern)
    /\ staged = [j \in Jobs |-> {}] /\ damaged = {}
    /\ rollback = [j \in Jobs |-> NoDirectory]
    /\ failed = [j \in Jobs |-> NoDirectory]
    /\ marker = NoJob /\ at = "off" /\ status = "none"
    /\ was = {} /\ moved = {}
    /\ prepared = {} /\ granted = {} /\ writing = {}
    /\ before = [job |-> NoJob, files |-> Empty]
    /\ tampered = FALSE /\ faults = 0

Fault == faults < MaxFaults /\ faults' = faults + 1

(* The job of the switch in progress. *)
job == before.job
old == rollback[job]

Goto(from, to) == at = from /\ at' = to

(* A step of the switch that moves files but decides nothing.               *)
Moves(from, to) ==
    Goto(from, to) /\ UNCHANGED <<damaged, marker, status, service, before,
                                  tampered, faults>>
Decides(from, to) ==
    Goto(from, to) /\ UNCHANGED <<directory, stage, marker, status, service, switch,
                                  tampered, faults>>

-----------------------------------------------------------------------------
(* The running application and its ProtectionService.                       *)

(* What SQLite, the publication of materials and a migration leave behind.  *)
UseApplication ==
    /\ at = "running"
    /\ \E pattern \in Patterns :
          current' = FilesOf(IF current.database = Absent THEN Original
                             ELSE current.database, pattern)
    /\ UNCHANGED <<rollback, failed, stage, marker, at, status, service, switch,
                   tampered, faults>>

Unused(j) == staged[j] = {} /\ rollback[j] = NoDirectory

(* preparePortableRestore: all the files of an archive that passes its checks, *)
(* or, after an error, none.                                                *)
Stageable == {{"database"}, {"database", "materials"}}

(* A verified backup is unpacked into the staging directory of a new job.   *)
Preview(j) ==
    /\ at = "running" /\ Unused(j)
    /\ \E components \in Stageable :
          staged' = [staged EXCEPT ![j] = components]
    /\ prepared' = prepared \cup {j}
    /\ UNCHANGED <<directory, damaged, marker, at, status, granted, writing, switch,
                   tampered, faults>>

(* The native dialog of the main process grants a single-use token. *)
RequestConfirmation(j) ==
    /\ at = "running" /\ j \in prepared
    /\ granted' = granted \cup {j}
    /\ UNCHANGED <<directory, stage, marker, at, status, prepared, writing, switch,
                   tampered, faults>>

ExpireToken(j) ==
    /\ j \in granted /\ granted' = granted \ {j}
    /\ UNCHANGED <<directory, stage, marker, at, status, prepared, writing, switch,
                   tampered, faults>>

(* The token is consumed before the marker is written. *)
Confirm(j) ==
    /\ at = "running" /\ j \in prepared /\ j \in granted
    /\ granted' = granted \ {j} /\ writing' = writing \cup {j}
    /\ UNCHANGED <<directory, stage, marker, at, status, prepared, switch, tampered, faults>>

(* writePendingRestore replaces the marker by a rename; the application     *)
(* exits 100 ms later (ExitForRestore).                                     *)
WriteMarker(j) ==
    /\ j \in writing /\ writing' = writing \ {j}
    /\ marker' = j
    /\ UNCHANGED <<directory, stage, at, status, prepared, granted, switch, tampered, faults>>

WriteMarkerFails(j) ==
    /\ j \in writing /\ writing' = writing \ {j} /\ Fault
    /\ UNCHANGED <<directory, stage, marker, at, status, prepared, granted, switch, tampered>>

(* The service and everything in its memory go with the process. *)
Stops(from) ==
    /\ at \in from /\ at' = "off"
    /\ prepared' = {} /\ granted' = {} /\ writing' = {}
    /\ UNCHANGED <<directory, stage, marker, status, switch, tampered>>

ExitForRestore == Stops({"running"}) /\ marker # NoJob /\ UNCHANGED faults
Quit == Stops({"running", "refused"}) /\ UNCHANGED faults

-----------------------------------------------------------------------------
(* applyPendingRestoreBeforeOpen: the switch.                               *)

DatabaseLooksUsable(j) == "database" \in staged[j] /\ j \notin damaged

Launch ==
    /\ Goto("off", "starting") /\ status' = "none"
    /\ UNCHANGED <<directory, stage, marker, service, switch, tampered, faults>>

NothingPending == marker = NoJob /\ Decides("starting", "running")

(* An interrupted switch, or a stage that cannot be installed: the error    *)
(* box of the bootstrap, then exit.                                         *)
RefuseToStart ==
    /\ marker # NoJob
    /\ rollback[marker] # NoDirectory \/ ~DatabaseLooksUsable(marker)
    /\ Decides("starting", "refused")

StartSwitch ==
    /\ marker # NoJob /\ rollback[marker] = NoDirectory /\ DatabaseLooksUsable(marker)
    /\ Goto("starting", "moving_old")
    /\ was' = Present(current) /\ moved' = {}
    /\ before' = [job |-> marker, files |-> current]
    /\ rollback' = [rollback EXCEPT ![marker] = Empty]
    /\ UNCHANGED <<current, failed, stage, marker, status, service, tampered, faults>>

ToMove == First(was \ moved)

(* fs.rename of a component that is gone throws. *)
MoveOld ==
    /\ was # moved
    /\ IF current[ToMove] # Absent
       THEN /\ Moves("moving_old", "moving_old")
            /\ rollback' = [rollback EXCEPT ![job][ToMove] = current[ToMove]]
            /\ current' = [current EXCEPT ![ToMove] = Absent]
            /\ moved' = moved \cup {ToMove}
            /\ UNCHANGED <<failed, staged, was>>
       ELSE Decides("moving_old", "undoing_moves")

(* completeOldRollbackIsProven and the hash of the moved database. *)
OldIsComplete ==
    /\ Present(old) = was
    /\ "database" \in was => old.database = before.files.database

(* Mutant: what stands where the candidate goes is not looked at. *)
CheckMovedLoosely ==
    /\ was = moved
    /\ Decides("moving_old", IF OldIsComplete THEN "installing_database"
                             ELSE "switch_failed")

CheckMoved ==
    /\ was = moved
    /\ Decides("moving_old", IF OldIsComplete /\ Present(current) = {}
                             THEN "installing_database" ELSE "switch_failed")

Install(component, from, to) ==
    /\ Moves(from, to)
    /\ IF component \in staged[job]
       THEN /\ current' = [current EXCEPT ![component] = job]
            /\ staged' = [staged EXCEPT ![job] = @ \ {component}]
       ELSE UNCHANGED <<current, staged>>
    /\ UNCHANGED <<rollback, failed, was, moved>>

InstallDatabase == Install("database", "installing_database", "installing_materials")
InstallMaterials == Install("materials", "installing_materials", "validating")

(* Opening the database for the integrity check may create its sidecars. *)
OpensForValidation ==
    /\ \E sidecars \in {{}, {"wal", "shm"}} :
          current' = [c \in Components |-> IF c \in sidecars THEN job ELSE current[c]]
    /\ UNCHANGED <<rollback, failed, stage, marker, status, service, switch, tampered>>

ValidateInstalled ==
    Goto("validating", "clearing_marker") /\ OpensForValidation /\ UNCHANGED faults

ValidationFails ==
    Goto("validating", "switch_failed") /\ OpensForValidation /\ Fault

Settles(from, result) ==
    /\ Goto(from, "running")
    /\ marker' = NoJob /\ status' = result
    /\ UNCHANGED <<directory, stage, service, switch, tampered, faults>>

(* Mutant: success leaves the marker. *)
FinishAppliedKeepingMarker ==
    /\ Goto("clearing_marker", "running") /\ status' = "applied"
    /\ UNCHANGED <<directory, stage, marker, service, switch, tampered, faults>>

FinishApplied == Settles("clearing_marker", "applied")

-----------------------------------------------------------------------------
(* The catch: before the candidate was touched, only the moves are undone.  *)

(* partialOldMoveIsProven, and the hash of the database where it now is.    *)
SplitIsProven ==
    /\ \A c \in Components :
          /\ (current[c] # Absent) = (c \in was \ moved)
          /\ (old[c] # Absent) = (c \in moved)
    /\ "database" \in was =>
          (IF "database" \in moved THEN old ELSE current).database = before.files.database

OriginalIsRestored ==
    /\ Present(current) = was /\ Present(old) = {}
    /\ "database" \in was => current.database = before.files.database

CheckSplit ==
    Decides("undoing_moves", IF SplitIsProven THEN "moving_back" ELSE "refused")

ReturnsToCurrent(c) ==
    /\ current' = [current EXCEPT ![c] = old[c]]
    /\ rollback' = [rollback EXCEPT ![job][c] = Absent]

MoveBack ==
    /\ moved # {} /\ Moves("moving_back", "moving_back")
    /\ ReturnsToCurrent(Last(moved)) /\ moved' = moved \ {Last(moved)}
    /\ UNCHANGED <<failed, staged, was>>

CheckMovedBack ==
    /\ moved = {}
    /\ Decides("moving_back", IF OriginalIsRestored THEN "clearing_undone" ELSE "refused")

-----------------------------------------------------------------------------
(* The catch: afterwards, the candidate is put aside and the old comes back. *)

Installed == Present(current) \cap CandidateComponents

CheckUndo ==
    \/ /\ Decides("switch_failed", "restoring_old")
       /\ OldIsComplete /\ Present(current) = {}
    \/ /\ Moves("switch_failed", "preserving")
       /\ OldIsComplete /\ Present(current) # {} /\ failed[job] = NoDirectory
       /\ failed' = [failed EXCEPT ![job] = Empty]
       /\ UNCHANGED <<current, rollback, staged, was, moved>>
    \/ /\ Decides("switch_failed", "refused")
       /\ ~OldIsComplete \/ (Present(current) # {} /\ failed[job] # NoDirectory)

PreserveCandidate ==
    /\ Installed # {}
    /\ Moves("preserving", "preserving")
    /\ failed' = [failed EXCEPT ![job][First(Installed)] = current[First(Installed)]]
    /\ current' = [current EXCEPT ![First(Installed)] = Absent]
    /\ UNCHANGED <<rollback, staged, was, moved>>

CandidatePreserved == Installed = {} /\ Decides("preserving", "restoring_old")

RestoreOld ==
    /\ Moves("restoring_old", "restoring_old") /\ Present(old) # {}
    /\ ReturnsToCurrent(First(Present(old)))
    /\ UNCHANGED <<failed, staged, was, moved>>

CheckRestored ==
    /\ Decides("restoring_old", IF OriginalIsRestored THEN "clearing_undone" ELSE "refused")
    /\ Present(old) = {}

FinishRolledBack == Settles("clearing_undone", "rolled_back")

-----------------------------------------------------------------------------
(* What may go wrong.                                                       *)

Fails(from, to) ==
    /\ Goto(from, to) /\ Fault
    /\ UNCHANGED <<directory, stage, marker, status, service, switch, tampered>>

(* The marker cannot be read or the database cannot be hashed. *)
StartFails == marker # NoJob /\ Fails("starting", "refused")

MoveFails == was # moved /\ Fails("moving_old", "undoing_moves")

(* Mutant: a candidate that cannot be confirmed is not put aside. *)
SwitchFailsSilently ==
    \/ was = moved /\ Fails("moving_old", "switch_failed")
    \/ \E step \in {"installing_database", "installing_materials"} :
          Fails(step, "switch_failed")
    \/ Fails("clearing_marker", "clearing_undone")

SwitchFails ==
    \/ was = moved /\ Fails("moving_old", "switch_failed")
    \/ \E step \in {"installing_database", "installing_materials", "clearing_marker"} :
          Fails(step, "switch_failed")

(* A throw inside the catch rejects the promise of the bootstrap. *)
UndoSteps == {"undoing_moves", "moving_back", "switch_failed", "preserving",
              "restoring_old", "clearing_undone"}
UndoFails == \E step \in UndoSteps : Fails(step, "refused")

Crash == at # "off" /\ Stops({at}) /\ Fault

(* The disk loses a stage, or a cleaner removes it. *)
DamageStage(j) ==
    /\ staged[j] # {} /\ j \notin damaged /\ Fault
    /\ damaged' = damaged \cup {j}
    /\ UNCHANGED <<directory, staged, marker, at, status, service, switch, tampered>>

(* A sync tool replaces the database, or makes one of the candidate's paths *)
(* appear or vanish, while the old data are being moved.                    *)
Tamper ==
    /\ ~tampered /\ tampered' = TRUE /\ at \in {"moving_old", "undoing_moves"}
    /\ \/ \E c \in CandidateComponents :
             current' = [current EXCEPT ![c] = IF @ = Absent THEN Foreign ELSE Absent]
       \/ current.database # Absent /\ current' = [current EXCEPT !.database = Foreign]
    /\ UNCHANGED <<rollback, failed, stage, marker, at, status, service, switch, faults>>

-----------------------------------------------------------------------------
Switch == \/ NothingPending \/ RefuseToStart \/ StartSwitch \/ MoveOld \/ CheckMoved
          \/ InstallDatabase \/ InstallMaterials \/ ValidateInstalled \/ FinishApplied

Undo == \/ CheckSplit \/ MoveBack \/ CheckMovedBack \/ CheckUndo \/ PreserveCandidate
        \/ CandidatePreserved \/ RestoreOld \/ CheckRestored \/ FinishRolledBack

Startup == Switch \/ Undo

Service == \E j \in Jobs : \/ Preview(j) \/ RequestConfirmation(j) \/ ExpireToken(j)
                           \/ Confirm(j) \/ WriteMarker(j)

Failure == \/ StartFails \/ MoveFails \/ SwitchFails \/ ValidationFails
           \/ UndoFails \/ Crash \/ Tamper
           \/ \E j \in Jobs : WriteMarkerFails(j) \/ DamageStage(j)

Next == \/ Startup \/ Service \/ Failure
        \/ UseApplication \/ Launch \/ ExitForRestore \/ Quit

Spec == Init /\ [][Next]_vars

(* The startup runs on unless it dies, and the user starts the application  *)
(* again.                                                                   *)
FairSpec == Spec /\ WF_vars(Startup) /\ WF_vars(Launch) /\ WF_vars(Quit)

-----------------------------------------------------------------------------
TypeOK ==
    /\ current \in Files
    /\ staged \in [Jobs -> SUBSET {"database", "materials"}] /\ damaged \subseteq Jobs
    /\ rollback \in [Jobs -> Files \cup {NoDirectory}]
    /\ failed \in [Jobs -> Files \cup {NoDirectory}]
    /\ marker \in Jobs \cup {NoJob}
    /\ at \in UndoSteps \cup
              {"off", "starting", "running", "refused", "moving_old", "installing_database",
               "installing_materials", "validating", "clearing_marker"}
    /\ status \in {"none", "applied", "rolled_back"}
    /\ was \subseteq Components /\ moved \subseteq was
    /\ prepared \subseteq Jobs /\ granted \subseteq prepared /\ writing \subseteq prepared
    /\ before \in [job : Jobs \cup {NoJob}, files : Files]
    /\ tampered \in BOOLEAN /\ faults \in Nat

(* The application never opens a mixture: the write-ahead log of one        *)
(* database beside another, or the old materials beside the restored rows.  *)
(* Nor does it open on top of an interrupted switch: a marker that is there  *)
(* while it runs names a restore that has not begun.                        *)
OpensOneDataSet ==
    at = "running" =>
        /\ \A c, d \in Present(current) : current[c] = current[d]
        /\ marker # NoJob => rollback[marker] = NoDirectory

(* What restart, marker and directories say of each other, whenever the     *)
(* application runs or a switch has stopped halfway.                        *)
RestoreConsistent == TypeOK /\ OpensOneDataSet

(* Whichever rename failed, a restore that reports rolled_back gives back   *)
(* exactly the directory the switch found, and one that reports applied runs *)
(* the staged backup and has the complete old directory in its rollback     *)
(* directory.                                                               *)
OutcomeIsExact ==
    [][at' = "running" /\ at # "running" =>
        /\ status' = "rolled_back" => current' = before.files
        /\ status' = "applied" => current'.database = job /\ rollback'[job] = before.files]_vars

(* No step of a launch drops or overwrites a file of any data set: it is in *)
(* place, rolled back, or put aside, and every interruption leaves it so.   *)
Copies == {current} \cup {rollback[j] : j \in {k \in Jobs : rollback[k] # NoDirectory}}
                    \cup {failed[j] : j \in {k \in Jobs : failed[k] # NoDirectory}}
Kept == {<<c, files[c]>> : c \in Components, files \in Copies}
NothingIsDropped ==
    [][at \notin {"running", "off"} /\ tampered' = tampered =>
           \A kept \in Kept : kept[2] # Absent => kept \in Kept']_vars

(* A switch that ends is complete in one direction, and loses nothing in      *)
(* either.                                                                  *)
SwitchIsExact == OutcomeIsExact /\ NothingIsDropped

(* The two conditions under which every launch stops at the error box.      *)
Interrupted == marker # NoJob /\ rollback[marker] # NoDirectory
StageLost == marker # NoJob /\ marker \in damaged

(* Relaunching reaches the application, restored or not, unless the stage   *)
(* is lost or something really went wrong in the switch.                    *)
EventuallyRuns ==
    []<>(at = "running" \/ StageLost \/ (Interrupted /\ (faults > 0 \/ tampered)))
=============================================================================
