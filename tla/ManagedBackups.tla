---------------------------- MODULE ManagedBackups ----------------------------
(***************************************************************************)
(* The backups the application keeps beside its data (protection/backup.ts): *)
(* how one is made from a snapshot of the database and the files of the      *)
(* registered materials, published by a rename, rotated and deleted.         *)
(*                                                                         *)
(* Making a backup, and everything a deletion of a source does with backups, *)
(* holds one exclusive lock.  The user's own deletion of a backup does not,  *)
(* and the rest of the application goes on while a backup is being made.     *)
(***************************************************************************)
EXTENDS Naturals, FiniteSets

CONSTANTS
    Documents,      \* sources
    Materials,      \* bundles of published materials
    OperationIds,   \* ids that an operation gives its backup, createLocalForOperation
    KeepDaily,      \* newest backups that rotation keeps: 7
    KeepWeekly,     \* newest weekly backups that it keeps: 4
    NoBackup,
    MaxBackups,     \* bound: backups made without an operation
    MaxWeeks,       \* bound
    MaxDeletes,     \* bound: backups that the user deletes
    MaxFaults,      \* bound: failing calls of the file system
    MaxCrashes      \* bound

(* Ids drawn at random, which are numbers here, are not those of operations. *)
ASSUME BackupAssumption ==
    /\ {KeepDaily, MaxWeeks} \subseteq Nat \ {0}
    /\ {KeepWeekly, MaxBackups, MaxDeletes, MaxFaults, MaxCrashes} \subseteq Nat
    /\ IsFiniteSet(OperationIds) /\ OperationIds \cap (1..MaxBackups) = {}
    /\ NoBackup \notin (1..MaxBackups) \cup OperationIds

VARIABLES
    held,        \* source_document: the sources that the database holds
    materials,   \* material_artifact: the bundles registered now, whose files exist
    backup,      \* the directory of every backup
    older,       \* for every complete one, those that were complete before it
    making,      \* memory: the backup that is being made
    lock,        \* memory: who holds the exclusive lock
    numbered,    \* backups made under an id drawn at random
    week, userDeletes, crashes, faults

backups == <<backup, older, making, numbered>>
data == <<held, materials>>
bounds == <<week, userDeletes, crashes>>

-----------------------------------------------------------------------------
Ids == (1..MaxBackups) \cup OperationIds
Absent == [dir |-> "none", documents |-> {}, files |-> {},
           on |-> 0, weekly |-> FALSE]
Idle == [id |-> NoBackup, step |-> "idle", doomed |-> {}]

(* "ready" directories that no longer pass verifyBackupDirectory are        *)
(* "broken": they are not listed, but they are there.                       *)
Ready == {id \in Ids : backup[id].dir = "ready"}
Broken == {id \in Ids : backup[id].dir = "broken"}

Init ==
    /\ held = Documents /\ materials = Materials
    /\ backup = [id \in Ids |-> Absent] /\ older = [id \in Ids |-> {}]
    /\ making = Idle /\ lock = "free" /\ numbered = 0
    /\ week = 1 /\ userDeletes = 0 /\ crashes = 0 /\ faults = 0

Fault == faults < MaxFaults /\ faults' = faults + 1
NoFault == UNCHANGED faults

(* The list without one. *)
Unlisted(id) == [o \in Ids |-> IF o = id THEN {} ELSE older[o] \ {id}]

(* fs.rm of the directory <id>.ready, which may be gone by now; when it fails *)
(* some of the files may be.  A <id>.partial is not touched.                 *)
Vanish(id) ==
    /\ backup' = [backup EXCEPT ![id] = IF id \in Ready \cup Broken THEN Absent ELSE @]
    /\ older' = Unlisted(id)
VanishFails(id) ==
    /\ Fault
    /\ \/ UNCHANGED <<backup, older>>
       \/ /\ id \in Ready \cup Broken
          /\ backup' = [backup EXCEPT ![id].dir = "broken"]
          /\ older' = Unlisted(id)

-----------------------------------------------------------------------------
(* The rest of the application.                                             *)

(* A reclassification or a deletion takes bundles back, rows and files;     *)
(* commitMaterialBundle registers a new one.                                *)
TakeBack(m) ==
    /\ m \in materials /\ materials' = materials \ {m}
    /\ UNCHANGED <<backups, held, lock, bounds, faults>>

NextWeek ==
    /\ week < MaxWeeks /\ week' = week + 1
    /\ UNCHANGED <<backups, data, lock, userDeletes, crashes, faults>>

-----------------------------------------------------------------------------
(* createLocalUnlocked.                                                     *)

Goes(step) == making' = [making EXCEPT !.step = step]

(* retentionFor: the first backup of a week is the weekly one. *)
WeeklyTag == ~\E id \in Ready : backup[id].weekly /\ backup[id].on = week

(* A directory left over from an interrupted attempt is removed first. *)
Start(id) ==
    /\ making = Idle
    /\ making' = [Idle EXCEPT !.id = id, !.step = "snapshot"]
    /\ backup' = [backup EXCEPT ![id] =
         [Absent EXCEPT !.dir = "partial", !.on = week, !.weekly = WeeklyTag]]
    /\ UNCHANGED older

(* createSanitizedSnapshot: the database as it is when the copy completes. *)
TakeSnapshot ==
    /\ making.step = "snapshot" /\ Goes("list")
    /\ backup' = [backup EXCEPT ![making.id].documents = held]
    /\ UNCHANGED <<data, older, lock, numbered, bounds, faults>>

(* copyRegisteredMaterials asks the database that is in use, not the copy. *)
ListMaterials ==
    /\ making.step = "list" /\ Goes("copy")
    /\ backup' = [backup EXCEPT ![making.id].files = materials]
    /\ UNCHANGED <<data, older, lock, numbered, bounds, faults>>

CopyMaterials ==
    /\ making.step = "copy" /\ backup[making.id].files \subseteq materials /\ Goes("rename")
    /\ UNCHANGED <<backup, data, older, lock, numbered, bounds, faults>>

Publish ==
    /\ making.step = "rename" /\ Goes("rotate")
    /\ backup' = [backup EXCEPT ![making.id].dir = "ready"]
    /\ older' = [older EXCEPT ![making.id] = Ready]
    /\ UNCHANGED <<data, lock, numbered, bounds, faults>>

(* Mutant: the error of the copy is not passed on. *)
CreateHangs ==
    /\ making.step \in {"snapshot", "list", "rename"} /\ Goes("failed") /\ Fault
    /\ backup' = [backup EXCEPT ![making.id] = Absent]
    /\ UNCHANGED <<data, older, lock, numbered, bounds>>

(* A file is missing, or a call fails, before the rename: the directory is  *)
(* removed if it can be.                                                    *)
CreateFails ==
    /\ making.step \in {"snapshot", "list", "copy", "rename"} /\ Goes("failed")
    /\ \/ /\ making.step = "copy" /\ ~(backup[making.id].files \subseteq materials)
          /\ backup' = [backup EXCEPT ![making.id] = Absent] /\ NoFault
       \/ /\ backup' = [backup EXCEPT ![making.id] = Absent] /\ Fault
       \/ UNCHANGED backup /\ Fault
    /\ UNCHANGED <<data, older, lock, numbered, bounds>>

(* list sorts by the time at which they were made. *)
Newer(id) == {o \in Ready : id \in older[o]}
Weekly == {id \in Ready : backup[id].weekly}
Newest(n, S) == {id \in S : Cardinality(Newer(id) \cap S) < n}

(* Mutant: the list is sorted the wrong way round. *)
KeptOldest == {id \in Ready : Cardinality(older[id]) < KeepDaily}

Kept == Newest(KeepDaily, Ready) \cup Newest(KeepWeekly, Weekly)

(* rotate: what is to go is decided once, and removed one by one. *)
BeginRotation ==
    /\ making.step = "rotate"
    /\ making' = [making EXCEPT !.step = "remove",
                                !.doomed = IF Cardinality(Ready) <= 1 THEN {} ELSE Ready \ Kept]
    /\ UNCHANGED <<backup, data, older, lock, numbered, bounds, faults>>

RemoveOld(id) ==
    /\ making.step = "remove" /\ id \in making.doomed
    /\ \/ Vanish(id) /\ NoFault /\ making' = [making EXCEPT !.doomed = @ \ {id}]
       \/ VanishFails(id) /\ making' = [making EXCEPT !.doomed = {}, !.step = "failed"]
    /\ UNCHANGED <<data, lock, numbered, bounds>>

(* The files are measured at the end, which fails when they are gone. *)
EndRotation ==
    /\ making.step = "remove" /\ making.doomed = {}
    /\ Goes(IF making.id \in Ready THEN "made" ELSE "failed")
    /\ UNCHANGED <<backup, data, older, lock, numbered, bounds, faults>>

Ended == making.step \in {"made", "failed"}

-----------------------------------------------------------------------------
(* createLocal, by the user or once a day.                                  *)

StartLocal ==
    /\ lock = "free" /\ lock' = "local"
    /\ numbered < MaxBackups /\ numbered' = numbered + 1
    /\ Start(numbered + 1)
    /\ UNCHANGED <<data, bounds, faults>>

GiveBack == lock = "local" /\ Ended /\ lock' = "free" /\ making' = Idle

EndLocal ==
    /\ GiveBack
    /\ UNCHANGED <<backup, data, older, numbered, bounds, faults>>

(* deleteManaged, confirmed by the user; it does not take the lock. *)
DeleteManaged(id) ==
    /\ id \in Ready \cup Broken
    /\ userDeletes < MaxDeletes /\ userDeletes' = userDeletes + 1
    /\ \/ Vanish(id) /\ NoFault
       \/ VanishFails(id)
    /\ UNCHANGED <<data, making, lock, numbered, week, crashes>>

(* The process ends.  What was being made stays as it is on disk, and one   *)
(* of the directories that were to be removed may be half gone.             *)
Forget == making' = Idle /\ lock' = "free"

Interrupted(doomed) ==
    \/ UNCHANGED <<backup, older>>
    \/ \E id \in doomed \cap Ready :
          /\ backup' = [backup EXCEPT ![id].dir = "broken"]
          /\ older' = Unlisted(id)

Crash ==
    /\ crashes < MaxCrashes /\ crashes' = crashes + 1
    /\ Forget /\ Interrupted(making.doomed)
    /\ UNCHANGED <<data, numbered, week, userDeletes, faults>>

MakeBackup ==
    \/ TakeSnapshot \/ ListMaterials \/ CopyMaterials \/ Publish \/ CreateFails
    \/ BeginRotation \/ EndRotation \/ \E id \in Ids : RemoveOld(id)

Environment ==
    \/ NextWeek
    \/ \E m \in Materials : TakeBack(m)
    \/ \E id \in Ids : DeleteManaged(id)

vars == <<held, materials, backup, older, making, lock, numbered, week, userDeletes,
          crashes, faults>>

-----------------------------------------------------------------------------
(* The complete backups are in one order; only the holder of the lock makes  *)
(* a backup, and a rotation does not remove the one that was just made.      *)
Ordered ==
    /\ \A id \in Ids : older[id] \subseteq Ready /\ (id \notin Ready => older[id] = {})
    /\ \A a, b \in Ready : a # b => (a \in older[b] <=> b \notin older[a])
    /\ \A a \in Ready : a \notin older[a] /\ \A b \in older[a] : older[b] \subseteq older[a]

TypeOK ==
    /\ held \subseteq Documents /\ materials \subseteq Materials
    /\ \A id \in Ids :
         /\ DOMAIN backup[id] = DOMAIN Absent
         /\ backup[id].dir \in {"none", "partial", "ready", "broken"}
         /\ backup[id].documents \subseteq Documents
         /\ backup[id].files \subseteq Materials
         /\ backup[id].on \in 0..MaxWeeks /\ backup[id].weekly \in BOOLEAN
    /\ Ordered
    /\ making # Idle => /\ lock # "free" /\ making.id \in Ids
                        /\ making.doomed \subseteq Ids \ {making.id}
=============================================================================
