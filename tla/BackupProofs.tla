----------------------------- MODULE BackupProofs ------------------------------
(***************************************************************************)
(* For every number of backups, sources, keys, requests, failing calls and   *)
(* crashes.  Both components work on the backups of ManagedBackups, whose    *)
(* invariant comes first (BackupInv).                                       *)
(*                                                                         *)
(* Maintenance: the lock has one owner, a key takes effect once              *)
(* (MaintenanceConsistent), and a complete backup vanishes only because it    *)
(* is old or because its deletion was confirmed (OnlyOldBackupsVanish).      *)
(*                                                                         *)
(* SourceDeletion: what the tombstone of a deleted source says of the        *)
(* managed backups is true of the disk (WorkflowReportsTruth), whatever      *)
(* still holds the source was named to the user (ScopeCoversBackups), and a   *)
(* complete backup is left or owed (DeletionConsistent).                     *)
(*                                                                         *)
(* Each part uses the assumptions of its own component: none of the first    *)
(* two cites one of SourceDeletion.                                         *)
(***************************************************************************)
EXTENDS SourceDeletion, Maintenance, FiniteSetTheorems, WellFoundedInduction, TLAPS

-----------------------------------------------------------------------------
(* The backups, under every component that makes or removes them.           *)

Unpublished == {"snapshot", "list", "copy", "rename"}
MakingSteps == Unpublished \cup {"idle", "rotate", "remove", "made", "failed"}

Directories ==
    [dir : {"none", "partial", "ready", "broken"}, documents : SUBSET Documents,
     files : SUBSET Materials, on : Nat, weekly : BOOLEAN]
Makings == [id : Ids \cup {NoBackup}, step : MakingSteps, doomed : SUBSET Ids]

BackupTypes ==
    /\ held \subseteq Documents /\ materials \subseteq Materials
    /\ backup \in [Ids -> Directories] /\ making \in Makings
    /\ week \in Nat /\ numbered \in Nat

There(id) == backup[id].dir \in {"ready", "broken"}

(* The bounds of the model, and the ids that no backup has yet.              *)
Bounded ==
    /\ week \in 1..MaxWeeks /\ numbered \in 0..MaxBackups /\ userDeletes \in Nat
    /\ \A id \in Ids : backup[id].on \in 0..MaxWeeks
    /\ \A n \in 1..MaxBackups : n > numbered => backup[n].dir = "none"

(* Until it is published a backup is in its .partial directory; from then on  *)
(* it is the newest, and there unless the user deletes it.                   *)
MakerFits ==
    /\ making.step = "idle" => making = Idle
    /\ making.step # "idle" => lock # "free" /\ making.id \in Ids
    /\ making.step \in Unpublished => backup[making.id].dir = "partial"
    /\ making.step \in {"rotate", "remove", "made"} =>
         making.id \in Ready \/ userDeletes > 0
    /\ making.step \in {"rotate", "remove"} /\ making.id \in Ready =>
         Ready \ {making.id} \subseteq older[making.id]
    /\ making.step # "remove" => making.doomed = {}
    /\ making.id \notin making.doomed

(* What a rotation has decided to remove is old, apart from what the user     *)
(* deletes meanwhile: the newer ones are counted that are not to go, too.    *)
Surviving(id) == Newer(id) \ making.doomed
RotationFits ==
    \A id \in making.doomed \cap Ready :
        /\ Cardinality(Surviving(id)) + userDeletes >= KeepDaily
        /\ id \in Weekly => Cardinality(Surviving(id) \cap Weekly) + userDeletes >= KeepWeekly

OlderTyped == older \in [Ids -> SUBSET Ids]

BackupInv ==
    BackupTypes /\ OlderTyped /\ Ordered /\ Bounded /\ MakerFits /\ RotationFits

-----------------------------------------------------------------------------
LEMMA IdleIs ==
  /\ Idle \in Makings /\ Idle.step = "idle" /\ Idle.doomed = {}
BY DEF Idle, Makings, MakingSteps

LEMMA AbsentIs ==
  /\ Absent \in Directories /\ Absent.dir = "none" /\ Absent.documents = {} /\ Absent.on = 0
BY DEF Absent, Directories

LEMMA IdsAre ==
  /\ \A n \in Nat : n < MaxBackups => n + 1 \in Ids /\ n + 1 \in 1..MaxBackups
  /\ NoBackup \notin Ids /\ IsFiniteSet(Ids) /\ MaxWeeks \in Nat \ {0} /\ MaxBackups \in Nat
<1>1. MaxBackups \in Nat /\ MaxWeeks \in Nat \ {0} /\ IsFiniteSet(OperationIds)
  BY BackupAssumption
<1>2. IsFiniteSet(1..MaxBackups)
  BY <1>1, FS_Interval
<1>3. IsFiniteSet(Ids)
  BY <1>1, <1>2, FS_Union DEF Ids
<1> QED
  BY <1>1, <1>3, BackupAssumption DEF Ids

LEMMA ReadyIs ==
  ASSUME NEW S \in SUBSET Ids
  PROVE  IsFiniteSet(S) /\ Cardinality(S) \in Nat
BY IdsAre, FS_Subset, FS_CardinalityType

LEMMA InitBackups == Init => BackupInv
<1> SUFFICES ASSUME Init PROVE BackupInv
  OBVIOUS
<1>1. /\ held = Documents /\ materials = Materials /\ backup = [id \in Ids |-> Absent]
      /\ older = [id \in Ids |-> {}] /\ making = Idle /\ numbered = 0
      /\ week = 1 /\ userDeletes = 0
  BY DEF Init
<1>2. BackupTypes /\ OlderTyped
  BY <1>1, IdleIs, AbsentIs DEF BackupTypes, OlderTyped
<1>3. Ready = {}
  BY <1>1, AbsentIs DEF Ready
<1>4. Ordered
  BY <1>1, <1>3 DEF Ordered
<1>5. Bounded
  <2>1. \A n \in 1..MaxBackups : n \in Ids
    BY DEF Ids
  <2> QED
    BY <1>1, <2>1, AbsentIs, IdsAre DEF Bounded
<1>6. MakerFits /\ RotationFits
  BY <1>1, IdleIs DEF MakerFits, RotationFits, Unpublished
<1> QED
  BY <1>2, <1>4, <1>5, <1>6 DEF BackupInv

LEMMA BackupsAre ==
  ASSUME BackupInv
  PROVE  TypeOK
<1>1. \A id \in Ids : /\ DOMAIN backup[id] = DOMAIN Absent
                      /\ backup[id].dir \in {"none", "partial", "ready", "broken"}
                      /\ backup[id].documents \subseteq Documents
                      /\ backup[id].files \subseteq Materials
                      /\ backup[id].weekly \in BOOLEAN
  BY DEF BackupInv, BackupTypes, Directories, Absent
<1>2. making # Idle => making.step # "idle"
  BY DEF BackupInv, MakerFits
<1>3. making.doomed \subseteq Ids \ {making.id}
  BY DEF BackupInv, BackupTypes, Makings, MakerFits
<1> QED
  BY <1>1, <1>2, <1>3 DEF BackupInv, BackupTypes, MakerFits, Bounded, TypeOK

-----------------------------------------------------------------------------
(* What a rotation keeps.                                                   *)

(* Of a set of complete backups with n newer ones, n newest are newer.       *)
LEMMA NewestAreNewer ==
  ASSUME Ordered, NEW S \in SUBSET Ready, NEW n \in Nat, NEW id \in S, id \notin Newest(n, S)
  PROVE  Cardinality(Newer(id) \cap Newest(n, S)) >= n
<1>1. PICK T : T = Newer(id) \cap S
  OBVIOUS
<1>2. PICK N : N = T \cap Newest(n, S)
  OBVIOUS
<1>3. T \in SUBSET Ids /\ N \in SUBSET Ids /\ S \in SUBSET Ids
  BY <1>1, <1>2 DEF Ready
<1>4. /\ Cardinality(T) \in Nat /\ Cardinality(N) \in Nat
      /\ IsFiniteSet(T) /\ IsFiniteSet(N)
  BY <1>3, ReadyIs
<1>5. Cardinality(T) >= n
  BY <1>1, <1>4 DEF Newest
<1>6. N = Newer(id) \cap Newest(n, S)
  BY <1>1, <1>2 DEF Newest
<1>7. SUFFICES ASSUME Cardinality(N) < n PROVE FALSE
  BY <1>4, <1>6
<1>8. T \ N # {}
  <2>1. CASE T = N
    BY <1>4, <1>5, <1>7, <2>1
  <2> QED
    BY <1>2, <2>1
<1>9. PICK Left : Left = T \ N
  OBVIOUS
<1>10. PICK Ranks : Ranks = {Cardinality(Newer(o) \cap S) : o \in Left}
  OBVIOUS
<1>11. Ranks \subseteq Nat /\ Ranks # {}
  <2>1. \A o \in Left : Newer(o) \cap S \in SUBSET Ids
    BY <1>3
  <2> QED
    BY <1>8, <1>9, <1>10, <2>1, ReadyIs
<1>12. PICK least \in Ranks : \A k \in Ranks : ~ (<<k, least>> \in OpToRel(<, Nat))
  BY <1>11, WFMin, NatLessThanWellFounded, Zenon
<1>13. \A k \in Ranks : ~ (k < least)
  BY <1>11, <1>12 DEF OpToRel
<1>14. PICK m \in Left : least = Cardinality(Newer(m) \cap S)
  BY <1>10
<1>15. m \in S /\ id \in older[m] /\ m \notin Newest(n, S) /\ m \in Ready
  BY <1>1, <1>2, <1>9, <1>14 DEF Newer
<1>16. Newer(m) \cap S \subseteq T
  <2> SUFFICES ASSUME NEW o \in Newer(m) \cap S PROVE id \in older[o]
    BY <1>1 DEF Newer
  <2>1. o \in Ready /\ m \in older[o]
    BY DEF Newer
  <2>2. older[m] \subseteq older[o]
    BY <2>1 DEF Ordered
  <2> QED
    BY <1>15, <2>2
<1>17. Newer(m) \cap S \subseteq N
  <2> SUFFICES ASSUME NEW o \in Newer(m) \cap S, o \notin N PROVE FALSE
    OBVIOUS
  <2>1. o \in Left /\ o \in Ready /\ m \in older[o] /\ m \in S
    BY <1>9, <1>15, <1>16 DEF Newer
  <2>2. Newer(o) \cap S \subseteq Newer(m) \cap S
    <3> SUFFICES ASSUME NEW p \in Newer(o) PROVE m \in older[p]
      BY DEF Newer
    <3>1. p \in Ready /\ o \in older[p]
      BY DEF Newer
    <3>2. older[o] \subseteq older[p]
      BY <3>1 DEF Ordered
    <3> QED
      BY <2>1, <3>2
  <2>3. o \notin Newer(o)
    BY <2>1 DEF Newer, Ordered
  <2>4. Newer(o) \cap S # Newer(m) \cap S
    BY <2>3
  <2>5. IsFiniteSet(Newer(m) \cap S) /\ Newer(m) \cap S \in SUBSET Ids
        /\ Newer(o) \cap S \in SUBSET Ids
    BY <1>3, ReadyIs
  <2>6. /\ Cardinality(Newer(o) \cap S) <= Cardinality(Newer(m) \cap S)
        /\ Cardinality(Newer(m) \cap S) # Cardinality(Newer(o) \cap S)
    BY <2>2, <2>4, <2>5, FS_Subset
  <2>7. Cardinality(Newer(o) \cap S) < least
    BY <1>14, <2>5, <2>6, ReadyIs
  <2>8. Cardinality(Newer(o) \cap S) \in Ranks
    BY <1>10, <2>1
  <2> QED
    BY <1>13, <2>7, <2>8
<1>18. Cardinality(Newer(m) \cap S) <= Cardinality(N) /\ Cardinality(Newer(m) \cap S) \in Nat
  BY <1>3, <1>4, <1>17, FS_Subset, ReadyIs
<1>19. Cardinality(Newer(m) \cap S) < n
  BY <1>4, <1>7, <1>18
<1> QED
  BY <1>15, <1>19 DEF Newest

(* Steps that leave the complete backups alone.                             *)
ReadyStays ==
    /\ backup' \in [Ids -> Directories] /\ older' = older /\ Ready' = Ready
    /\ \A id \in Ready : backup'[id] = backup[id]

LEMMA SameReady ==
  ASSUME BackupInv, backup' = backup, older' = older
  PROVE  ReadyStays
BY DEF ReadyStays, BackupInv, BackupTypes, Ready

LEMMA StaysOrdered ==
  ASSUME BackupInv, ReadyStays
  PROVE  /\ OlderTyped' /\ Ordered' /\ Weekly' = Weekly
         /\ \A id : Newer(id)' = Newer(id)
<1>1. older' = older /\ Ready' = Ready /\ \A id \in Ready : backup'[id] = backup[id]
  BY DEF ReadyStays
<1>2. OlderTyped' /\ Ordered'
  BY <1>1 DEF BackupInv, OlderTyped, Ordered
<1>3. Weekly' = Weekly /\ \A id : Newer(id)' = Newer(id)
  BY <1>1 DEF Weekly, Newer
<1> QED
  BY <1>2, <1>3

(* As long as no more is to be removed, and no user deletion is forgotten.   *)
LEMMA StaysRotated ==
  ASSUME BackupInv, ReadyStays, making'.doomed = making.doomed \/ making'.doomed = {},
         userDeletes' = userDeletes
  PROVE  RotationFits'
<1>1. CASE making'.doomed = {}
  BY <1>1 DEF RotationFits
<1>2. CASE making'.doomed = making.doomed
  <2>1. \A id : Surviving(id)' = Surviving(id)
    BY <1>2, StaysOrdered DEF Surviving
  <2> QED
    BY <1>2, <2>1, StaysOrdered DEF BackupInv, RotationFits, ReadyStays
<1> QED
  BY <1>1, <1>2

(* One directory changes which is not complete, before and after.            *)
LEMMA OneIncomplete ==
  ASSUME BackupInv, NEW id \in Ids, id \notin Ready, NEW x \in Directories,
         x.dir # "ready", x.on \in 0..MaxWeeks, backup' = [backup EXCEPT ![id] = x], older' = older
  PROVE  /\ ReadyStays /\ backup'[id] = x
         /\ \A o \in Ids : backup'[o].on \in 0..MaxWeeks
         /\ \A o \in Ids : o # id => backup'[o] = backup[o]
<1>1. /\ backup' \in [Ids -> Directories] /\ backup'[id] = x
      /\ \A o \in Ids : o # id => backup'[o] = backup[o]
  BY DEF BackupInv, BackupTypes
<1>2. ReadyStays
  BY <1>1 DEF ReadyStays, Ready
<1>3. \A o \in Ids : backup'[o].on \in 0..MaxWeeks
  BY <1>1 DEF BackupInv, Bounded
<1> QED
  BY <1>1, <1>2, <1>3

LEMMA Fields ==
  ASSUME BackupInv
  PROVE  /\ backup \in [Ids -> Directories] /\ making \in Makings
         /\ held \subseteq Documents /\ materials \subseteq Materials
         /\ week \in 1..MaxWeeks /\ numbered \in 0..MaxBackups /\ userDeletes \in Nat
         /\ making.step \in MakingSteps /\ making.doomed \subseteq Ids
         /\ older \in [Ids -> SUBSET Ids]
         /\ \A id \in Ids : backup[id].on \in 0..MaxWeeks
BY DEF BackupInv, BackupTypes, Bounded, Makings, OlderTyped

LEMMA MakingGoes ==
  ASSUME BackupInv, NEW step \in MakingSteps, Goes(step)
  PROVE  /\ making' \in Makings /\ making'.id = making.id /\ making'.step = step
         /\ making'.doomed = making.doomed
BY DEF Goes, Makings, BackupInv, BackupTypes

(* The parts of a step that leaves the complete backups alone.               *)
LEMMA QuietStep ==
  ASSUME BackupInv, ReadyStays, held' \subseteq held, materials' \subseteq materials,
         making' \in Makings, making'.doomed = making.doomed \/ making'.doomed = {},
         userDeletes' = userDeletes, Bounded', MakerFits'
  PROVE  BackupInv'
<1>1. week' \in Nat /\ numbered' \in Nat
  BY IdsAre DEF Bounded
<1>2. BackupTypes'
  BY <1>1 DEF BackupTypes, BackupInv, ReadyStays
<1> QED
  BY <1>2, StaysOrdered, StaysRotated DEF BackupInv

LEMMA MakesPartial ==
  ASSUME BackupInv, making.step \in Unpublished
  PROVE  /\ making.id \in Ids /\ backup[making.id].dir = "partial" /\ making.id \notin Ready
         /\ lock # "free" /\ backup[making.id] \in Directories /\ making.doomed = {}
         /\ making.step # "idle"
BY DEF BackupInv, MakerFits, Unpublished, Ready, BackupTypes

LEMMA TakeSnapshotKeeps ==
  ASSUME BackupInv, TakeSnapshot \/ ListMaterials
  PROVE  BackupInv' /\ ReadyStays
<1>1. /\ making.step \in Unpublished
      /\ UNCHANGED <<data, older, lock, numbered, bounds>>
      /\ \E step \in {"list", "copy"} : Goes(step)
      /\ \/ backup' = [backup EXCEPT ![making.id].documents = held]
         \/ backup' = [backup EXCEPT ![making.id].files = materials]
  BY DEF TakeSnapshot, ListMaterials, Unpublished
<1>2. /\ making.id \in Ids /\ backup[making.id].dir = "partial" /\ making.id \notin Ready
      /\ lock # "free" /\ backup[making.id] \in Directories /\ making.doomed = {}
  BY <1>1, MakesPartial
<1>3. PICK x : /\ x \in {[backup[making.id] EXCEPT !.documents = held],
                         [backup[making.id] EXCEPT !.files = materials]}
               /\ backup' = [backup EXCEPT ![making.id] = x]
  BY <1>1
<1>4. x \in Directories /\ x.dir = "partial" /\ x.on = backup[making.id].on
  BY <1>2, <1>3, Fields DEF Directories
<1>5. /\ ReadyStays /\ backup'[making.id] = x
      /\ \A o \in Ids : backup'[o].on \in 0..MaxWeeks
      /\ \A o \in Ids : o # making.id => backup'[o] = backup[o]
  BY <1>1, <1>2, <1>3, <1>4, Fields, OneIncomplete
<1>6. /\ making' \in Makings /\ making'.id = making.id /\ making'.step \in {"list", "copy"}
      /\ making'.doomed = making.doomed
  BY <1>1, MakingGoes DEF MakingSteps, Unpublished
<1>7. Bounded'
  <2>1. ASSUME NEW n \in 1..MaxBackups, n > numbered
        PROVE  backup'[n].dir = "none"
    <3>1. n \in Ids /\ backup[n].dir = "none"
      BY <2>1 DEF BackupInv, Bounded, Ids
    <3> QED
      BY <1>2, <1>5, <3>1
  <2> QED
    BY <1>1, <1>5, <2>1, Fields DEF Bounded, bounds
<1>8. MakerFits'
  BY <1>1, <1>2, <1>4, <1>5, <1>6 DEF MakerFits, Unpublished
<1> QED
  BY <1>1, <1>5, <1>6, <1>7, <1>8, QuietStep DEF data, bounds, ReadyStays

LEMMA CopyKeeps ==
  ASSUME BackupInv, CopyMaterials \/ EndRotation
  PROVE  BackupInv' /\ ReadyStays
<1>1. /\ backup' = backup /\ UNCHANGED <<data, older, lock, numbered, bounds>>
      /\ \/ making.step = "copy" /\ Goes("rename")
         \/ making.step = "remove" /\ making.doomed = {} /\ making.id \in Ready /\ Goes("made")
         \/ making.step = "remove" /\ making.doomed = {} /\ Goes("failed")
  BY DEF CopyMaterials, EndRotation
<1>2. /\ making' \in Makings /\ making'.id = making.id /\ making'.doomed = making.doomed
      /\ \/ making'.step = "rename" /\ making.step = "copy"
         \/ making'.step = "made" /\ making.doomed = {} /\ making.id \in Ready
         \/ making'.step = "failed" /\ making.doomed = {}
  BY <1>1, MakingGoes DEF MakingSteps, Unpublished
<1>3. making.step # "idle" /\ ReadyStays
  BY <1>1, SameReady
<1>4. Bounded'
  BY <1>1 DEF BackupInv, Bounded, bounds
<1>5. MakerFits'
  BY <1>1, <1>2, <1>3 DEF BackupInv, MakerFits, Unpublished, ReadyStays
<1> QED
  BY <1>1, <1>2, <1>3, <1>4, <1>5, QuietStep DEF data, bounds, ReadyStays

LEMMA FailsKeeps ==
  ASSUME BackupInv, CreateFails
  PROVE  BackupInv' /\ ReadyStays
<1>1. /\ making.step \in Unpublished /\ Goes("failed")
      /\ backup' = [backup EXCEPT ![making.id] = Absent] \/ backup' = backup
      /\ UNCHANGED <<data, older, lock, numbered, bounds>>
  BY DEF CreateFails, Unpublished
<1>2. /\ making.id \in Ids /\ backup[making.id].dir = "partial" /\ making.id \notin Ready
      /\ lock # "free" /\ making.doomed = {}
  BY <1>1, MakesPartial
<1>3. /\ ReadyStays
      /\ \A o \in Ids : backup'[o].on \in 0..MaxWeeks
      /\ \A o \in Ids : backup'[o] = backup[o] \/ backup'[o].dir = "none"
  <2>1. CASE backup' = backup
    BY <1>1, <2>1, SameReady, Fields
  <2>2. CASE backup' = [backup EXCEPT ![making.id] = Absent]
    <3>1. Absent.on \in 0..MaxWeeks /\ Absent \in Directories /\ Absent.dir = "none"
      BY AbsentIs, IdsAre
    <3> QED
      BY <1>1, <1>2, <2>2, <3>1, OneIncomplete
  <2> QED
    BY <1>1, <2>1, <2>2
<1>4. /\ making' \in Makings /\ making'.id = making.id /\ making'.step = "failed"
      /\ making'.doomed = making.doomed
  BY <1>1, MakingGoes DEF MakingSteps
<1>5. Bounded'
  <2>1. \A n \in 1..MaxBackups : n \in Ids
    BY DEF Ids
  <2> QED
    BY <1>1, <1>3, <2>1 DEF BackupInv, Bounded, bounds
<1>6. MakerFits'
  BY <1>1, <1>2, <1>4 DEF MakerFits, Unpublished
<1> QED
  BY <1>1, <1>3, <1>4, <1>5, <1>6, QuietStep DEF data, bounds, ReadyStays

(* A new one begins in a directory that does not hold a complete one.        *)
LEMMA StartKeeps ==
  ASSUME BackupInv, NEW id \in Ids, ~There(id), Start(id), lock' # "free",
         UNCHANGED <<data, week, userDeletes>>,
         \/ numbered' = numbered /\ id \notin 1..MaxBackups
         \/ numbered < MaxBackups /\ numbered' = numbered + 1 /\ id = numbered + 1
  PROVE  BackupInv' /\ ReadyStays
<1>1. PICK x : x = [Absent EXCEPT !.dir = "partial", !.on = week, !.weekly = WeeklyTag]
  OBVIOUS
<1>2. /\ backup' = [backup EXCEPT ![id] = x] /\ older' = older
      /\ making' = [Idle EXCEPT !.id = id, !.step = "snapshot"]
  BY <1>1 DEF Start
<1>3. x \in Directories /\ x.dir = "partial" /\ x.on \in 0..MaxWeeks
  <2>1. week \in Nat /\ week \in 0..MaxWeeks /\ WeeklyTag \in BOOLEAN
    BY Fields, IdsAre DEF WeeklyTag
  <2> QED
    BY <1>1, <2>1 DEF Absent, Directories
<1>4. making' \in Makings /\ making'.id = id /\ making'.step = "snapshot" /\ making'.doomed = {}
  BY <1>2 DEF Idle, Makings, MakingSteps, Unpublished
<1>5. id \notin Ready
  BY DEF There, Ready
<1>6. /\ ReadyStays /\ backup'[id] = x
      /\ \A o \in Ids : backup'[o].on \in 0..MaxWeeks
      /\ \A o \in Ids : o # id => backup'[o] = backup[o]
  BY <1>2, <1>3, <1>5, OneIncomplete
<1>7. Bounded'
  <2>1. numbered' \in 0..MaxBackups /\ numbered' >= numbered
    BY Fields, IdsAre
  <2>2. ASSUME NEW n \in 1..MaxBackups, n > numbered'
        PROVE  backup'[n].dir = "none"
    <3>1. n \in Ids /\ n > numbered /\ n # id
      BY <2>1, <2>2, Fields, IdsAre DEF Ids
    <3>2. backup[n].dir = "none"
      BY <3>1 DEF BackupInv, Bounded
    <3> QED
      BY <1>6, <3>1, <3>2
  <2> QED
    BY <1>6, <2>1, <2>2, Fields DEF Bounded
<1>8. MakerFits'
  BY <1>3, <1>4, <1>6 DEF MakerFits, Unpublished
<1> QED
  BY <1>4, <1>6, <1>7, <1>8, QuietStep DEF data, ReadyStays

(* Whatever was being made, nothing is any more.                            *)
LEMMA IdleFits == ASSUME making' = Idle PROVE MakerFits'
BY IdleIs, IdsAre DEF MakerFits, Unpublished, Idle

LEMMA EndKeeps ==
  ASSUME BackupInv, making' = Idle, UNCHANGED <<backup, data, older, numbered, week, userDeletes>>
  PROVE  BackupInv' /\ ReadyStays
<1>1. ReadyStays
  BY SameReady
<1>2. Bounded'
  BY DEF BackupInv, Bounded
<1>3. MakerFits'
  BY IdleFits
<1>4. making' \in Makings /\ making'.doomed = {}
  BY IdleIs
<1> QED
  BY <1>1, <1>2, <1>3, <1>4, QuietStep DEF data, ReadyStays

(* Backups and what is being made stay; the lock may change hands while       *)
(* nothing is being made.                                                   *)
LEMMA OthersKeep ==
  ASSUME BackupInv, UNCHANGED <<backup, older, making, numbered, userDeletes>>,
         lock' = lock \/ making.step = "idle",
         held' \subseteq held, materials' \subseteq materials,
         week' = week \/ (week < MaxWeeks /\ week' = week + 1)
  PROVE  BackupInv' /\ ReadyStays
<1>1. ReadyStays
  BY SameReady
<1>2. Bounded'
  BY Fields, IdsAre DEF BackupInv, Bounded
<1>3. MakerFits'
  BY <1>1 DEF BackupInv, MakerFits, ReadyStays, Unpublished
<1>4. making' \in Makings
  BY Fields
<1> QED
  BY <1>1, <1>2, <1>3, <1>4, QuietStep DEF ReadyStays

LEMMA OrderIs ==
  ASSUME BackupInv
  PROVE  /\ \A a \in Ids : older[a] \subseteq Ready /\ (a \notin Ready => older[a] = {})
         /\ \A a, b \in Ready : a # b => (a \in older[b] <=> b \notin older[a])
         /\ \A a \in Ready : a \notin older[a] /\ \A b \in older[a] : older[b] \subseteq older[a]
BY DEF BackupInv, Ordered

(* The new one comes after all others.                                      *)
LEMMA PublishKeeps ==
  ASSUME BackupInv, Publish
  PROVE  /\ BackupInv' /\ making.id \in Ids \ Ready /\ Ready' = Ready \cup {making.id}
         /\ \A id \in Ids : /\ backup'[id].documents = backup[id].documents
                            /\ id # making.id => backup'[id] = backup[id]
<1>1. /\ making.step = "rename" /\ Goes("rotate")
      /\ backup' = [backup EXCEPT ![making.id].dir = "ready"]
      /\ older' = [older EXCEPT ![making.id] = Ready]
      /\ UNCHANGED <<data, lock, numbered, bounds>>
  BY DEF Publish
<1>2. /\ making.id \in Ids /\ backup[making.id].dir = "partial" /\ making.id \notin Ready
      /\ lock # "free" /\ backup[making.id] \in Directories /\ making.doomed = {}
  BY <1>1, MakesPartial DEF Unpublished
<1>3. PICK x : x = [backup[making.id] EXCEPT !.dir = "ready"]
  OBVIOUS
<1>4. /\ x \in Directories /\ x.dir = "ready" /\ x.on = backup[making.id].on
      /\ x.documents = backup[making.id].documents
  BY <1>2, <1>3 DEF Directories
<1>5. /\ backup' \in [Ids -> Directories] /\ backup'[making.id] = x
      /\ \A o \in Ids : o # making.id => backup'[o] = backup[o]
  BY <1>1, <1>2, <1>3, <1>4, Fields
<1>6. Ready' = Ready \cup {making.id}
  BY <1>2, <1>4, <1>5 DEF Ready
<1>7. /\ older' \in [Ids -> SUBSET Ids] /\ older'[making.id] = Ready
      /\ \A o \in Ids : o # making.id => older'[o] = older[o]
  BY <1>1, <1>2, Fields DEF Ready
<1>8. Ordered'
  <2>1. \A a \in Ids : older'[a] \subseteq Ready' /\ (a \notin Ready' => older'[a] = {})
    BY <1>6, <1>7, OrderIs
  <2>2. \A a, b \in Ready' : a # b => (a \in older'[b] <=> b \notin older'[a])
    <3> SUFFICES ASSUME NEW a \in Ready', NEW b \in Ready', a # b
                 PROVE  a \in older'[b] <=> b \notin older'[a]
      OBVIOUS
    <3>1. a \in Ids /\ b \in Ids
      BY DEF Ready
    <3>2. CASE a = making.id
      BY <1>2, <1>6, <1>7, <3>1, <3>2, OrderIs
    <3>3. CASE b = making.id
      BY <1>2, <1>6, <1>7, <3>1, <3>3, OrderIs
    <3>4. CASE a # making.id /\ b # making.id
      BY <1>6, <1>7, <3>1, <3>4, OrderIs
    <3> QED
      BY <3>2, <3>3, <3>4
  <2>3. ASSUME NEW a \in Ready'
        PROVE  a \notin older'[a] /\ \A b \in older'[a] : older'[b] \subseteq older'[a]
    <3>1. CASE a = making.id
      <4>1. \A b \in Ready : b \in Ids /\ older[b] \subseteq Ready
        BY OrderIs DEF Ready
      <4> QED
        BY <1>2, <1>7, <3>1, <4>1
    <3>2. CASE a # making.id
      <4>1. a \in Ready /\ a \in Ids /\ older'[a] = older[a]
        BY <1>6, <1>7, <3>2 DEF Ready
      <4>2. \A b \in older[a] : b \in Ids /\ b # making.id
        BY <1>2, <4>1, OrderIs DEF Ready
      <4> QED
        BY <1>7, <4>1, <4>2, OrderIs
    <3> QED
      BY <3>1, <3>2
  <2> QED
    BY <2>1, <2>2, <2>3 DEF Ordered
<1>9. /\ making' \in Makings /\ making'.id = making.id /\ making'.step = "rotate"
      /\ making'.doomed = {}
  BY <1>1, <1>2, MakingGoes DEF MakingSteps
<1>10. Bounded'
  <2>1. ASSUME NEW n \in 1..MaxBackups, n > numbered
        PROVE  backup'[n].dir = "none"
    <3>1. n \in Ids /\ backup[n].dir = "none"
      BY <2>1 DEF BackupInv, Bounded, Ids
    <3> QED
      BY <1>2, <1>5, <3>1
  <2> QED
    BY <1>1, <1>4, <1>5, <2>1, Fields DEF Bounded, bounds
<1>11. MakerFits'
  BY <1>1, <1>2, <1>6, <1>7, <1>9 DEF MakerFits, Unpublished
<1>12. BackupTypes' /\ OlderTyped' /\ RotationFits'
  BY <1>1, <1>5, <1>7, <1>9 DEF BackupInv, BackupTypes, OlderTyped, RotationFits, data, bounds
<1> QED
  BY <1>2, <1>4, <1>5, <1>6, <1>8, <1>10, <1>11, <1>12 DEF BackupInv

(* What is decided to go has as many newer ones among those that stay.       *)
LEMMA RotationKeeps ==
  ASSUME BackupInv, BeginRotation
  PROVE  BackupInv' /\ ReadyStays
<1>1. PICK gone : gone = IF Cardinality(Ready) <= 1 THEN {} ELSE Ready \ Kept
  OBVIOUS
<1>2. /\ making.step = "rotate" /\ making' = [making EXCEPT !.step = "remove", !.doomed = gone]
      /\ UNCHANGED <<backup, data, older, lock, numbered, bounds>>
  BY <1>1 DEF BeginRotation
<1>3. gone \subseteq Ready \ Kept /\ Ready \subseteq Ids
  BY <1>1 DEF Ready
<1>4. /\ making' \in Makings /\ making'.id = making.id /\ making'.step = "remove"
      /\ making'.doomed = gone
  BY <1>2, <1>3, Fields DEF Makings, MakingSteps
<1>5. ReadyStays
  BY <1>2, SameReady
<1>6. making.id \notin gone
  <2> SUFFICES ASSUME making.id \in Ready PROVE making.id \in Newest(KeepDaily, Ready)
    BY <1>3 DEF Kept
  <2>1. Ready \ {making.id} \subseteq older[making.id]
    BY <1>2 DEF BackupInv, MakerFits
  <2>2. Newer(making.id) \cap Ready = {}
    BY <2>1, OrderIs DEF Newer
  <2>3. Cardinality({}) = 0 /\ KeepDaily > 0
    BY FS_EmptySet, BackupAssumption
  <2> QED
    BY <2>2, <2>3 DEF Newest
<1>7. MakerFits'
  BY <1>2, <1>4, <1>5, <1>6 DEF BackupInv, MakerFits, Unpublished, ReadyStays, bounds
<1>8. RotationFits'
  <2> SUFFICES ASSUME NEW id \in gone
               PROVE  /\ Cardinality(Surviving(id)') + userDeletes >= KeepDaily
                      /\ id \in Weekly =>
                           Cardinality(Surviving(id)' \cap Weekly) + userDeletes >= KeepWeekly
    BY <1>2, <1>3, <1>4, <1>5, StaysOrdered DEF RotationFits, bounds
  <2>1. Surviving(id)' = Newer(id) \ gone /\ id \in Ready /\ Ordered
    BY <1>3, <1>4, <1>5, StaysOrdered DEF Surviving, BackupInv
  <2>2. userDeletes \in Nat /\ KeepDaily \in Nat /\ KeepWeekly \in Nat
    BY Fields, BackupAssumption
  <2>3. Surviving(id)' \in SUBSET Ids
    BY <2>1 DEF Newer, Ready
  <2>4. Cardinality(Surviving(id)') >= KeepDaily
    <3>1. id \notin Newest(KeepDaily, Ready)
      BY <1>3 DEF Kept
    <3>2. Cardinality(Newer(id) \cap Newest(KeepDaily, Ready)) >= KeepDaily
      BY <2>1, <2>2, <3>1, NewestAreNewer
    <3>3. Newer(id) \cap Newest(KeepDaily, Ready) \in SUBSET Surviving(id)'
      BY <1>3, <2>1 DEF Kept
    <3> QED
      BY <2>2, <2>3, <3>2, <3>3, FS_Subset, ReadyIs
  <2>5. ASSUME id \in Weekly
        PROVE  Cardinality(Surviving(id)' \cap Weekly) >= KeepWeekly
    <3>1. id \notin Newest(KeepWeekly, Weekly) /\ Weekly \in SUBSET Ready
      BY <1>3 DEF Kept, Weekly
    <3>2. Cardinality(Newer(id) \cap Newest(KeepWeekly, Weekly)) >= KeepWeekly
      BY <2>1, <2>2, <2>5, <3>1, NewestAreNewer
    <3>3. Newer(id) \cap Newest(KeepWeekly, Weekly) \in SUBSET (Surviving(id)' \cap Weekly)
      BY <1>3, <2>1 DEF Kept, Newest
    <3>4. Surviving(id)' \cap Weekly \in SUBSET Ids
      BY <2>3
    <3> QED
      BY <2>2, <3>2, <3>3, <3>4, FS_Subset, ReadyIs
  <2>6. /\ Cardinality(Surviving(id)') \in Nat
        /\ Cardinality(Surviving(id)' \cap Weekly) \in Nat
    BY <2>3, ReadyIs
  <2> QED
    BY <2>2, <2>4, <2>5, <2>6
<1>9. Bounded' /\ BackupTypes'
  BY <1>2, <1>4 DEF BackupInv, Bounded, BackupTypes, bounds, data
<1> QED
  BY <1>5, <1>7, <1>8, <1>9, StaysOrdered DEF BackupInv, ReadyStays

-----------------------------------------------------------------------------
(* Directories are removed or damaged.                                      *)
Drops(S) ==
    /\ S \subseteq Ids /\ \A id \in S : There(id) /\ backup'[id].dir \in {"none", "broken"}
    /\ backup' \in [Ids -> Directories]
    /\ \A id \in Ids : backup'[id].on \in 0..MaxWeeks
    /\ \A id \in Ids \ S : backup'[id] = backup[id]
    /\ older' = [o \in Ids |-> IF o \in S THEN {} ELSE older[o] \ S]

LEMMA NothingDrops ==
  ASSUME BackupInv, UNCHANGED <<backup, older>>
  PROVE  Drops({})
BY Fields DEF Drops

LEMMA VanishDrops ==
  ASSUME BackupInv, NEW id \in Ids, Vanish(id) \/ VanishFails(id)
  PROVE  \E S \in SUBSET {id} : Drops(S) /\ (Vanish(id) => id \notin Ready')
<1>0. Vanish(id) => id \notin Ready'
  <2>1. Vanish(id) => backup'[id].dir # "ready"
    BY AbsentIs, Fields DEF Vanish, Ready, Broken
  <2> QED
    BY <2>1 DEF Ready
<1>1. CASE UNCHANGED <<backup, older>>
  BY <1>0, <1>1, NothingDrops
<1>2. CASE There(id) /\ older' = Unlisted(id)
           /\ backup' \in {[backup EXCEPT ![id] = Absent], [backup EXCEPT ![id].dir = "broken"]}
  <2>1. PICK x : /\ x \in {Absent, [backup[id] EXCEPT !.dir = "broken"]}
                 /\ backup' = [backup EXCEPT ![id] = x]
    BY <1>2
  <2>2. x \in Directories /\ x.dir \in {"none", "broken"} /\ x.on \in 0..MaxWeeks
    <3>1. backup[id] \in Directories /\ backup[id].on \in 0..MaxWeeks
      BY Fields
    <3> QED
      BY <2>1, <3>1, AbsentIs, IdsAre DEF Directories
  <2>3. /\ backup' \in [Ids -> Directories] /\ backup'[id] = x
        /\ \A o \in Ids : o # id => backup'[o] = backup[o]
    BY <2>1, <2>2, Fields
  <2>4. older' = [o \in Ids |-> IF o \in {id} THEN {} ELSE older[o] \ {id}]
    BY <1>2 DEF Unlisted
  <2>5. Drops({id})
    BY <1>2, <2>2, <2>3, <2>4, Fields DEF Drops
  <2> QED
    BY <1>0, <2>5
<1>3. CASE Vanish(id) /\ ~There(id)
  <2>1. backup' = backup
    BY <1>3, Fields DEF Vanish, There, Ready, Broken
  <2>2. id \notin Ready
    BY <1>3 DEF There, Ready
  <2>3. older' = [o \in Ids |-> IF o \in {} THEN {} ELSE older[o] \ {}]
    <3>1. ASSUME NEW o \in Ids
          PROVE  older'[o] = older[o]
      <4>1. older'[o] = IF o = id THEN {} ELSE older[o] \ {id}
        BY <1>3 DEF Vanish, Unlisted
      <4>2. id \notin older[o] /\ older[id] = {}
        BY <2>2, OrderIs
      <4> QED
        BY <4>1, <4>2
    <3>2. older' = [o \in Ids |-> older'[o]]
      BY <1>3 DEF Vanish, Unlisted
    <3> QED
      BY <3>1, <3>2
  <2>4. Drops({})
    BY <2>1, <2>3, Fields DEF Drops
  <2> QED
    BY <1>0, <2>4
<1>4. Vanish(id) /\ There(id) => <1>2!1
  BY DEF Vanish, There, Ready, Broken
<1>5. VanishFails(id) => UNCHANGED <<backup, older>> \/ <1>2!1
  BY DEF VanishFails, There, Ready, Broken
<1> QED
  BY <1>0, <1>1, <1>2, <1>3, <1>4, <1>5

LEMMA InterruptedDrops ==
  ASSUME BackupInv, NEW doomed, Interrupted(doomed)
  PROVE  \E S \in SUBSET (doomed \cap Ready) : Drops(S)
<1>1. CASE UNCHANGED <<backup, older>>
  BY <1>1, NothingDrops
<1>2. ASSUME NEW id \in doomed \cap Ready,
             backup' = [backup EXCEPT ![id].dir = "broken"], older' = Unlisted(id)
      PROVE  Drops({id})
  <2>1. id \in Ids /\ There(id) /\ backup[id] \in Directories /\ backup[id].on \in 0..MaxWeeks
    BY Fields DEF There, Ready
  <2>2. PICK x : x = [backup[id] EXCEPT !.dir = "broken"]
    OBVIOUS
  <2>3. x \in Directories /\ x.dir = "broken" /\ x.on \in 0..MaxWeeks
    BY <2>1, <2>2 DEF Directories
  <2>4. /\ backup' \in [Ids -> Directories] /\ backup'[id] = x
        /\ \A o \in Ids : o # id => backup'[o] = backup[o]
    BY <1>2, <2>1, <2>2, <2>3, Fields
  <2>5. older' = [o \in Ids |-> IF o \in {id} THEN {} ELSE older[o] \ {id}]
    BY <1>2 DEF Unlisted
  <2> QED
    BY <2>1, <2>3, <2>4, <2>5, Fields DEF Drops
<1> QED
  BY <1>1, <1>2 DEF Interrupted

LEMMA Dropped ==
  ASSUME BackupInv, NEW S, Drops(S)
  PROVE  /\ Ready' = Ready \ S /\ OlderTyped' /\ Ordered'
         /\ \A id \in Ready' : Newer(id)' = Newer(id) \ S
         /\ Weekly' = Weekly \ S
<1>1. /\ S \subseteq Ids /\ \A id \in S : backup'[id].dir # "ready"
      /\ \A id \in Ids \ S : backup'[id] = backup[id]
      /\ older' \in [Ids -> SUBSET Ids]
      /\ \A o \in S : older'[o] = {}
      /\ \A o \in Ids \ S : older'[o] = older[o] \ S
  BY Fields DEF Drops
<1>2. Ready' = Ready \ S
  BY <1>1 DEF Ready
<1>3. \A a \in Ids : older'[a] \subseteq Ready' /\ (a \notin Ready' => older'[a] = {})
  BY <1>1, <1>2, OrderIs
<1>4. \A a \in Ready' : a \in Ids \ S /\ a \in Ready /\ older'[a] = older[a] \ S
  BY <1>1, <1>2 DEF Ready
<1>5. \A a, b \in Ready' : a # b => (a \in older'[b] <=> b \notin older'[a])
  BY <1>4, OrderIs
<1>6. ASSUME NEW a \in Ready'
      PROVE  a \notin older'[a] /\ \A b \in older'[a] : older'[b] \subseteq older'[a]
  <2>1. \A b \in older'[a] : b \in Ready'
    BY <1>3 DEF Ready
  <2> QED
    BY <1>4, <2>1, OrderIs
<1>7. Weekly' = Weekly \ S
  BY <1>1, <1>2 DEF Weekly, Ready
<1>8. \A id \in Ready' : Newer(id)' = Newer(id) \ S
  BY <1>2, <1>4 DEF Newer
<1> QED
  BY <1>1, <1>2, <1>3, <1>5, <1>6, <1>7, <1>8 DEF Ordered, OlderTyped

(* A removal that leaves what is being made alone.                           *)
LEMMA DropKeeps ==
  ASSUME BackupInv, NEW S, Drops(S), MakerFits', RotationFits', making' \in Makings,
         UNCHANGED <<data, numbered, week>>, userDeletes' \in Nat
  PROVE  BackupInv'
<1>1. Bounded'
  <2>1. ASSUME NEW n \in 1..MaxBackups, n > numbered
        PROVE  backup'[n].dir = "none"
    <3>1. n \in Ids /\ backup[n].dir = "none"
      BY <2>1 DEF BackupInv, Bounded, Ids
    <3> QED
      BY <3>1 DEF Drops, There
  <2> QED
    BY <2>1, Fields DEF Bounded, Drops
<1>2. BackupTypes'
  BY DEF BackupInv, BackupTypes, Drops, data
<1> QED
  BY <1>1, <1>2, Dropped DEF BackupInv

LEMMA RemoveOldKeeps ==
  ASSUME BackupInv, NEW id \in Ids, RemoveOld(id)
  PROVE  BackupInv' /\ \E S \in SUBSET {id} : Drops(S)
<1>1. /\ making.step = "remove" /\ id \in making.doomed
      /\ UNCHANGED <<data, lock, numbered, bounds>>
      /\ Vanish(id) \/ VanishFails(id)
      /\ \/ Vanish(id) /\ making' = [making EXCEPT !.doomed = @ \ {id}]
         \/ making' = [making EXCEPT !.doomed = {}, !.step = "failed"]
  BY DEF RemoveOld
<1>2. PICK S \in SUBSET {id} : Drops(S) /\ (Vanish(id) => id \notin Ready')
  BY <1>1, VanishDrops
<1>3. /\ making' \in Makings /\ making'.id = making.id /\ id # making.id
      /\ \/ Vanish(id) /\ making'.step = "remove" /\ making'.doomed = making.doomed \ {id}
         \/ making'.step = "failed" /\ making'.doomed = {}
  <2>1. making \in Makings /\ making.doomed \subseteq Ids
    BY Fields
  <2> QED
    BY <1>1, <2>1 DEF Makings, MakingSteps, BackupInv, MakerFits
<1>4. MakerFits'
  <2>1. making.id \in Ids
    BY <1>1 DEF BackupInv, MakerFits
  <2>2. making.id \in Ready => making.id \in Ready' /\ older'[making.id] = older[making.id] \ S
    BY <1>2, <1>3, <2>1, Dropped DEF Drops
  <2>3. Ready' = Ready \ S
    BY <1>2, Dropped
  <2> QED
    BY <1>1, <1>3, <2>1, <2>2, <2>3 DEF BackupInv, MakerFits, Unpublished, bounds
<1>5. making'.doomed # {} => id \notin Ready'
  BY <1>2, <1>3
<1>6. RotationFits'
  <2> SUFFICES ASSUME NEW o \in making'.doomed \cap Ready'
               PROVE  /\ Cardinality(Surviving(o)') + userDeletes' >= KeepDaily
                      /\ o \in Weekly' =>
                           Cardinality(Surviving(o)' \cap Weekly') + userDeletes' >= KeepWeekly
    BY DEF RotationFits
  <2>1. o \in making.doomed /\ o \in Ready /\ making'.doomed = making.doomed \ {id}
    BY <1>2, <1>3, Dropped
  <2>2. Newer(o)' = Newer(o) \ S /\ Weekly' = Weekly \ S
    BY <1>2, Dropped
  <2>3. /\ Surviving(o)' = Surviving(o)
        /\ Surviving(o)' \cap Weekly' = Surviving(o) \cap Weekly
    <3>1. id \notin Newer(o)' /\ S \subseteq making.doomed
      <4>1. id \notin Ready'
        BY <1>5, <2>1
      <4> QED
        BY <1>1, <1>2, <4>1 DEF Newer
    <3> QED
      BY <2>1, <2>2, <3>1 DEF Surviving
  <2> QED
    BY <1>1, <2>1, <2>2, <2>3 DEF BackupInv, RotationFits, bounds
<1> QED
  BY <1>1, <1>2, <1>3, <1>4, <1>6, DropKeeps, Fields DEF bounds

(* What the user deletes is counted.                                         *)
LEMMA DeleteManagedKeeps ==
  ASSUME BackupInv, NEW id \in Ids, DeleteManaged(id)
  PROVE  BackupInv' /\ \E S \in SUBSET {id} : Drops(S)
<1>1. /\ making' = making /\ lock' = lock /\ UNCHANGED <<data, numbered, week>>
      /\ userDeletes' = userDeletes + 1 /\ (Vanish(id) \/ VanishFails(id))
  BY DEF DeleteManaged
<1>2. PICK S \in SUBSET {id} : Drops(S)
  BY <1>1, VanishDrops
<1>3. userDeletes' \in Nat /\ userDeletes' > 0 /\ making' \in Makings
  BY <1>1, Fields
<1>4. Ready' = Ready \ S /\ older' = [o \in Ids |-> IF o \in S THEN {} ELSE older[o] \ S]
  BY <1>2, Dropped DEF Drops
<1>5. MakerFits'
  <2>1. making.step # "idle" => making.id \in Ids
    BY DEF BackupInv, MakerFits
  <2>2. making.step \in Unpublished => backup'[making.id] = backup[making.id]
    <3>1. making.step \in Unpublished => making.id \in Ids /\ making.id \notin S
      BY <1>2, <2>1, MakesPartial DEF Drops, There
    <3> QED
      BY <1>2, <3>1 DEF Drops
  <2>3. making.id \in Ready' => older'[making.id] = older[making.id] \ S
    BY <1>4 DEF Ready
  <2> QED
    BY <1>1, <1>3, <1>4, <2>1, <2>2, <2>3 DEF BackupInv, MakerFits
<1>6. RotationFits'
  <2> SUFFICES ASSUME NEW o \in making'.doomed \cap Ready'
               PROVE  /\ Cardinality(Surviving(o)') + userDeletes' >= KeepDaily
                      /\ o \in Weekly' =>
                           Cardinality(Surviving(o)' \cap Weekly') + userDeletes' >= KeepWeekly
    BY DEF RotationFits
  <2>1. o \in making.doomed /\ o \in Ready /\ (o \in Weekly' => o \in Weekly)
    BY <1>1, <1>2, <1>4, Dropped
  <2>2. Surviving(o)' = Surviving(o) \ S /\ Weekly' = Weekly \ S
    BY <1>1, <1>2, Dropped DEF Surviving
  <2>3. /\ Surviving(o) \ {id} \subseteq Surviving(o)'
        /\ (Surviving(o) \cap Weekly) \ {id} \subseteq Surviving(o)' \cap Weekly'
    BY <1>2, <2>2
  <2>4. Surviving(o) \in SUBSET Ids /\ Surviving(o)' \in SUBSET Ids
    BY <2>2 DEF Surviving, Newer, Ready
  <2>5. ASSUME NEW A \in SUBSET Ids, NEW B \in SUBSET Ids, A \ {id} \subseteq B
        PROVE  Cardinality(B) + 1 >= Cardinality(A)
    <3>1. Cardinality(A \ {id}) <= Cardinality(B)
      BY <2>5, ReadyIs, FS_Subset
    <3>2. Cardinality(A \ {id}) >= Cardinality(A) - 1
      BY ReadyIs, FS_RemoveElement
    <3> QED
      BY <3>1, <3>2, ReadyIs
  <2>6. Cardinality(Surviving(o)') + 1 >= Cardinality(Surviving(o))
    BY <2>3, <2>4, <2>5
  <2>7. Cardinality(Surviving(o)' \cap Weekly') + 1 >= Cardinality(Surviving(o) \cap Weekly)
    <3>1. Surviving(o) \cap Weekly \in SUBSET Ids /\ Surviving(o)' \cap Weekly' \in SUBSET Ids
      BY <2>4
    <3> QED
      BY <2>3, <2>5, <3>1
  <2>8. /\ Cardinality(Surviving(o)) \in Nat /\ Cardinality(Surviving(o)') \in Nat
        /\ Cardinality(Surviving(o) \cap Weekly) \in Nat
        /\ Cardinality(Surviving(o)' \cap Weekly') \in Nat
    BY <2>4, ReadyIs
  <2>9. /\ Cardinality(Surviving(o)) + userDeletes >= KeepDaily
        /\ o \in Weekly => Cardinality(Surviving(o) \cap Weekly) + userDeletes >= KeepWeekly
    BY <2>1 DEF BackupInv, RotationFits
  <2> QED
    BY <1>1, <2>1, <2>6, <2>7, <2>8, <2>9, Fields, BackupAssumption
<1> QED
  BY <1>1, <1>2, <1>3, <1>5, <1>6, DropKeeps

(* A removal while nothing is being made.                                    *)
LEMMA IdleDropKeeps ==
  ASSUME BackupInv, NEW S, Drops(S), making' = Idle,
         UNCHANGED <<data, numbered, week, userDeletes>>
  PROVE  BackupInv'
<1>1. making' \in Makings /\ MakerFits' /\ RotationFits'
  BY IdleIs, IdleFits DEF RotationFits
<1> QED
  BY <1>1, DropKeeps, Fields

LEMMA MakeBackupKeeps ==
  ASSUME BackupInv, MakeBackup
  PROVE  /\ BackupInv' /\ UNCHANGED <<data, lock, numbered, bounds>>
         /\ making.step # "idle" /\ making'.step # "idle" /\ making'.id = making.id
         /\ \/ ReadyStays
            \/ Publish
            \/ \E id \in Ids : RemoveOld(id) /\ \E S \in SUBSET {id} : Drops(S)
<1>1. UNCHANGED <<data, lock, numbered, bounds>>
  BY DEF MakeBackup, TakeSnapshot, ListMaterials, CopyMaterials, Publish, CreateFails,
         BeginRotation, EndRotation, RemoveOld
<1>2. /\ BackupInv'
      /\ \/ ReadyStays
         \/ Publish
         \/ \E id \in Ids : RemoveOld(id) /\ \E S \in SUBSET {id} : Drops(S)
  BY TakeSnapshotKeeps, CopyKeeps, FailsKeeps, PublishKeeps, RotationKeeps, RemoveOldKeeps
     DEF MakeBackup
<1>3. /\ making.step # "idle"
      /\ \/ \E step \in {"list", "copy", "rename", "rotate", "failed", "made"} : Goes(step)
         \/ \E step \in {"remove", "failed"}, S \in SUBSET Ids :
               making' = [making EXCEPT !.step = step, !.doomed = S]
         \/ making.step = "remove" /\ \E S : making' = [making EXCEPT !.doomed = S]
  BY DEF MakeBackup, TakeSnapshot, ListMaterials, CopyMaterials, Publish, CreateFails,
         BeginRotation, EndRotation, RemoveOld, Ready
<1>4. making'.step # "idle" /\ making'.id = making.id
  BY <1>3, Fields DEF Goes, Makings
<1> QED
  BY <1>1, <1>2, <1>3, <1>4

-----------------------------------------------------------------------------
(* Who asks for a backup, and who deletes one.                              *)

ServiceTypes ==
    /\ row \in [Keys -> Rows \cup {Unused}] /\ flight \in [Keys -> Flights \cup {NoCall}]
    /\ grants \subseteq Ids /\ confirmed \subseteq Ids
    /\ acted \in [Keys -> Nat]

CoordinatorTypes ==
    /\ auto \in [at : {"idle", "listing", "queued", "making"}, day : Nat, completed : Nat]
    /\ failures \in Nat /\ streak \in Nat
    /\ count \in [grants : Nat, replays : Nat, unrecorded : Nat]

(* The lock is free, or held for the coordinator, or for one key.            *)
OneMaker ==
    /\ lock = "free" => Makers = {} /\ auto.at # "making"
    /\ lock # "free" => \/ auto.at = "making" /\ Makers = {}
                        \/ auto.at # "making" /\ \E k \in Keys : Makers = {k}

(* What a key has done so far; only what is confirmed is deleted.             *)
KeyFits(k) ==
    /\ flight[k] # NoCall => /\ row[k] = [of |-> flight[k].of, status |-> "running"]
                             /\ acted[k] = 0
    /\ row[k] = Unused => acted[k] = 0
    /\ acted[k] <= 1
    /\ row[k] = [of |-> Creation, status |-> "succeeded"] => acted[k] = 1
    /\ \A id \in Ids : flight[k] # NoCall /\ flight[k].of = Deletion(id) => id \in confirmed

(* A failure is counted, or its record was lost; an attempt under way is       *)
(* below the limit.                                                         *)
FailuresFit ==
    /\ streak <= failures + count.unrecorded /\ failures <= GiveUp
    /\ auto.at # "idle" => failures < GiveUp

MaintenanceInv ==
    /\ BackupInv /\ ServiceTypes /\ CoordinatorTypes /\ OneMaker /\ FailuresFit
    /\ (\A k \in Keys : KeyFits(k)) /\ grants \subseteq confirmed

LEMMA ContentsAre ==
  /\ Creation \in Contents /\ \A id \in Ids : Deletion(id) \in Contents /\ Deletion(id) # Creation
  /\ \A a, b \in Ids : Deletion(a) = Deletion(b) => a = b
  /\ GiveUp \in Nat \ {0}
BY MaintenanceAssumption DEF Creation, Deletion, Contents

LEMMA InitMaintenance == MaintenanceInit => MaintenanceInv
<1> SUFFICES ASSUME MaintenanceInit PROVE MaintenanceInv
  OBVIOUS
<1>1. BackupInv /\ lock = "free"
  BY InitBackups DEF MaintenanceInit, Init
<1>2. ServiceTypes /\ CoordinatorTypes
  BY DEF MaintenanceInit, ServiceTypes, CoordinatorTypes
<1>3. NoCall \notin Flights /\ Unused \notin Rows
  BY MaintenanceAssumption
<1>4. [of |-> Creation, at |-> "making"] \in Flights /\ [of |-> Creation, status |-> "succeeded"] \in Rows
  BY ContentsAre DEF Flights, Rows
<1>5. OneMaker
  BY <1>1, <1>3, <1>4 DEF MaintenanceInit, OneMaker, Makers
<1>6. \A k \in Keys : KeyFits(k)
  BY <1>3, <1>4 DEF MaintenanceInit, KeyFits
<1>7. FailuresFit /\ grants \subseteq confirmed
  BY ContentsAre DEF MaintenanceInit, FailuresFit
<1> QED
  BY <1>1, <1>2, <1>5, <1>6, <1>7 DEF MaintenanceInv

LEMMA MaintenanceIs ==
  ASSUME MaintenanceInv
  PROVE  /\ BackupInv /\ row \in [Keys -> Rows \cup {Unused}]
         /\ flight \in [Keys -> Flights \cup {NoCall}]
         /\ grants \subseteq Ids /\ confirmed \subseteq Ids /\ acted \in [Keys -> Nat]
         /\ NoCall \notin Flights /\ Unused \notin Rows
         /\ \A k \in Keys : KeyFits(k)
BY MaintenanceAssumption DEF MaintenanceInv, ServiceTypes

(* The statements about the calls depend on what is theirs.                   *)
LEMMA ServiceStays ==
  ASSUME MaintenanceInv, UNCHANGED <<row, flight, acted, grants>>, confirmed \subseteq confirmed',
         confirmed' \subseteq Ids
  PROVE  /\ ServiceTypes' /\ (\A k \in Keys : KeyFits(k)') /\ (grants \subseteq confirmed)'
         /\ Makers' = Makers
BY DEF MaintenanceInv, ServiceTypes, KeyFits, Makers

LEMMA CoordinatorStays ==
  ASSUME MaintenanceInv, UNCHANGED coordinator, count'.unrecorded = count.unrecorded,
         count' \in [grants : Nat, replays : Nat, unrecorded : Nat]
  PROVE  CoordinatorTypes' /\ FailuresFit'
BY DEF coordinator, MaintenanceInv, CoordinatorTypes, FailuresFit

(* The backups go on.                                                       *)
LEMMA BackdropInv ==
  ASSUME MaintenanceInv, Backdrop
  PROVE  MaintenanceInv'
<1>1. UNCHANGED <<row, flight, grants, auto, failures, streak, confirmed, acted, count>>
  BY DEF Backdrop, maintenanceVars, service, coordinator, records
<1>2. BackupInv' /\ lock' = lock
  <2>1. CASE MakeBackup
    BY <2>1, MakeBackupKeeps DEF MaintenanceInv
  <2>2. CASE NextWeek
    BY <2>2, OthersKeep DEF NextWeek, backups, data, MaintenanceInv
  <2>3. CASE \E m \in Materials : TakeBack(m)
    BY <2>3, OthersKeep DEF TakeBack, backups, data, bounds, MaintenanceInv
  <2> QED
    BY <2>1, <2>2, <2>3 DEF Backdrop
<1>3. /\ ServiceTypes' /\ (\A k \in Keys : KeyFits(k)') /\ (grants \subseteq confirmed)'
      /\ Makers' = Makers
  BY <1>1, ServiceStays, MaintenanceIs
<1>4. CoordinatorTypes' /\ FailuresFit'
  BY <1>1, CoordinatorStays DEF coordinator, MaintenanceInv, CoordinatorTypes
<1>5. OneMaker'
  BY <1>1, <1>2, <1>3 DEF MaintenanceInv, OneMaker
<1> QED
  BY <1>2, <1>3, <1>4, <1>5 DEF MaintenanceInv

(* One key goes on.                                                         *)
Could(r, f, n) ==
    /\ f # NoCall => r = [of |-> f.of, status |-> "running"] /\ n = 0
    /\ r = Unused => n = 0
    /\ n <= 1
    /\ r = [of |-> Creation, status |-> "succeeded"] => n = 1
    /\ \A id \in Ids : f # NoCall /\ f.of = Deletion(id) => id \in confirmed

LEMMA OneKey ==
  ASSUME MaintenanceInv, NEW k \in Keys,
         NEW r \in Rows \cup {Unused}, row' = [row EXCEPT ![k] = r],
         NEW f \in Flights \cup {NoCall}, flight' = [flight EXCEPT ![k] = f],
         NEW n \in Nat, acted' = [acted EXCEPT ![k] = n],
         grants' \subseteq grants, confirmed' = confirmed,
         Could(r, f, n)
  PROVE  /\ ServiceTypes' /\ (\A o \in Keys : KeyFits(o)') /\ (grants \subseteq confirmed)'
         /\ Makers' = IF f = [of |-> Creation, at |-> "making"] THEN Makers \cup {k} ELSE Makers \ {k}
<1>1. /\ row' \in [Keys -> Rows \cup {Unused}] /\ flight' \in [Keys -> Flights \cup {NoCall}]
      /\ acted' \in [Keys -> Nat] /\ row'[k] = r /\ flight'[k] = f /\ acted'[k] = n
      /\ \A o \in Keys : o # k => row'[o] = row[o] /\ flight'[o] = flight[o] /\ acted'[o] = acted[o]
  BY MaintenanceIs
<1>2. ServiceTypes' /\ (grants \subseteq confirmed)'
  BY <1>1 DEF MaintenanceInv, ServiceTypes
<1>3. ASSUME NEW o \in Keys
      PROVE  KeyFits(o)'
  <2>1. CASE o = k
    BY <1>1, <2>1 DEF KeyFits, Could
  <2>2. CASE o # k
    BY <1>1, <2>2 DEF KeyFits, MaintenanceInv
  <2> QED
    BY <2>1, <2>2
<1>4. Makers' = IF f = [of |-> Creation, at |-> "making"] THEN Makers \cup {k} ELSE Makers \ {k}
  BY <1>1 DEF Makers
<1> QED
  BY <1>2, <1>3, <1>4

LEMMA KeyIs ==
  ASSUME MaintenanceInv, NEW k \in Keys
  PROVE  /\ KeyFits(k) /\ acted[k] \in Nat /\ row[k] \in Rows \cup {Unused}
         /\ flight[k] \in Flights \cup {NoCall}
         /\ acted = [acted EXCEPT ![k] = acted[k]] /\ flight = [flight EXCEPT ![k] = flight[k]]
BY MaintenanceIs

LEMMA RequestMade ==
  ASSUME MaintenanceInv, NEW k \in Keys, Fresh(k), NEW of \in Contents, Reserve(k, of),
         NEW f \in Flights \cup {NoCall}, InFlight(k, f), f # [of |-> Creation, at |-> "making"],
         f # NoCall => f.of = of /\ \A id \in Ids : of = Deletion(id) => id \in grants,
         grants' \subseteq grants, UNCHANGED <<vars, coordinator, confirmed, acted, count>>
  PROVE  MaintenanceInv'
<1>1. PICK r : r = [of |-> of, status |-> "running"]
  OBVIOUS
<1>2. r \in Rows /\ r # Unused /\ r # [of |-> Creation, status |-> "succeeded"]
  BY <1>1, MaintenanceIs DEF Rows
<1>3. /\ row' = [row EXCEPT ![k] = r] /\ flight' = [flight EXCEPT ![k] = f] /\ acted[k] = 0
      /\ flight[k] = NoCall
  BY <1>1, KeyIs DEF KeyFits, Fresh, Reserve, InFlight
<1>4. acted' = [acted EXCEPT ![k] = 0]
  BY <1>3, KeyIs
<1>5. grants \subseteq confirmed /\ confirmed' = confirmed
  BY DEF MaintenanceInv
<1>6. k \notin Makers
  BY <1>3, ContentsAre, MaintenanceIs DEF Makers, Flights
<1>7. \A id \in Ids : f # NoCall /\ f.of = Deletion(id) => id \in confirmed
  BY <1>5
<1>8. Could(r, f, 0) /\ 0 \in Nat
  BY <1>1, <1>2, <1>7 DEF Could
<1>9. /\ ServiceTypes' /\ (\A o \in Keys : KeyFits(o)') /\ (grants \subseteq confirmed)'
      /\ Makers' = IF f = [of |-> Creation, at |-> "making"] THEN Makers \cup {k} ELSE Makers \ {k}
  BY <1>2, <1>3, <1>4, <1>5, <1>8, OneKey
<1>10. Makers' = Makers
  BY <1>6, <1>9
<1>11. CoordinatorTypes' /\ FailuresFit'
  BY CoordinatorStays DEF MaintenanceInv, CoordinatorTypes
<1>12. BackupInv' /\ lock' = lock /\ auto' = auto
  BY OthersKeep DEF MaintenanceInv, vars, coordinator
<1>13. OneMaker'
  BY <1>10, <1>12 DEF MaintenanceInv, OneMaker
<1> QED
  BY <1>9, <1>11, <1>12, <1>13 DEF MaintenanceInv

LEMMA AskCreateInv ==
  ASSUME MaintenanceInv, NEW k \in Keys, AskCreate(k)
  PROVE  MaintenanceInv'
<1>1. PICK f : f = [of |-> Creation, at |-> "queued"]
  OBVIOUS
<1>2. /\ f \in Flights /\ f # [of |-> Creation, at |-> "making"] /\ f.of = Creation
      /\ Creation \in Contents /\ \A id \in Ids : Deletion(id) # Creation
  BY <1>1, ContentsAre DEF Flights
<1>3. /\ Fresh(k) /\ Reserve(k, Creation) /\ InFlight(k, f) /\ grants' = grants
      /\ UNCHANGED <<vars, coordinator, confirmed, acted, count>>
  BY <1>1 DEF AskCreate, records
<1> QED
  BY <1>2, <1>3, RequestMade

LEMMA AskDeleteInv ==
  ASSUME MaintenanceInv, NEW k \in Keys, NEW id \in Ids, NEW token \in Ids, AskDelete(k, id, token)
  PROVE  MaintenanceInv'
<1>1. /\ Fresh(k) /\ Reserve(k, Deletion(id)) /\ Deletion(id) \in Contents
      /\ UNCHANGED <<vars, coordinator, confirmed, acted, count>>
  BY ContentsAre DEF AskDelete, records
<1>2. CASE Confirms(token, id)
  <2>1. PICK f : f = [of |-> Deletion(id), at |-> "deleting"]
    OBVIOUS
  <2>2. f \in Flights /\ f # [of |-> Creation, at |-> "making"] /\ f.of = Deletion(id)
    BY <1>1, <2>1 DEF Flights
  <2>3. InFlight(k, f) /\ grants' \subseteq grants /\ id \in grants
    BY <1>2, <2>1 DEF AskDelete, Confirms
  <2>4. \A o \in Ids : Deletion(id) = Deletion(o) => o \in grants
    BY <2>3, ContentsAre
  <2> QED
    BY <1>1, <2>2, <2>3, <2>4, RequestMade
<1>3. CASE ~Confirms(token, id)
  <2>1. [of |-> Creation, at |-> "making"] \in Flights
    BY ContentsAre DEF Flights
  <2>2. InFlight(k, NoCall) /\ grants' = grants
    BY <1>1, <1>3, KeyIs DEF AskDelete, InFlight, Fresh
  <2> QED
    BY <1>1, <2>1, <2>2, MaintenanceIs, RequestMade
<1> QED
  BY <1>2, <1>3

LEMMA CoordinatorIs ==
  ASSUME MaintenanceInv
  PROVE  /\ auto \in [at : {"idle", "listing", "queued", "making"}, day : Nat, completed : Nat]
         /\ failures \in Nat /\ streak \in Nat
         /\ count \in [grants : Nat, replays : Nat, unrecorded : Nat]
         /\ FailuresFit /\ OneMaker /\ BackupInv /\ GiveUp \in Nat \ {0}
         /\ week \in Nat
BY ContentsAre DEF MaintenanceInv, CoordinatorTypes, BackupInv, BackupTypes

(* Nothing happens to the backups.                                          *)
LEMMA BackupsStay ==
  ASSUME MaintenanceInv, UNCHANGED vars
  PROVE  BackupInv' /\ lock' = lock
BY OthersKeep DEF MaintenanceInv, vars

(* A success forgets the failures.                                          *)
LEMMA OkFits ==
  ASSUME MaintenanceInv, BackupOk, auto' \in [at : {"idle", "listing", "queued", "making"}, day : Nat, completed : Nat],
         count' \in [grants : Nat, replays : Nat, unrecorded : Nat]
  PROVE  CoordinatorTypes' /\ FailuresFit'
BY ContentsAre DEF BackupOk, CoordinatorTypes, FailuresFit

LEMMA ReplayCreateInv ==
  ASSUME MaintenanceInv, NEW k \in Keys, ReplayCreate(k)
  PROVE  MaintenanceInv'
<1>1. /\ UNCHANGED <<row, flight, acted, grants, confirmed, auto>> /\ BackupOk /\ UNCHANGED vars
      /\ count' = [count EXCEPT !.replays = @ + 1]
  BY DEF ReplayCreate, service
<1>2. /\ ServiceTypes' /\ (\A o \in Keys : KeyFits(o)') /\ (grants \subseteq confirmed)'
      /\ Makers' = Makers
  BY <1>1, ServiceStays, MaintenanceIs
<1>3. CoordinatorTypes' /\ FailuresFit'
  BY <1>1, OkFits, CoordinatorIs
<1>4. BackupInv' /\ lock' = lock
  BY <1>1, BackupsStay
<1>5. OneMaker'
  BY <1>1, <1>2, <1>4 DEF MaintenanceInv, OneMaker
<1> QED
  BY <1>2, <1>3, <1>4, <1>5 DEF MaintenanceInv

(* Only who gets the free lock makes a backup, under an id nobody used.       *)
LEMMA StartLocalKeeps ==
  ASSUME BackupInv, StartLocal
  PROVE  BackupInv' /\ ReadyStays /\ lock = "free" /\ lock' # "free"
<1>1. /\ lock = "free" /\ lock' = "local" /\ Start(numbered + 1)
      /\ numbered < MaxBackups /\ numbered' = numbered + 1
      /\ UNCHANGED <<data, week, userDeletes>>
  BY DEF StartLocal, bounds
<1>2. numbered \in Nat /\ numbered + 1 \in Ids /\ numbered + 1 \in 1..MaxBackups
  BY <1>1, Fields, IdsAre
<1>3. ~There(numbered + 1)
  BY <1>2 DEF BackupInv, Bounded, There
<1> QED
  BY <1>1, <1>2, <1>3, StartKeeps

LEMMA EndLocalKeeps ==
  ASSUME BackupInv, EndLocal
  PROVE  BackupInv' /\ ReadyStays /\ lock # "free" /\ lock' = "free"
BY EndKeeps DEF EndLocal, GiveBack, bounds

LEMMA StartCreateInv ==
  ASSUME MaintenanceInv, NEW k \in Keys, StartCreate(k)
  PROVE  MaintenanceInv'
<1>1. PICK f : f = [of |-> Creation, at |-> "making"]
  OBVIOUS
<1>2. /\ flight[k] = [of |-> Creation, at |-> "queued"] /\ StartLocal
      /\ flight' = [flight EXCEPT ![k] = f]
      /\ UNCHANGED <<row, grants, coordinator, confirmed, acted, count>>
  BY <1>1 DEF StartCreate, InFlight, records
<1>3. f \in Flights /\ [of |-> Creation, at |-> "queued"] \in Flights /\ f.of = Creation
  BY <1>1, ContentsAre DEF Flights
<1>4. flight[k] # NoCall /\ flight[k].of = Creation
  BY <1>2, <1>3, MaintenanceIs
<1>5. acted[k] = 0 /\ row[k] = [of |-> Creation, status |-> "running"]
  BY <1>4, KeyIs DEF KeyFits
<1>6. acted' = [acted EXCEPT ![k] = 0] /\ row' = [row EXCEPT ![k] = row[k]]
      /\ row[k] \in Rows \cup {Unused} /\ row[k] \in Rows
  BY <1>2, <1>5, KeyIs, MaintenanceIs, ContentsAre DEF Rows
<1>7. Could(row[k], f, 0) /\ 0 \in Nat
  BY <1>3, <1>5, <1>6, MaintenanceIs, ContentsAre DEF Could
<1>8. /\ ServiceTypes' /\ (\A o \in Keys : KeyFits(o)') /\ (grants \subseteq confirmed)'
      /\ Makers' = Makers \cup {k}
  BY <1>1, <1>2, <1>3, <1>6, <1>7, OneKey
<1>9. BackupInv' /\ lock = "free" /\ lock' # "free"
  BY <1>2, StartLocalKeeps DEF MaintenanceInv
<1>10. Makers' = {k} /\ auto.at # "making" /\ auto' = auto
  BY <1>2, <1>8, <1>9 DEF MaintenanceInv, OneMaker, coordinator
<1>11. OneMaker'
  BY <1>9, <1>10 DEF OneMaker
<1>12. CoordinatorTypes' /\ FailuresFit'
  BY <1>2, CoordinatorStays, CoordinatorIs
<1> QED
  BY <1>8, <1>9, <1>11, <1>12 DEF MaintenanceInv

(* A call returns: its key has the effect that the call had.                  *)
LEMMA Settled ==
  ASSUME MaintenanceInv, NEW k \in Keys, flight[k] # NoCall,
         NEW saved \in BOOLEAN, Settle(k, saved), NEW n \in {0, 1}, acted' = [acted EXCEPT ![k] = n],
         saved /\ flight[k].of = Creation => n = 1, UNCHANGED <<grants, confirmed>>
  PROVE  /\ ServiceTypes' /\ (\A o \in Keys : KeyFits(o)') /\ (grants \subseteq confirmed)'
         /\ Makers' = Makers \ {k}
<1>1. PICK of : of = flight[k].of
  OBVIOUS
<1>2. of \in Contents /\ row[k] = [of |-> of, status |-> "running"]
  BY <1>1, KeyIs DEF KeyFits, Flights
<1>3. PICK r : r = IF saved THEN [of |-> of, status |-> "succeeded"] ELSE row[k]
  OBVIOUS
<1>4. r \in Rows /\ r # Unused /\ (r = [of |-> Creation, status |-> "succeeded"] => n = 1)
  BY <1>1, <1>2, <1>3, MaintenanceIs DEF Rows
<1>5. row' = [row EXCEPT ![k] = r]
  <2>1. CASE saved
    <3>1. row' = [row EXCEPT ![k] = [@ EXCEPT !.status = "succeeded"]]
      BY <2>1 DEF Settle
    <3>2. [row[k] EXCEPT !.status = "succeeded"] = r
      BY <1>2, <1>3, <2>1
    <3> QED
      BY <3>1, <3>2
  <2>2. CASE ~saved
    BY <1>3, <2>2, MaintenanceIs DEF Settle
  <2> QED
    BY <2>1, <2>2
<1>6. flight' = [flight EXCEPT ![k] = NoCall] /\ grants' \subseteq grants /\ n \in Nat
  BY DEF Settle, InFlight
<1>7. Could(r, NoCall, n)
  BY <1>4 DEF Could
<1>8. NoCall # [of |-> Creation, at |-> "making"]
  BY ContentsAre, MaintenanceIs DEF Flights
<1> QED
  BY <1>4, <1>5, <1>6, <1>7, <1>8, OneKey

LEMMA EndCreateInv ==
  ASSUME MaintenanceInv, NEW k \in Keys, EndCreate(k)
  PROVE  MaintenanceInv'
<1>1. PICK saved \in BOOLEAN : /\ Settle(k, saved) /\ (saved => making.step = "made")
                               /\ IF saved THEN BackupOk ELSE UNCHANGED <<failures, streak>>
  BY DEF EndCreate
<1>2. /\ flight[k] = [of |-> Creation, at |-> "making"] /\ EndLocal
      /\ (IF making.step = "made" THEN Acts(k) ELSE acted' = acted)
      /\ UNCHANGED <<grants, auto, confirmed, count>>
  BY DEF EndCreate
<1>3. [of |-> Creation, at |-> "making"] \in Flights
  BY ContentsAre DEF Flights
<1>4. flight[k] # NoCall /\ flight[k].of = Creation /\ k \in Makers
  BY <1>2, <1>3, MaintenanceIs DEF Makers
<1>5. acted[k] = 0
  BY <1>4, KeyIs DEF KeyFits
<1>6. PICK n \in {0, 1} : acted' = [acted EXCEPT ![k] = n] /\ (saved => n = 1)
  <2>1. CASE making.step = "made"
    BY <1>2, <1>5, <2>1 DEF Acts
  <2>2. CASE making.step # "made"
    BY <1>1, <1>2, <1>5, <2>2, KeyIs
  <2> QED
    BY <2>1, <2>2
<1>7. /\ ServiceTypes' /\ (\A o \in Keys : KeyFits(o)') /\ (grants \subseteq confirmed)'
      /\ Makers' = Makers \ {k}
  BY <1>1, <1>2, <1>4, <1>6, Settled
<1>8. BackupInv' /\ lock # "free" /\ lock' = "free"
  BY <1>2, EndLocalKeeps DEF MaintenanceInv
<1>9. Makers' = {} /\ auto'.at # "making"
  BY <1>2, <1>4, <1>7, <1>8 DEF MaintenanceInv, OneMaker
<1>10. OneMaker'
  BY <1>8, <1>9 DEF OneMaker
<1>11. CoordinatorTypes' /\ FailuresFit'
  <2>1. CASE saved
    BY <1>1, <1>2, <2>1, OkFits, CoordinatorIs
  <2>2. CASE ~saved
    BY <1>1, <1>2, <2>2, CoordinatorStays, CoordinatorIs DEF coordinator
  <2> QED
    BY <2>1, <2>2
<1> QED
  BY <1>7, <1>8, <1>10, <1>11 DEF MaintenanceInv

LEMMA GrantInv ==
  ASSUME MaintenanceInv, NEW id \in Ids, GrantDelete(id) \/ LapseGrant(id)
  PROVE  MaintenanceInv'
<1>1. /\ UNCHANGED vars /\ UNCHANGED <<row, flight, coordinator, acted>>
      /\ count'.unrecorded = count.unrecorded
      /\ count' \in [grants : Nat, replays : Nat, unrecorded : Nat]
      /\ \/ grants' = grants \cup {id} /\ confirmed' = confirmed \cup {id}
         \/ grants' = grants \ {id} /\ confirmed' = confirmed
  BY CoordinatorIs DEF GrantDelete, LapseGrant, records
<1>2. ServiceTypes' /\ (grants \subseteq confirmed)' /\ Makers' = Makers
  BY <1>1 DEF MaintenanceInv, ServiceTypes, Makers
<1>3. \A k \in Keys : KeyFits(k)'
  BY <1>1 DEF MaintenanceInv, KeyFits
<1>4. CoordinatorTypes' /\ FailuresFit'
  BY <1>1, CoordinatorStays
<1>5. BackupInv' /\ lock' = lock
  BY <1>1, BackupsStay
<1>6. OneMaker'
  BY <1>1, <1>2, <1>5 DEF MaintenanceInv, OneMaker, coordinator
<1> QED
  BY <1>2, <1>3, <1>4, <1>5, <1>6 DEF MaintenanceInv

LEMMA DoDeleteInv ==
  ASSUME MaintenanceInv, NEW k \in Keys, NEW id \in Ids, DoDelete(k, id)
  PROVE  /\ MaintenanceInv' /\ id \in confirmed
         /\ \E S \in SUBSET {id} : Ready' = Ready \ S
<1>1. /\ flight[k] = [of |-> Deletion(id), at |-> "deleting"]
      /\ UNCHANGED <<grants, coordinator, confirmed, count>>
  BY DEF DoDelete
<1>2. [of |-> Deletion(id), at |-> "deleting"] \in Flights /\ Deletion(id) # Creation
  BY ContentsAre DEF Flights
<1>3. flight[k] # NoCall /\ flight[k].of = Deletion(id) /\ k \notin Makers
  BY <1>1, <1>2, MaintenanceIs DEF Makers
<1>4. acted[k] = 0 /\ id \in confirmed
  BY <1>3, KeyIs DEF KeyFits
<1>5. PICK saved \in BOOLEAN : Settle(k, saved)
  BY DEF DoDelete
<1>6. PICK n \in {0, 1} : acted' = [acted EXCEPT ![k] = n]
  <2>1. CASE Acts(k)
    BY <1>4, <2>1 DEF Acts
  <2>2. CASE acted' = acted
    BY <1>4, <2>2, KeyIs
  <2> QED
    BY <2>1, <2>2 DEF DoDelete
<1>7. /\ ServiceTypes' /\ (\A o \in Keys : KeyFits(o)') /\ (grants \subseteq confirmed)'
      /\ Makers' = Makers \ {k}
  BY <1>1, <1>2, <1>3, <1>5, <1>6, Settled
<1>8. BackupInv' /\ lock' = lock /\ \E S \in SUBSET {id} : Ready' = Ready \ S
  <2>1. CASE DeleteManaged(id)
    <3>1. PICK S \in SUBSET {id} : Drops(S)
      BY <2>1, DeleteManagedKeeps DEF MaintenanceInv
    <3> QED
      BY <2>1, <3>1, DeleteManagedKeeps, Dropped DEF MaintenanceInv, DeleteManaged
  <2>2. CASE UNCHANGED vars
    <3>1. Ready' = Ready \ {} /\ {} \in SUBSET {id}
      BY <2>2 DEF vars, Ready
    <3> QED
      BY <2>2, <3>1, BackupsStay
  <2> QED
    BY <2>1, <2>2 DEF DoDelete
<1>9. Makers' = Makers /\ auto' = auto
  BY <1>1, <1>3, <1>7 DEF coordinator
<1>10. OneMaker'
  BY <1>8, <1>9 DEF MaintenanceInv, OneMaker
<1>11. CoordinatorTypes' /\ FailuresFit'
  BY <1>1, CoordinatorStays, CoordinatorIs
<1> QED
  BY <1>4, <1>7, <1>8, <1>10, <1>11 DEF MaintenanceInv

(* The coordinator goes on: nothing of the service changes.                  *)
LEMMA NoteOrListInv ==
  ASSUME MaintenanceInv, NoteWrite \/ AutoList
  PROVE  MaintenanceInv'
<1>1. /\ UNCHANGED vars /\ UNCHANGED <<row, flight, grants, confirmed, acted, count>>
      /\ \/ MayTry /\ auto' = [auto EXCEPT !.at = "listing", !.day = week] /\ UNCHANGED <<failures, streak>>
         \/ AutoDone
         \/ auto.at = "listing" /\ AutoGoes("queued") /\ UNCHANGED <<failures, streak>>
      /\ auto.at # "making"
  BY DEF NoteWrite, AutoList, service, records
<1>2. /\ ServiceTypes' /\ (\A o \in Keys : KeyFits(o)') /\ (grants \subseteq confirmed)'
      /\ Makers' = Makers
  BY <1>1, ServiceStays, MaintenanceIs
<1>3. CoordinatorTypes' /\ FailuresFit' /\ auto'.at # "making"
  <2>1. CASE AutoDone
    BY <1>1, <2>1, OkFits, CoordinatorIs DEF AutoDone
  <2>2. CASE MayTry /\ auto' = [auto EXCEPT !.at = "listing", !.day = week] /\ UNCHANGED <<failures, streak>>
    BY <1>1, <2>2, CoordinatorIs DEF CoordinatorTypes, FailuresFit, MayTry
  <2>3. CASE auto.at = "listing" /\ AutoGoes("queued") /\ UNCHANGED <<failures, streak>>
    BY <1>1, <2>3, CoordinatorIs DEF CoordinatorTypes, FailuresFit, AutoGoes
  <2> QED
    BY <1>1, <2>1, <2>2, <2>3
<1>4. BackupInv' /\ lock' = lock
  BY <1>1, BackupsStay
<1>5. OneMaker'
  BY <1>1, <1>2, <1>3, <1>4 DEF MaintenanceInv, OneMaker
<1> QED
  BY <1>2, <1>3, <1>4, <1>5 DEF MaintenanceInv

LEMMA AutoStartInv ==
  ASSUME MaintenanceInv, AutoStart
  PROVE  MaintenanceInv'
<1>1. /\ auto.at = "queued" /\ StartLocal /\ auto' = [auto EXCEPT !.at = "making"]
      /\ UNCHANGED <<row, flight, grants, confirmed, acted, count, failures, streak>>
  BY DEF AutoStart, AutoGoes, service, records
<1>2. /\ ServiceTypes' /\ (\A o \in Keys : KeyFits(o)') /\ (grants \subseteq confirmed)'
      /\ Makers' = Makers
  BY <1>1, ServiceStays, MaintenanceIs
<1>3. CoordinatorTypes' /\ FailuresFit' /\ auto'.at = "making"
  BY <1>1, CoordinatorIs DEF CoordinatorTypes, FailuresFit
<1>4. BackupInv' /\ lock = "free" /\ lock' # "free"
  BY <1>1, StartLocalKeeps DEF MaintenanceInv
<1>5. OneMaker'
  BY <1>2, <1>3, <1>4 DEF MaintenanceInv, OneMaker
<1> QED
  BY <1>2, <1>3, <1>4, <1>5 DEF MaintenanceInv

LEMMA AutoEndInv ==
  ASSUME MaintenanceInv, AutoEnd
  PROVE  MaintenanceInv'
<1>1. /\ auto.at = "making" /\ EndLocal
      /\ UNCHANGED <<row, flight, grants, confirmed, acted>>
      /\ \/ AutoDone /\ count' = count
         \/ /\ AutoGoes("idle") /\ streak' = streak + 1
            /\ \/ failures' = failures + 1 /\ count' = count
               \/ failures' = failures /\ count' = [count EXCEPT !.unrecorded = @ + 1]
  BY DEF AutoEnd, service
<1>2. /\ ServiceTypes' /\ (\A o \in Keys : KeyFits(o)') /\ (grants \subseteq confirmed)'
      /\ Makers' = Makers
  BY <1>1, ServiceStays, MaintenanceIs
<1>3. CoordinatorTypes' /\ FailuresFit' /\ auto'.at = "idle"
  <2>1. CASE AutoDone /\ count' = count
    BY <2>1, OkFits, CoordinatorIs DEF AutoDone
  <2>2. CASE /\ AutoGoes("idle") /\ streak' = streak + 1
             /\ failures' = failures + 1 /\ count' = count
    BY <1>1, <2>2, CoordinatorIs DEF CoordinatorTypes, FailuresFit, AutoGoes
  <2>3. CASE /\ AutoGoes("idle") /\ streak' = streak + 1
             /\ failures' = failures /\ count' = [count EXCEPT !.unrecorded = @ + 1]
    <3>1. /\ auto' = [auto EXCEPT !.at = "idle"]
          /\ count' = [count EXCEPT !.unrecorded = count.unrecorded + 1]
          /\ count.unrecorded \in Nat
      BY <2>3, CoordinatorIs DEF AutoGoes
    <3>2. /\ count' \in [grants : Nat, replays : Nat, unrecorded : Nat]
          /\ count'.unrecorded = count.unrecorded + 1
      BY <3>1, CoordinatorIs
    <3>3. /\ auto' \in [at : {"idle", "listing", "queued", "making"}, day : Nat, completed : Nat]
          /\ auto'.at = "idle"
      BY <3>1, CoordinatorIs
    <3> QED
      BY <1>1, <2>3, <3>1, <3>2, <3>3, CoordinatorIs DEF CoordinatorTypes, FailuresFit
  <2> QED
    BY <1>1, <2>1, <2>2, <2>3
<1>4. BackupInv' /\ lock # "free" /\ lock' = "free"
  BY <1>1, EndLocalKeeps DEF MaintenanceInv
<1>5. OneMaker'
  BY <1>1, <1>2, <1>3, <1>4 DEF MaintenanceInv, OneMaker
<1> QED
  BY <1>2, <1>3, <1>4, <1>5 DEF MaintenanceInv

(* A crash frees the lock and forgets the calls, but neither the keys nor     *)
(* the failures.                                                            *)
LEMMA MaintenanceCrashInv ==
  ASSUME MaintenanceInv, MaintenanceCrash
  PROVE  /\ MaintenanceInv'
         /\ \E S \in SUBSET (making.doomed \cap Ready) : Ready' = Ready \ S
<1>1. /\ Forget /\ Interrupted(making.doomed) /\ UNCHANGED <<data, numbered, week, userDeletes>>
      /\ flight' = [k \in Keys |-> NoCall] /\ grants' = {}
      /\ auto' = [at |-> "idle", day |-> 0, completed |-> 0]
      /\ UNCHANGED <<row, failures, streak, confirmed, acted, count>>
  BY DEF MaintenanceCrash, Crash, records
<1>2. PICK S \in SUBSET (making.doomed \cap Ready) : Drops(S)
  BY <1>1, InterruptedDrops DEF MaintenanceInv
<1>3. BackupInv' /\ Ready' = Ready \ S /\ lock' = "free"
  BY <1>1, <1>2, IdleDropKeeps, Dropped DEF MaintenanceInv, Forget
<1>4. ServiceTypes' /\ (grants \subseteq confirmed)'
  BY <1>1 DEF MaintenanceInv, ServiceTypes
<1>5. NoCall # [of |-> Creation, at |-> "making"]
  BY ContentsAre, MaintenanceIs DEF Flights
<1>6. \A k \in Keys : KeyFits(k)'
  BY <1>1 DEF MaintenanceInv, KeyFits
<1>7. Makers' = {}
  BY <1>1, <1>5 DEF Makers
<1>8. OneMaker'
  BY <1>1, <1>3, <1>7 DEF OneMaker
<1>9. CoordinatorTypes' /\ FailuresFit'
  BY <1>1, CoordinatorIs DEF CoordinatorTypes, FailuresFit
<1> QED
  BY <1>2, <1>3, <1>4, <1>6, <1>8, <1>9 DEF MaintenanceInv

LEMMA ServiceInv ==
  ASSUME MaintenanceInv, Service
  PROVE  /\ MaintenanceInv'
         /\ \/ Ready' = Ready
            \/ \E id \in confirmed : \E S \in SUBSET {id} : Ready' = Ready \ S
<1>1. ASSUME NEW k \in Keys, AskCreate(k)
      PROVE  MaintenanceInv' /\ Ready' = Ready
  BY <1>1, AskCreateInv DEF AskCreate, vars, Ready
<1>2. ASSUME NEW k \in Keys, ReplayCreate(k)
      PROVE  MaintenanceInv' /\ Ready' = Ready
  BY <1>2, ReplayCreateInv DEF ReplayCreate, vars, Ready
<1>3. ASSUME NEW k \in Keys, StartCreate(k)
      PROVE  MaintenanceInv' /\ Ready' = Ready
  BY <1>3, StartCreateInv, StartLocalKeeps DEF StartCreate, MaintenanceInv, ReadyStays
<1>4. ASSUME NEW k \in Keys, EndCreate(k)
      PROVE  MaintenanceInv' /\ Ready' = Ready
  BY <1>4, EndCreateInv, EndLocalKeeps DEF EndCreate, MaintenanceInv, ReadyStays
<1>5. ASSUME NEW k \in Keys, NEW id \in Ids, DoDelete(k, id)
      PROVE  MaintenanceInv' /\ \E o \in confirmed : \E S \in SUBSET {o} : Ready' = Ready \ S
  BY <1>5, DoDeleteInv
<1>6. ASSUME NEW k \in Keys, NEW id \in Ids, NEW token \in Ids, AskDelete(k, id, token)
      PROVE  MaintenanceInv' /\ Ready' = Ready
  BY <1>6, AskDeleteInv DEF AskDelete, vars, Ready
<1>7. ASSUME NEW id \in Ids, GrantDelete(id) \/ LapseGrant(id)
      PROVE  MaintenanceInv' /\ Ready' = Ready
  BY <1>7, GrantInv DEF GrantDelete, LapseGrant, vars, Ready
<1> QED
  BY <1>1, <1>2, <1>3, <1>4, <1>5, <1>6, <1>7 DEF Service

LEMMA CoordinatorInv ==
  ASSUME MaintenanceInv, Coordinator
  PROVE  MaintenanceInv' /\ Ready' = Ready
<1>1. CASE NoteWrite \/ AutoList
  BY <1>1, NoteOrListInv DEF NoteWrite, AutoList, vars, Ready
<1>2. CASE AutoStart
  BY <1>2, AutoStartInv, StartLocalKeeps DEF AutoStart, MaintenanceInv, ReadyStays
<1>3. CASE AutoEnd
  BY <1>3, AutoEndInv, EndLocalKeeps DEF AutoEnd, MaintenanceInv, ReadyStays
<1> QED
  BY <1>1, <1>2, <1>3 DEF Coordinator

LEMMA BackdropDrops ==
  ASSUME MaintenanceInv, Backdrop
  PROVE  Ready \ Ready' \subseteq making.doomed \cap Ready
<1>1. CASE MakeBackup
  <2>1. \/ Ready' = Ready \/ Publish
        \/ \E id \in Ids : RemoveOld(id) /\ \E S \in SUBSET {id} : Drops(S)
    BY <1>1, MakeBackupKeeps DEF MaintenanceInv, ReadyStays
  <2>2. CASE Publish
    BY <2>2, PublishKeeps DEF MaintenanceInv
  <2>3. ASSUME NEW id \in Ids, RemoveOld(id), NEW S \in SUBSET {id}, Drops(S)
        PROVE  Ready \ Ready' \subseteq making.doomed \cap Ready
    BY <2>3, Dropped DEF RemoveOld, MaintenanceInv
  <2> QED
    BY <2>1, <2>2, <2>3
<1>2. CASE NextWeek \/ \E m \in Materials : TakeBack(m)
  <2>1. Ready' = Ready
    BY <1>2 DEF NextWeek, TakeBack, backups, Ready
  <2> QED
    BY <2>1
<1> QED
  BY <1>1, <1>2 DEF Backdrop

LEMMA StutterInv ==
  ASSUME MaintenanceInv, UNCHANGED allVars
  PROVE  MaintenanceInv' /\ Ready' = Ready
<1>1. /\ UNCHANGED <<row, flight, acted, grants, confirmed, auto, failures, streak, count>>
      /\ UNCHANGED vars
  BY DEF allVars, maintenanceVars, service, coordinator, records
<1>2. /\ ServiceTypes' /\ (\A o \in Keys : KeyFits(o)') /\ (grants \subseteq confirmed)'
      /\ Makers' = Makers
  BY <1>1, ServiceStays, MaintenanceIs
<1>3. CoordinatorTypes' /\ FailuresFit'
  BY <1>1, CoordinatorStays, CoordinatorIs DEF coordinator
<1>4. BackupInv' /\ lock' = lock /\ Ready' = Ready
  BY <1>1, BackupsStay DEF vars, Ready
<1>5. OneMaker'
  BY <1>1, <1>2, <1>4 DEF MaintenanceInv, OneMaker
<1> QED
  BY <1>2, <1>3, <1>4, <1>5 DEF MaintenanceInv

LEMMA MaintenanceStep ==
  ASSUME MaintenanceInv, [MaintenanceNext]_allVars
  PROVE  /\ MaintenanceInv'
         /\ Ready \ Ready' \subseteq confirmed \cup (making.doomed \cap Ready)
<1>1. CASE Service
  <2>1. Ready \ Ready' \subseteq confirmed
    BY <1>1, ServiceInv
  <2> QED
    BY <1>1, <2>1, ServiceInv
<1>2. CASE Coordinator
  BY <1>2, CoordinatorInv
<1>3. CASE Backdrop
  BY <1>3, BackdropInv, BackdropDrops
<1>4. CASE MaintenanceCrash
  <2>1. Ready \ Ready' \subseteq making.doomed \cap Ready
    BY <1>4, MaintenanceCrashInv
  <2> QED
    BY <1>4, <2>1, MaintenanceCrashInv
<1>5. CASE UNCHANGED allVars
  BY <1>5, StutterInv
<1> QED
  BY <1>1, <1>2, <1>3, <1>4, <1>5 DEF MaintenanceNext

LEMMA InvIsConsistent == MaintenanceInv => MaintenanceConsistent
<1> SUFFICES ASSUME MaintenanceInv PROVE MaintenanceConsistent
  OBVIOUS
<1>1. TypeOK
  BY BackupsAre DEF MaintenanceInv
<1>2. AutomaticGivesUp
  BY CoordinatorIs DEF AutomaticGivesUp, FailuresFit
<1>3. Cardinality({}) = 0 /\ \A k \in Keys : Cardinality({k}) = 1
  BY FS_EmptySet, FS_Singleton
<1>4. Cardinality(Makers) + (IF auto.at = "making" THEN 1 ELSE 0) = IF lock = "free" THEN 0 ELSE 1
  <2>1. CASE lock = "free"
    BY <1>3, <2>1 DEF MaintenanceInv, OneMaker
  <2>2. CASE lock # "free" /\ auto.at = "making"
    BY <1>3, <2>2 DEF MaintenanceInv, OneMaker
  <2>3. CASE lock # "free" /\ auto.at # "making"
    BY <1>3, <2>3 DEF MaintenanceInv, OneMaker
  <2> QED
    BY <2>1, <2>2, <2>3
<1>5. \A k \in Keys : KeyFits(k)
  BY DEF MaintenanceInv
<1> QED
  BY <1>1, <1>2, <1>4, <1>5 DEF MaintenanceConsistent, KeyFits

(* What a rotation removes has enough newer ones that stay.                  *)
LEMMA DoomedAreOld ==
  ASSUME MaintenanceInv, NEW id \in making.doomed \cap Ready
  PROVE  /\ Cardinality(Newer(id)) + userDeletes >= KeepDaily
         /\ id \in Weekly => Cardinality(Newer(id) \cap Weekly) + userDeletes >= KeepWeekly
<1>1. /\ Cardinality(Surviving(id)) + userDeletes >= KeepDaily
      /\ id \in Weekly => Cardinality(Surviving(id) \cap Weekly) + userDeletes >= KeepWeekly
  BY DEF MaintenanceInv, BackupInv, RotationFits
<1>2. /\ Surviving(id) \subseteq Newer(id) /\ Newer(id) \in SUBSET Ids
      /\ Surviving(id) \cap Weekly \subseteq Newer(id) \cap Weekly
      /\ Newer(id) \cap Weekly \in SUBSET Ids /\ Surviving(id) \in SUBSET Ids
      /\ Surviving(id) \cap Weekly \in SUBSET Ids
  BY DEF Surviving, Newer, Ready
<1>3. /\ IsFiniteSet(Newer(id)) /\ IsFiniteSet(Newer(id) \cap Weekly)
      /\ Cardinality(Newer(id)) \in Nat /\ Cardinality(Newer(id) \cap Weekly) \in Nat
      /\ Cardinality(Surviving(id)) \in Nat /\ Cardinality(Surviving(id) \cap Weekly) \in Nat
  BY <1>2, ReadyIs
<1>4. /\ Cardinality(Surviving(id)) <= Cardinality(Newer(id))
      /\ Cardinality(Surviving(id) \cap Weekly) <= Cardinality(Newer(id) \cap Weekly)
  BY <1>2, <1>3, FS_Subset
<1>5. userDeletes \in Nat /\ KeepDaily \in Nat /\ KeepWeekly \in Nat
  BY BackupAssumption DEF MaintenanceInv, BackupInv, Bounded
<1> QED
  BY <1>1, <1>3, <1>4, <1>5

(* Whoever asks for a backup, one caller at a time makes one and holds the     *)
(* lock; a call in flight has its reservation, a key acts once at most, and    *)
(* has acted when a creation is recorded under it; and automatic backups stop  *)
(* after GiveUp failures in a row that could be recorded.  So it is after      *)
(* every crash, for any number of keys and backups (protection/service.ts,    *)
(* once; backup.ts, exclusive and BackupCoordinator).                         *)
THEOREM LockAndKeysAreConsistent == MaintenanceSpec => []MaintenanceConsistent
<1>1. MaintenanceInit => MaintenanceInv
  BY InitMaintenance
<1>2. MaintenanceInv /\ [MaintenanceNext]_allVars => MaintenanceInv'
  BY MaintenanceStep
<1>3. MaintenanceInv => MaintenanceConsistent
  BY InvIsConsistent
<1> QED
  BY <1>1, <1>2, <1>3, PTL DEF MaintenanceSpec

(* A complete backup that nobody confirmed to delete goes only when as many   *)
(* newer ones as are kept exist, weekly ones counted apart, whatever the user *)
(* deletes while the rotation runs (backup.ts, rotate and deleteManaged).     *)
THEOREM OldBackupsVanishOnly == MaintenanceSpec => OnlyOldBackupsVanish
<1>1. MaintenanceInit => MaintenanceInv
  BY InitMaintenance
<1>2. MaintenanceInv /\ [MaintenanceNext]_allVars => MaintenanceInv'
  BY MaintenanceStep
<1>3. ASSUME MaintenanceInv, [MaintenanceNext]_allVars
      PROVE  [\A id \in Ready \ Ready' : id \notin confirmed =>
                /\ Cardinality(Newer(id)) + userDeletes >= KeepDaily
                /\ id \in Weekly => Cardinality(Newer(id) \cap Weekly) + userDeletes >= KeepWeekly]_allVars
  <2>1. ASSUME NEW id \in Ready \ Ready', id \notin confirmed
        PROVE  id \in making.doomed \cap Ready
    BY <1>3, <2>1, MaintenanceStep
  <2> QED
    BY <1>3, <2>1, DoomedAreOld
<1> QED
  BY <1>1, <1>2, <1>3, PTL DEF MaintenanceSpec, OnlyOldBackupsVanish

-----------------------------------------------------------------------------
(* The deletion of a source.                                                *)

(* The inductive invariant.                                                 *)
Opening == {"queued", "scope"}
Handling == {"remove", "post", "making", "rescan"}

WorkRecords ==
    [step : Opening \cup Handling, status : Statuses, document : Documents,
     scope : SUBSET Ids, policy : Policies, deleted : SUBSET Ids, remaining : SUBSET Ids,
     post : BOOLEAN, todo : SUBSET Ids]

OwnTypes ==
    /\ grant \in [Documents -> Grants \cup {NoGrant}]
    /\ tombstone \in [Documents -> Tombstones \cup {NoTombstone}]
    /\ result \in [Documents -> Results \cup {NoResult}]
    /\ work \in [Workers -> WorkRecords \cup {Resting}]
    /\ queue \subseteq Deleted

(* A backup is made by the holder of the lock, and until it is published its  *)
(* snapshot is of sources that are still held.                               *)
MakingFits ==
    /\ making.step # "idle" =>
         /\ making.id \in Ids
         /\ \/ lock = "local"
            \/ lock \in Workers /\ work[lock] # Resting /\ work[lock].step = "making"
    /\ making.step \in Unpublished =>
         backup[making.id].dir = "partial" /\ backup[making.id].documents \subseteq held

GoneIsGone ==
    /\ Deleted \cap held = {}
    /\ \A d \in Documents : result[d] # NoResult => d \in Deleted

(* What a worker claims, before it is recorded, is true of the disk, too.    *)
Claims(record) ==
    record # Resting =>
      /\ record.step \in Opening => record.deleted = {}
      /\ record.step \in Handling =>
           /\ record.document \in Deleted
           /\ record.deleted \cap Holding(record.document) = {}

WorkFits == \A w \in Workers : Claims(work[w])

(* A request that has not yet been answered has its confirmation.            *)
GrantsFit == \A w \in Workers : work[w].step \in Opening => grant[work[w].document] # NoGrant

Inv ==
    /\ BackupTypes /\ OwnTypes /\ MakingFits /\ GoneIsGone /\ WorkFits /\ GrantsFit
    /\ ScopeCoversBackups /\ WorkflowReportsTruth

-----------------------------------------------------------------------------
LEMMA Constants ==
  /\ Documents \subseteq Ids /\ \A n \in Nat : n < MaxBackups => n + 1 \in Ids
  /\ Launcher \in Workers /\ Requests \subseteq Workers
  /\ "free" \notin Workers /\ "local" \notin Workers
BY KeyAssumption, WorkerAssumption, BackupAssumption DEF Ids, Workers

LEMMA RestingIs == Resting \notin WorkRecords /\ Resting.step = "rest"
BY DEF Resting, WorkRecords, Opening, Handling

LEMMA InitInv == DeletionInit => Inv
<1> SUFFICES ASSUME DeletionInit PROVE Inv
  OBVIOUS
<1>1. /\ held = Documents /\ materials = Materials
      /\ backup = [id \in Ids |-> Absent] /\ making = Idle
      /\ numbered = 0 /\ week = 1
      /\ grant = [d \in Documents |-> NoGrant] /\ work = [w \in Workers |-> Resting]
      /\ tombstone = [d \in Documents |-> NoTombstone]
      /\ result = [d \in Documents |-> NoResult] /\ queue = {}
  BY DEF DeletionInit, Init, NoGrants
<1>2. BackupTypes
  BY <1>1, IdleIs, AbsentIs DEF BackupTypes
<1>3. Deleted = {}
  BY <1>1 DEF Deleted
<1>4. OwnTypes /\ GoneIsGone
  BY <1>1, <1>3 DEF OwnTypes, GoneIsGone
<1>5. MakingFits
  BY <1>1, IdleIs DEF MakingFits, Unpublished
<1>6. WorkFits /\ GrantsFit
  BY <1>1, RestingIs DEF WorkFits, Claims, GrantsFit, Opening
<1>7. ScopeCoversBackups /\ WorkflowReportsTruth
  BY <1>3 DEF ScopeCoversBackups, WorkflowReportsTruth
<1> QED
  BY <1>2, <1>4, <1>5, <1>6, <1>7 DEF Inv

-----------------------------------------------------------------------------
(* Backups come to hold nothing but what is held when they are made.         *)
Shrinks ==
    \A id \in Ids : There(id)' =>
        \/ There(id) /\ backup'[id].documents = backup[id].documents
        \/ backup'[id].documents \subseteq held

LEMMA HoldingIs ==
  ASSUME Inv, NEW d
  PROVE  Holding(d) = {id \in Ids : There(id) /\ d \in backup[id].documents}
BY DEF Holding, Ready, Broken, There

LEMMA HoldingShrinks ==
  ASSUME Inv, Shrinks, NEW d \in Documents, d \notin held
  PROVE  Holding(d)' \subseteq Holding(d)
BY DEF Holding, Ready, Broken, There, Shrinks

LEMMA SameShrinks == ASSUME backup' = backup PROVE Shrinks
BY DEF Shrinks, There

(* What follows for the tombstones that stay as they are.                    *)
LEMMA TruthStays ==
  ASSUME Inv, Shrinks, tombstone' = tombstone
  PROVE  ScopeCoversBackups' /\ WorkflowReportsTruth' /\ Deleted' = Deleted
<1>1. Deleted' = Deleted
  BY DEF Deleted
<1>2. \A d \in Deleted : Holding(d)' \subseteq Holding(d)
  BY HoldingShrinks DEF Deleted, Inv, GoneIsGone
<1>3. ScopeCoversBackups'
  BY <1>1, <1>2 DEF ScopeCoversBackups, Inv
<1>4. WorkflowReportsTruth'
  BY <1>1, <1>2 DEF WorkflowReportsTruth, Inv
<1> QED
  BY <1>1, <1>3, <1>4

LEMMA ClaimsStay ==
  ASSUME Inv, Shrinks, Deleted \subseteq Deleted', NEW record, Claims(record)
  PROVE  Claims(record)'
<1>1. \A d \in Deleted : Holding(d)' \subseteq Holding(d)
  BY HoldingShrinks DEF Deleted, Inv, GoneIsGone
<1> QED
  BY <1>1 DEF Claims

(* A confirmation is not withdrawn while the process runs.                   *)
GrantsStay ==
    /\ grant' \in [Documents -> Grants \cup {NoGrant}]
    /\ \A d \in Documents : grant[d] # NoGrant => grant'[d] # NoGrant

LEMMA DocumentOf ==
  ASSUME Inv, NEW w \in Workers, work[w].step # "rest"
  PROVE  work[w].document \in Documents
BY RestingIs DEF Inv, OwnTypes, WorkRecords

(* A step of the backups or of their surroundings.                           *)
LEMMA OwnStays ==
  ASSUME Inv, Shrinks, BackupTypes', MakingFits', UNCHANGED <<work, tombstone, result, queue>>,
         GrantsStay, held' = held
  PROVE  Inv'
<1>1. work' = work /\ tombstone' = tombstone /\ result' = result /\ queue' = queue
  OBVIOUS
<1>2. ScopeCoversBackups' /\ WorkflowReportsTruth' /\ Deleted' = Deleted
  BY <1>1, TruthStays
<1>3. OwnTypes' /\ GoneIsGone'
  BY <1>1, <1>2 DEF Inv, OwnTypes, GoneIsGone, GrantsStay
<1>5. GrantsFit'
  BY <1>1, DocumentOf DEF Inv, GrantsFit, GrantsStay, Opening
<1>4. WorkFits'
  <2> SUFFICES ASSUME NEW w \in Workers PROVE Claims(work[w])'
    BY DEF WorkFits
  <2>1. PICK record : record = work[w]
    OBVIOUS
  <2>2. Claims(record)'
    BY <1>2, <2>1, ClaimsStay DEF Inv, WorkFits
  <2>3. work[w]' = record
    BY <1>1, <2>1
  <2> QED
    BY <2>2, <2>3 DEF Claims
<1> QED
  BY <1>2, <1>3, <1>4, <1>5 DEF Inv

-----------------------------------------------------------------------------
(* The backups.                                                             *)

(* Directories are removed or damaged, and the one being made is not.        *)
Loses ==
    /\ backup' \in [Ids -> Directories] /\ Shrinks
    /\ \A id \in Ids : backup[id].dir = "partial" => backup'[id] = backup[id]

LEMMA Backups ==
  ASSUME Inv
  PROVE  /\ backup \in [Ids -> Directories] /\ making \in Makings
         /\ held \subseteq Documents /\ materials \subseteq Materials
         /\ week \in Nat /\ numbered \in Nat
         /\ making.id \in Ids \cup {NoBackup} /\ making.step \in MakingSteps
         /\ making.doomed \subseteq Ids
BY DEF Inv, BackupTypes, Makings

(* One directory changes.                                                    *)
LEMMA OneDirectory ==
  ASSUME Inv, NEW id \in Ids, NEW x \in Directories, backup' = [backup EXCEPT ![id] = x]
  PROVE  /\ backup' \in [Ids -> Directories] /\ backup'[id] = x
         /\ \A other \in Ids : other # id => backup'[other] = backup[other]
BY Backups

LEMMA OneShrinks ==
  ASSUME Inv, NEW id \in Ids, NEW x \in Directories, backup' = [backup EXCEPT ![id] = x],
         \/ x.dir \in {"none", "partial"} \/ x.documents \subseteq held
         \/ There(id) /\ x.documents = backup[id].documents
  PROVE  Shrinks
<1>1. /\ backup'[id] = x /\ \A other \in Ids : other # id => backup'[other] = backup[other]
  BY OneDirectory
<1> QED
  BY <1>1 DEF Shrinks, There

LEMMA BrokenLoses ==
  ASSUME Inv, NEW id \in Ids, There(id), backup' = [backup EXCEPT ![id].dir = "broken"]
  PROVE  Loses
<1>1. PICK x : x = [backup[id] EXCEPT !.dir = "broken"]
  OBVIOUS
<1>2. x \in Directories /\ x.documents = backup[id].documents
  <2>1. backup[id] \in Directories
    BY Backups
  <2> QED
    BY <1>1, <2>1 DEF Directories
<1>3. backup' = [backup EXCEPT ![id] = x]
  BY <1>1
<1>4. Shrinks
  BY <1>2, <1>3, OneShrinks
<1>5. \A other \in Ids : backup[other].dir = "partial" => backup'[other] = backup[other]
  BY <1>2, <1>3, OneDirectory DEF There
<1> QED
  BY <1>2, <1>3, <1>4, <1>5, OneDirectory DEF Loses

LEMMA VanishLoses ==
  ASSUME Inv, NEW id \in Ids, Vanish(id)
  PROVE  Loses
<1>1. backup' = [backup EXCEPT ![id] = IF id \in Ready \cup Broken THEN Absent ELSE @]
  BY DEF Vanish
<1>2. There(id) <=> id \in Ready \cup Broken
  BY DEF There, Ready, Broken
<1>3. CASE There(id)
  <2>1. backup' = [backup EXCEPT ![id] = Absent]
    BY <1>1, <1>2, <1>3
  <2>2. Shrinks
    BY <2>1, AbsentIs, OneShrinks
  <2>3. \A other \in Ids : backup[other].dir = "partial" => backup'[other] = backup[other]
    BY <1>3, <2>1, AbsentIs, OneDirectory DEF There
  <2> QED
    BY <2>1, <2>2, <2>3, AbsentIs, OneDirectory DEF Loses
<1>4. CASE ~There(id)
  <2>1. backup' = backup
    BY <1>1, <1>2, <1>4, Backups
  <2> QED
    BY <2>1, Backups, SameShrinks DEF Loses
<1> QED
  BY <1>3, <1>4

LEMMA SameLoses == ASSUME Inv, backup' = backup PROVE Loses
BY Backups, SameShrinks DEF Loses

LEMMA VanishFailsLoses ==
  ASSUME Inv, NEW id \in Ids, VanishFails(id)
  PROVE  Loses
<1>1. CASE backup' = backup
  BY <1>1, SameLoses
<1>2. CASE There(id) /\ backup' = [backup EXCEPT ![id].dir = "broken"]
  BY <1>2, BrokenLoses
<1> QED
  BY <1>1, <1>2 DEF VanishFails, There, Ready, Broken

LEMMA InterruptedLoses ==
  ASSUME Inv, NEW doomed, Interrupted(doomed)
  PROVE  Loses
<1>1. CASE backup' = backup
  BY <1>1, SameLoses
<1>2. CASE \E id \in doomed \cap Ready : backup' = [backup EXCEPT ![id].dir = "broken"]
  BY <1>2, BrokenLoses DEF There, Ready
<1> QED
  BY <1>1, <1>2 DEF Interrupted

(* The one that is being made keeps to the sources that are held.            *)
LEMMA StartMakes ==
  ASSUME Inv, NEW id \in Ids, Start(id), held' = held, materials' = materials,
         week' = week, numbered' \in Nat,
         \/ lock' = "local"
         \/ lock' \in Workers /\ work'[lock'] # Resting /\ work'[lock'].step = "making"
  PROVE  Shrinks /\ BackupTypes' /\ MakingFits'
<1>1. PICK x : x = [Absent EXCEPT !.dir = "partial", !.on = week, !.weekly = WeeklyTag]
  OBVIOUS
<1>2. /\ backup' = [backup EXCEPT ![id] = x]
      /\ making' = [Idle EXCEPT !.id = id, !.step = "snapshot"]
  BY <1>1 DEF Start
<1>3. x \in Directories /\ x.dir = "partial" /\ x.documents = {}
  BY <1>1, Backups DEF Absent, Directories, WeeklyTag
<1>4. making' \in Makings /\ making'.id = id /\ making'.step = "snapshot"
  BY <1>2 DEF Idle, Makings, MakingSteps, Unpublished
<1>5. backup' \in [Ids -> Directories] /\ backup'[id] = x /\ Shrinks
  BY <1>2, <1>3, OneDirectory, OneShrinks
<1>6. BackupTypes'
  BY <1>4, <1>5, Backups DEF BackupTypes
<1>7. MakingFits'
  BY <1>3, <1>4, <1>5 DEF MakingFits
<1> QED
  BY <1>5, <1>6, <1>7

(* A step of createLocalUnlocked between the first and the last.             *)
LEMMA GoesOn ==
  ASSUME Inv, NEW step \in MakingSteps, Goes(step)
  PROVE  making' \in Makings /\ making'.id = making.id /\ making'.step = step
         /\ making'.doomed = making.doomed
BY Backups DEF Goes, Makings

LEMMA MakesIn ==
  ASSUME Inv, making.step # "idle"
  PROVE  /\ making.id \in Ids
         /\ \/ lock = "local"
            \/ lock \in Workers /\ work[lock] # Resting /\ work[lock].step = "making"
BY DEF Inv, MakingFits

LEMMA MakeBackupInv ==
  ASSUME Inv, BackupStep
  PROVE  Inv'
<1>1. UNCHANGED own
  BY DEF BackupStep
<1>2. held' = held
  BY DEF BackupStep, MakeBackup, EndLocal, TakeSnapshot, ListMaterials, CopyMaterials, Publish,
         CreateFails, BeginRotation, EndRotation, RemoveOld, data
<1>3. work' = work
  BY <1>1 DEF own
<1> SUFFICES Shrinks /\ BackupTypes' /\ MakingFits'
  BY <1>1, <1>2, OwnStays DEF own, Inv, OwnTypes, GrantsStay
<1>4. CASE TakeSnapshot
  <2>1. /\ making.step = "snapshot" /\ Goes("list")
        /\ backup' = [backup EXCEPT ![making.id].documents = held]
        /\ UNCHANGED <<materials, lock, numbered, week>>
    BY <1>4 DEF TakeSnapshot, data, bounds
  <2>2. making.id \in Ids /\ backup[making.id].dir = "partial"
    BY <2>1 DEF Inv, MakingFits, Unpublished
  <2>3. PICK x : x = [backup[making.id] EXCEPT !.documents = held]
    OBVIOUS
  <2>4. x \in Directories /\ x.dir = "partial" /\ x.documents = held
    <3>1. backup[making.id] \in Directories /\ held \subseteq Documents
      BY <2>2, Backups
    <3> QED
      BY <2>2, <2>3, <3>1 DEF Directories
  <2>5. backup' = [backup EXCEPT ![making.id] = x]
    BY <2>1, <2>3
  <2>6. backup' \in [Ids -> Directories] /\ backup'[making.id] = x /\ Shrinks
    BY <2>2, <2>4, <2>5, OneDirectory, OneShrinks
  <2>7. making' \in Makings /\ making'.id = making.id /\ making'.step = "list"
    BY <2>1, GoesOn DEF MakingSteps, Unpublished
  <2>8. BackupTypes'
    BY <1>2, <2>1, <2>6, <2>7, Backups DEF BackupTypes
  <2>9. MakingFits'
    BY <1>2, <1>3, <2>1, <2>4, <2>6, <2>7, MakesIn DEF MakingFits
  <2> QED
    BY <2>6, <2>8, <2>9
<1>5. CASE ListMaterials
  <2>1. /\ making.step = "list" /\ Goes("copy")
        /\ backup' = [backup EXCEPT ![making.id].files = materials]
        /\ UNCHANGED <<materials, lock, numbered, week>>
    BY <1>5 DEF ListMaterials, data, bounds
  <2>2. /\ making.id \in Ids /\ backup[making.id].dir = "partial"
        /\ backup[making.id].documents \subseteq held
    BY <2>1 DEF Inv, MakingFits, Unpublished
  <2>3. PICK x : x = [backup[making.id] EXCEPT !.files = materials]
    OBVIOUS
  <2>4. x \in Directories /\ x.dir = "partial" /\ x.documents \subseteq held
    <3>1. backup[making.id] \in Directories /\ materials \subseteq Materials
      BY <2>2, Backups
    <3> QED
      BY <2>2, <2>3, <3>1 DEF Directories
  <2>5. backup' = [backup EXCEPT ![making.id] = x]
    BY <2>1, <2>3
  <2>6. backup' \in [Ids -> Directories] /\ backup'[making.id] = x /\ Shrinks
    BY <2>2, <2>4, <2>5, OneDirectory, OneShrinks
  <2>7. making' \in Makings /\ making'.id = making.id /\ making'.step = "copy"
    BY <2>1, GoesOn DEF MakingSteps, Unpublished
  <2>8. BackupTypes'
    BY <1>2, <2>1, <2>6, <2>7, Backups DEF BackupTypes
  <2>9. MakingFits'
    BY <1>2, <1>3, <2>1, <2>4, <2>6, <2>7, MakesIn DEF MakingFits
  <2> QED
    BY <2>6, <2>8, <2>9
<1>6. CASE CopyMaterials \/ EndRotation
  <2>1. /\ making.step # "idle" /\ backup' = backup
        /\ UNCHANGED <<materials, lock, numbered, week>>
        /\ \/ making.step = "copy" /\ Goes("rename")
           \/ Goes("made") \/ Goes("failed")
    BY <1>6 DEF CopyMaterials, EndRotation, data, bounds
  <2>2. /\ making' \in Makings /\ making'.id = making.id
        /\ making'.step \in Unpublished => making.step \in Unpublished
    BY <2>1, GoesOn DEF MakingSteps, Unpublished
  <2>3. BackupTypes'
    BY <1>2, <2>1, <2>2, Backups DEF BackupTypes
  <2>4. MakingFits'
    BY <1>2, <1>3, <2>1, <2>2, MakesIn DEF Inv, MakingFits
  <2> QED
    BY <2>1, <2>3, <2>4, SameShrinks
<1>7. CASE Publish
  <2>1. /\ making.step = "rename" /\ Goes("rotate")
        /\ backup' = [backup EXCEPT ![making.id].dir = "ready"]
        /\ UNCHANGED <<materials, lock, numbered, week>>
    BY <1>7 DEF Publish, data, bounds
  <2>2. making.id \in Ids /\ backup[making.id].documents \subseteq held
    BY <2>1 DEF Inv, MakingFits, Unpublished
  <2>3. PICK x : x = [backup[making.id] EXCEPT !.dir = "ready"]
    OBVIOUS
  <2>4. x \in Directories /\ x.documents \subseteq held
    <3>1. backup[making.id] \in Directories
      BY <2>2, Backups
    <3> QED
      BY <2>2, <2>3, <3>1 DEF Directories
  <2>5. backup' = [backup EXCEPT ![making.id] = x]
    BY <2>1, <2>3
  <2>6. backup' \in [Ids -> Directories] /\ Shrinks
    BY <2>2, <2>4, <2>5, OneDirectory, OneShrinks
  <2>7. making' \in Makings /\ making'.id = making.id /\ making'.step = "rotate"
    BY <2>1, GoesOn DEF MakingSteps
  <2>8. BackupTypes'
    BY <1>2, <2>1, <2>6, <2>7, Backups DEF BackupTypes
  <2>9. MakingFits'
    BY <1>3, <2>1, <2>7, MakesIn DEF MakingFits, Unpublished
  <2> QED
    BY <2>6, <2>8, <2>9
<1>8. CASE CreateFails
  <2>1. /\ making.step \in Unpublished /\ Goes("failed")
        /\ backup' = [backup EXCEPT ![making.id] = Absent] \/ backup' = backup
        /\ UNCHANGED <<materials, lock, numbered, week>>
    BY <1>8 DEF CreateFails, data, bounds, Unpublished
  <2>2. making.id \in Ids /\ making.step # "idle"
    BY <2>1, MakesIn DEF Unpublished
  <2>3. backup' \in [Ids -> Directories] /\ Shrinks
    BY <2>1, <2>2, AbsentIs, OneDirectory, OneShrinks, SameShrinks, Backups
  <2>4. making' \in Makings /\ making'.id = making.id /\ making'.step = "failed"
    BY <2>1, GoesOn DEF MakingSteps
  <2>5. BackupTypes'
    BY <1>2, <2>1, <2>3, <2>4, Backups DEF BackupTypes
  <2>6. MakingFits'
    BY <1>3, <2>1, <2>2, <2>4, MakesIn DEF MakingFits, Unpublished
  <2> QED
    BY <2>3, <2>5, <2>6
<1>9. CASE BeginRotation
  <2>1. /\ making.step = "rotate" /\ backup' = backup
        /\ UNCHANGED <<materials, lock, numbered, week>>
        /\ \E S \in SUBSET Ids : making' = [making EXCEPT !.step = "remove", !.doomed = S]
    BY <1>9 DEF BeginRotation, data, bounds, Ready
  <2>2. making' \in Makings /\ making'.id = making.id /\ making'.step = "remove"
    BY <2>1, Backups DEF Makings, MakingSteps
  <2>3. BackupTypes'
    BY <1>2, <2>1, <2>2, Backups DEF BackupTypes
  <2>4. MakingFits'
    BY <1>3, <2>1, <2>2, MakesIn DEF MakingFits, Unpublished
  <2> QED
    BY <2>1, <2>3, <2>4, SameShrinks
<1>10. ASSUME NEW id \in Ids, RemoveOld(id)
       PROVE  Shrinks /\ BackupTypes' /\ MakingFits'
  <2>1. /\ making.step = "remove" /\ (Vanish(id) \/ VanishFails(id))
        /\ UNCHANGED <<materials, lock, numbered, week>>
        /\ \E S \in SUBSET Ids, step \in {"remove", "failed"} :
              making' = [making EXCEPT !.doomed = S, !.step = step]
    <3>1. CASE making' = [making EXCEPT !.doomed = @ \ {id}] /\ Vanish(id)
      <4>1. making' = [making EXCEPT !.doomed = making.doomed \ {id}, !.step = "remove"]
        BY <1>10, <3>1, Backups DEF RemoveOld, Makings
      <4> QED
        BY <1>10, <3>1, <4>1, Backups DEF RemoveOld, data, bounds
    <3>2. CASE making' = [making EXCEPT !.doomed = {}, !.step = "failed"] /\ VanishFails(id)
      BY <1>10, <3>2 DEF RemoveOld, data, bounds
    <3> QED
      BY <1>10, <3>1, <3>2 DEF RemoveOld
  <2>2. Loses
    BY <2>1, VanishLoses, VanishFailsLoses
  <2>3. making' \in Makings /\ making'.id = making.id /\ making'.step \in {"remove", "failed"}
    BY <2>1, Backups DEF Makings, MakingSteps
  <2>4. BackupTypes'
    BY <1>2, <2>1, <2>2, <2>3, Backups DEF BackupTypes, Loses
  <2>5. MakingFits'
    BY <1>3, <2>1, <2>3, MakesIn DEF MakingFits, Unpublished
  <2> QED
    BY <2>2, <2>4, <2>5 DEF Loses
<1>11. CASE EndLocal
  <2>1. backup' = backup /\ making' = Idle /\ UNCHANGED <<materials, numbered, week>>
    BY <1>11 DEF EndLocal, GiveBack, data, bounds
  <2>2. BackupTypes'
    BY <1>2, <2>1, IdleIs, Backups DEF BackupTypes
  <2>3. MakingFits'
    BY <2>1, IdleIs DEF MakingFits, Unpublished
  <2> QED
    BY <2>1, <2>2, <2>3, SameShrinks
<1> QED
  BY <1>4, <1>5, <1>6, <1>7, <1>8, <1>9, <1>10, <1>11 DEF BackupStep, MakeBackup

-----------------------------------------------------------------------------
(* The surroundings.                                                        *)

LEMMA SurroundingsInv ==
  ASSUME Inv, Surroundings
  PROVE  Inv'
<1>1. UNCHANGED own /\ (StartLocal \/ Environment)
  BY DEF Surroundings
<1>2. held' = held
  BY <1>1 DEF StartLocal, Environment, NextWeek, TakeBack, DeleteManaged, data
<1>3. work' = work
  BY <1>1 DEF own
<1> SUFFICES Shrinks /\ BackupTypes' /\ MakingFits'
  BY <1>1, <1>2, OwnStays DEF own, Inv, OwnTypes, GrantsStay
<1>4. CASE StartLocal
  <2>1. /\ numbered < MaxBackups /\ numbered' = numbered + 1 /\ Start(numbered + 1)
        /\ lock' = "local" /\ materials' = materials /\ week' = week
    BY <1>4 DEF StartLocal, data, bounds
  <2>2. numbered + 1 \in Ids /\ numbered' \in Nat
    BY <2>1, Backups, Constants
  <2> QED
    BY <1>2, <2>1, <2>2, StartMakes
<1>5. CASE NextWeek
  <2>1. backup' = backup /\ making' = making /\ lock' = lock /\ materials' = materials
        /\ numbered' = numbered /\ week' = week + 1
    BY <1>5 DEF NextWeek, backups, data
  <2>2. BackupTypes'
    BY <1>2, <2>1, Backups DEF BackupTypes
  <2>3. MakingFits'
    BY <1>2, <1>3, <2>1 DEF Inv, MakingFits
  <2> QED
    BY <2>1, <2>2, <2>3, SameShrinks
<1>6. ASSUME NEW m \in Materials, TakeBack(m)
      PROVE  Shrinks /\ BackupTypes' /\ MakingFits'
  <2>1. backup' = backup /\ making' = making /\ lock' = lock /\ materials' \subseteq materials
        /\ numbered' = numbered /\ week' = week
    BY <1>6 DEF TakeBack, backups, bounds
  <2>2. BackupTypes'
    BY <1>2, <2>1, Backups DEF BackupTypes
  <2>3. MakingFits'
    BY <1>2, <1>3, <2>1 DEF Inv, MakingFits
  <2> QED
    BY <2>1, <2>2, <2>3, SameShrinks
<1>7. ASSUME NEW id \in Ids, DeleteManaged(id)
      PROVE  Shrinks /\ BackupTypes' /\ MakingFits'
  <2>1. making' = making /\ lock' = lock /\ materials' = materials
        /\ numbered' = numbered /\ week' = week
    BY <1>7 DEF DeleteManaged, data
  <2>2. Loses
    BY <1>7, VanishLoses, VanishFailsLoses DEF DeleteManaged
  <2>3. BackupTypes'
    BY <1>2, <2>1, <2>2, Backups DEF BackupTypes, Loses
  <2>4. MakingFits'
    BY <1>2, <1>3, <2>1, <2>2 DEF Inv, MakingFits, Loses, Unpublished
  <2> QED
    BY <2>2, <2>3, <2>4 DEF Loses
<1> QED
  BY <1>1, <1>4, <1>5, <1>6, <1>7 DEF Environment

-----------------------------------------------------------------------------
(* The workers.                                                             *)

LEMMA FreeIsIdle ==
  ASSUME Inv, lock = "free"
  PROVE  making.step = "idle"
BY Constants DEF Inv, MakingFits

(* Who holds the lock at another step than that of the backup makes none.    *)
LEMMA HolderIsIdle ==
  ASSUME Inv, NEW w \in Workers, NEW step, step # "making", At(w, step)
  PROVE  making.step = "idle"
BY Constants DEF Inv, MakingFits, At

LEMMA IdleKeeps ==
  ASSUME Inv, making.step = "idle", backup' = backup, making' = making,
         held' \subseteq held, materials' \subseteq materials, week' = week,
         numbered' = numbered
  PROVE  Shrinks /\ BackupTypes' /\ MakingFits'
<1>1. BackupTypes'
  BY Backups DEF BackupTypes
<1>2. MakingFits'
  BY DEF MakingFits, Unpublished
<1> QED
  BY <1>1, <1>2, SameShrinks

LEMMA Working ==
  ASSUME Inv, NEW w \in Workers, work[w].step # "rest"
  PROVE  work[w] \in WorkRecords /\ Claims(work[w]) /\ work[w] # Resting
BY RestingIs DEF Inv, OwnTypes, WorkFits

(* One worker goes on, and the database stays as it is.                      *)
LEMMA WorkerSet ==
  ASSUME Inv, Shrinks, Deleted \subseteq Deleted', GrantsStay, NEW w \in Workers,
         NEW record \in WorkRecords \cup {Resting}, Set(w, record), Claims(record)',
         record.step \in Opening => grant'[record.document] # NoGrant
  PROVE  WorkFits' /\ GrantsFit' /\ work' \in [Workers -> WorkRecords \cup {Resting}]
<1>1. /\ work' \in [Workers -> WorkRecords \cup {Resting}] /\ work'[w] = record
      /\ \A v \in Workers : v # w => work'[v] = work[v]
  BY DEF Set, Inv, OwnTypes
<1>2. ASSUME NEW v \in Workers
      PROVE  Claims(work[v])'
  <2>1. CASE v = w
    BY <1>1, <2>1 DEF Claims
  <2>2. CASE v # w
    <3>1. PICK other : other = work[v]
      OBVIOUS
    <3>2. Claims(other)'
      BY <3>1, ClaimsStay DEF Inv, WorkFits
    <3>3. work[v]' = other
      BY <1>1, <2>2, <3>1
    <3> QED
      BY <3>2, <3>3 DEF Claims
  <2> QED
    BY <2>1, <2>2
<1>3. GrantsFit'
  BY <1>1, DocumentOf DEF Inv, GrantsFit, GrantsStay, Opening
<1> QED
  BY <1>1, <1>2, <1>3 DEF WorkFits

LEMMA WorkerTurn ==
  ASSUME Inv, Shrinks, BackupTypes', MakingFits', held' = held,
         UNCHANGED <<tombstone, result, queue>>, GrantsStay,
         NEW w \in Workers, NEW record \in WorkRecords \cup {Resting},
         Set(w, record), Claims(record)',
         record.step \in Opening => grant'[record.document] # NoGrant
  PROVE  Inv'
<1>1. ScopeCoversBackups' /\ WorkflowReportsTruth' /\ Deleted' = Deleted
  BY TruthStays
<1>2. WorkFits' /\ GrantsFit' /\ work' \in [Workers -> WorkRecords \cup {Resting}]
  BY <1>1, WorkerSet
<1>3. OwnTypes'
  BY <1>1, <1>2 DEF Inv, OwnTypes, GrantsStay
<1>4. GoneIsGone'
  BY <1>1 DEF Inv, GoneIsGone
<1> QED
  BY <1>1, <1>2, <1>3, <1>4 DEF Inv

(* A confirmation is marked as used.                                         *)
LEMMA ConsumedFits ==
  ASSUME Inv, NEW w \in Workers, work[w].step \in Opening,
         \/ grant' = [grant EXCEPT ![work[w].document].consumed = TRUE]
         \/ grant' = grant
  PROVE  GrantsStay
<1>1. grant[work[w].document] # NoGrant /\ work[w].document \in Documents
  BY DocumentOf DEF Inv, GrantsFit, Opening
<1>2. PICK x : x = [grant[work[w].document] EXCEPT !.consumed = TRUE]
  OBVIOUS
<1>3. x \in Grants /\ x # NoGrant
  <2>1. grant[work[w].document] \in Grants
    BY <1>1 DEF Inv, OwnTypes
  <2> QED
    BY <1>2, <2>1, SentinelAssumption DEF Grants
<1>4. \/ grant' = [grant EXCEPT ![work[w].document] = x]
      \/ grant' = grant
  BY <1>2
<1> QED
  BY <1>1, <1>3, <1>4 DEF GrantsStay, Inv, OwnTypes

LEMMA SameGrants == ASSUME Inv, grant' = grant PROVE GrantsStay
BY DEF GrantsStay, Inv, OwnTypes

(* What follows the deletion in the database claims no more than was claimed.  *)
LEMMA ContinuedFits ==
  ASSUME NEW record \in WorkRecords, NEW next, next = Continued(record)
  PROVE  /\ next \in WorkRecords /\ next.step \in Handling
         /\ next.document = record.document /\ next.deleted \subseteq record.deleted
BY DEF Continued, WorkRecords, Handling, Opening, Statuses

LEMMA UserInv ==
  ASSUME Inv, User
  PROVE  Inv'
<1>1. ASSUME NEW d \in Documents, NEW policy \in Policies, Prepare(d, policy)
      PROVE  Inv'
  <2>1. PICK x : x = [scope |-> Containing(d), policy |-> policy, consumed |-> FALSE]
    OBVIOUS
  <2>2. x \in Grants /\ x # NoGrant
    <3>1. Containing(d) \in SUBSET Ids
      BY DEF Containing, Ready, Broken
    <3>2. x \in Grants
      BY <2>1, <3>1 DEF Grants
    <3> QED
      BY <3>2, SentinelAssumption
  <2>3. grant' = [grant EXCEPT ![d] = x]
    BY <1>1, <2>1 DEF Prepare
  <2>4. GrantsStay
    BY <2>2, <2>3 DEF GrantsStay, Inv, OwnTypes
  <2>5. /\ lock = "free" /\ held' = held /\ materials' = materials /\ backup' = backup
        /\ making' = making /\ week' = week /\ numbered' = numbered
        /\ UNCHANGED <<work, tombstone, result, queue>>
    BY <1>1 DEF Prepare, vars
  <2>6. Shrinks /\ BackupTypes' /\ MakingFits'
    BY <2>5, FreeIsIdle, IdleKeeps
  <2> QED
    BY <2>4, <2>5, <2>6, OwnStays
<1>2. ASSUME NEW w \in Requests, NEW d \in Documents, Delete(w, d)
      PROVE  Inv'
  <2>1. PICK record : record =
          [step |-> "queued", status |-> "database_deleted", document |-> d,
           scope |-> grant[d].scope, policy |-> grant[d].policy,
           deleted |-> {}, remaining |-> grant[d].scope, post |-> FALSE, todo |-> {}]
    OBVIOUS
  <2>2. /\ work[w] = Resting /\ grant[d] # NoGrant /\ Set(w, record) /\ w \in Workers
        /\ UNCHANGED <<vars, grant, tombstone, result, queue>>
    BY <1>2, <2>1, Constants DEF Delete
  <2>3. grant[d] \in Grants
    BY <2>2 DEF Inv, OwnTypes
  <2>4. record \in WorkRecords
    BY <2>1, <2>3 DEF WorkRecords, Grants, Statuses, Opening
  <2>5. record.step = "queued" /\ record.deleted = {} /\ record.document = d
    BY <2>1
  <2>6. Claims(record)'
    BY <2>5 DEF Claims, Opening, Handling
  <2>7. GrantsStay /\ grant'[record.document] # NoGrant
    BY <2>2, <2>5, SameGrants
  <2>8. Shrinks /\ BackupTypes' /\ held' = held
    BY <2>2, SameShrinks DEF vars, Inv, BackupTypes
  <2>9. MakingFits'
    <3>1. \A v \in Workers : v # w => work'[v] = work[v]
      BY <2>2 DEF Set, Inv, OwnTypes
    <3> QED
      BY <2>2, <3>1 DEF vars, Inv, MakingFits
  <2> QED
    BY <2>2, <2>4, <2>6, <2>7, <2>8, <2>9, WorkerTurn
<1> QED
  BY <1>1, <1>2 DEF User

(* A worker that makes no backup, and changes nothing but its own record.    *)
LEMMA QuietTurn ==
  ASSUME Inv, making.step = "idle", UNCHANGED <<data, backups, week, tombstone, result, queue>>,
         GrantsStay, NEW w \in Workers, NEW record \in WorkRecords \cup {Resting},
         Set(w, record), Claims(record)',
         record.step \in Opening => grant'[record.document] # NoGrant
  PROVE  Inv'
<1>1. /\ backup' = backup /\ making' = making /\ held' = held /\ materials' = materials
      /\ week' = week /\ numbered' = numbered
  BY DEF data, backups
<1>2. Shrinks /\ BackupTypes' /\ MakingFits'
  BY <1>1, IdleKeeps
<1> QED
  BY <1>1, <1>2, WorkerTurn

LEMMA TakeLockInv ==
  ASSUME Inv, NEW w \in Workers, TakeLock(w)
  PROVE  Inv'
<1>1. PICK record : record = [work[w] EXCEPT !.step = "scope"]
  OBVIOUS
<1>2. /\ lock = "free" /\ work[w] # Resting /\ work[w].step = "queued" /\ Set(w, record)
      /\ UNCHANGED <<data, backups, week, grant, tombstone, result, queue>>
  BY <1>1 DEF TakeLock, Set, bounds
<1>3. work[w] \in WorkRecords /\ Claims(work[w])
  BY <1>2, Working
<1>4. /\ record \in WorkRecords /\ record.step = "scope"
      /\ record.document = work[w].document /\ record.deleted = {}
  BY <1>1, <1>2, <1>3 DEF WorkRecords, Claims, Opening
<1>5. Claims(record)'
  BY <1>4 DEF Claims, Opening, Handling
<1>6. GrantsStay /\ grant'[record.document] # NoGrant
  BY <1>2, <1>4, SameGrants DEF Inv, GrantsFit, Opening
<1> QED
  BY <1>2, <1>4, <1>5, <1>6, FreeIsIdle, QuietTurn

(* The step of a worker that claims nothing any more, or what it claimed.    *)
LEMMA RestTurn ==
  ASSUME Inv, NEW w \in Workers, NEW step, step # "making", At(w, step), Finish(w),
         UNCHANGED <<data, backups, week, tombstone, result, queue>>, GrantsStay
  PROVE  Inv'
<1>1. Set(w, Resting) /\ making.step = "idle"
  BY HolderIsIdle DEF Finish
<1>2. Claims(Resting)' /\ Resting.step \notin Opening
  BY RestingIs DEF Claims, Opening
<1> QED
  BY <1>1, <1>2, QuietTurn

LEMMA RefuseInv ==
  ASSUME Inv, NEW w \in Workers, Refuse(w)
  PROVE  Inv'
<1>1. /\ At(w, "scope") /\ Finish(w)
      /\ UNCHANGED <<data, backups, week, tombstone, result, queue>>
      /\ \/ grant' = [grant EXCEPT ![work[w].document].consumed = TRUE]
         \/ grant' = grant
  BY DEF Refuse, bounds
<1>2. GrantsStay
  BY <1>1, ConsumedFits DEF At, Opening
<1> QED
  BY <1>1, <1>2, RestTurn

LEMMA RecordFailsInv ==
  ASSUME Inv, NEW w \in Workers, RecordFails(w)
  PROVE  Inv'
<1>1. /\ At(w, "rescan") /\ Finish(w)
      /\ UNCHANGED <<data, backups, week, grant, tombstone, result, queue>>
  BY DEF RecordFails, bounds
<1> QED
  BY <1>1, RestTurn, SameGrants

LEMMA HandlingTurn ==
  ASSUME Inv, NEW w \in Workers, work[w].step \in Handling,
         NEW record \in WorkRecords, record.step \in Handling,
         record.document = work[w].document, record.deleted \subseteq work[w].deleted,
         Shrinks, Deleted \subseteq Deleted'
  PROVE  Claims(record)'
<1>1. Claims(work[w]) /\ work[w] # Resting
  BY Working DEF Handling
<1>2. PICK old : old = work[w]
  OBVIOUS
<1>3. Claims(old)'
  BY <1>1, <1>2, ClaimsStay
<1> QED
  BY <1>1, <1>2, <1>3 DEF Claims, Handling, Opening

LEMMA HandlingQuietly ==
  ASSUME Inv, NEW w \in Workers, NEW step \in Handling \ {"making"}, At(w, step),
         NEW record \in WorkRecords, Set(w, record), record.step \in Handling,
         record.document = work[w].document, record.deleted \subseteq work[w].deleted,
         UNCHANGED <<data, backups, week, grant, tombstone, result, queue>>
  PROVE  Inv'
<1>1. Shrinks /\ Deleted \subseteq Deleted'
  BY SameShrinks DEF backups, Deleted
<1>2. Claims(record)'
  BY <1>1, HandlingTurn DEF At
<1>3. making.step = "idle" /\ record.step \notin Opening
  BY HolderIsIdle DEF Opening, Handling
<1> QED
  BY <1>2, <1>3, QuietTurn, SameGrants

LEMMA ReplayInv ==
  ASSUME Inv, NEW w \in Workers, Replay(w)
  PROVE  Inv'
<1>1. PICK record : record = Continued(work[w])
  OBVIOUS
<1>2. /\ At(w, "scope") /\ result[work[w].document] = Asked(work[w]) /\ Set(w, record)
      /\ grant' = [grant EXCEPT ![work[w].document].consumed = TRUE]
      /\ UNCHANGED <<data, backups, week, tombstone, result, queue>>
  BY <1>1 DEF Replay, vars, data, backups
<1>3. work[w] \in WorkRecords /\ Claims(work[w]) /\ work[w] # Resting
  BY <1>2, Working DEF At
<1>4. work[w].deleted = {} /\ work[w].document \in Documents
  BY <1>2, <1>3 DEF Claims, At, Opening, WorkRecords
<1>5. /\ record \in WorkRecords /\ record.step \in Handling
      /\ record.document = work[w].document /\ record.deleted = {}
  BY <1>1, <1>3, <1>4, ContinuedFits
<1>6. work[w].document \in Deleted
  <2>1. Asked(work[w]) \in Results
    BY <1>3 DEF Asked, Results, WorkRecords
  <2> QED
    BY <1>2, <1>4, <2>1, SentinelAssumption DEF Inv, GoneIsGone
<1>7. Claims(record)'
  <2>1. Deleted' = Deleted
    BY <1>2 DEF Deleted
  <2> QED
    BY <1>5, <1>6, <2>1 DEF Claims, Opening, Handling
<1>8. GrantsStay /\ making.step = "idle" /\ record.step \notin Opening
  BY <1>2, <1>5, ConsumedFits, HolderIsIdle DEF At, Opening, Handling
<1> QED
  BY <1>2, <1>5, <1>7, <1>8, QuietTurn

LEMMA EndRemovalInv ==
  ASSUME Inv, NEW w \in Workers, EndRemoval(w)
  PROVE  Inv'
<1>1. PICK record : record =
        [work[w] EXCEPT !.step = "post", !.status = "managed_backups_processed",
                        !.remaining = work[w].scope \ work[w].deleted]
  OBVIOUS
<1>2. /\ At(w, "remove") /\ Set(w, record)
      /\ UNCHANGED <<data, backups, week, grant, tombstone, result, queue>>
  BY <1>1 DEF EndRemoval, Set, vars, data, backups
<1>3. work[w] \in WorkRecords
  BY <1>2, Working DEF At
<1>4. /\ record \in WorkRecords /\ record.step \in Handling
      /\ record.document = work[w].document /\ record.deleted = work[w].deleted
  BY <1>1, <1>3 DEF WorkRecords, Handling, Statuses
<1> QED
  BY <1>2, <1>4, HandlingQuietly DEF Handling

(* The restore point was made, or was not.                                   *)
LEMMA PostFits ==
  ASSUME Inv, NEW w \in Workers, work[w].step # "rest", PostMade(w) \/ PostMissing(w)
  PROVE  \E record \in WorkRecords :
            /\ Set(w, record) /\ record.step = "rescan"
            /\ record.document = work[w].document /\ record.deleted = work[w].deleted
<1>1. work[w] \in WorkRecords
  BY Working
<1>2. CASE PostMade(w)
  <2>1. PICK record : record =
          [work[w] EXCEPT !.step = "rescan", !.post = TRUE, !.status = "completed"]
    OBVIOUS
  <2>2. Set(w, record)
    BY <1>2, <2>1 DEF PostMade, Set
  <2>3. /\ record \in WorkRecords /\ record.step = "rescan"
        /\ record.document = work[w].document /\ record.deleted = work[w].deleted
    BY <1>1, <2>1 DEF WorkRecords, Handling, Statuses
  <2> QED
    BY <2>2, <2>3
<1>3. CASE PostMissing(w)
  <2>1. PICK record : record = [work[w] EXCEPT !.step = "rescan"]
    OBVIOUS
  <2>2. Set(w, record)
    BY <1>3, <2>1 DEF PostMissing, Set
  <2>3. /\ record \in WorkRecords /\ record.step = "rescan"
        /\ record.document = work[w].document /\ record.deleted = work[w].deleted
    BY <1>1, <2>1 DEF WorkRecords, Handling
  <2> QED
    BY <2>2, <2>3
<1> QED
  BY <1>2, <1>3

LEMMA FindPostInv ==
  ASSUME Inv, NEW w \in Workers, FindPost(w)
  PROVE  Inv'
<1>1. /\ At(w, "post") /\ (PostMade(w) \/ PostMissing(w))
      /\ UNCHANGED <<data, backups, week, grant, tombstone, result, queue>>
  BY DEF FindPost, vars, data, backups
<1>2. PICK record \in WorkRecords :
        /\ Set(w, record) /\ record.step = "rescan"
        /\ record.document = work[w].document /\ record.deleted = work[w].deleted
  BY <1>1, PostFits DEF At
<1> QED
  BY <1>1, <1>2, HandlingQuietly DEF Handling

LEMMA EndPostInv ==
  ASSUME Inv, NEW w \in Workers, EndPost(w)
  PROVE  Inv'
<1>1. /\ At(w, "making") /\ (PostMade(w) \/ PostMissing(w)) /\ making' = Idle
      /\ UNCHANGED <<data, backup, numbered, week, grant, tombstone, result, queue>>
  BY DEF EndPost, bounds
<1>2. PICK record \in WorkRecords :
        /\ Set(w, record) /\ record.step = "rescan"
        /\ record.document = work[w].document /\ record.deleted = work[w].deleted
  BY <1>1, PostFits DEF At
<1>3. Shrinks /\ Deleted \subseteq Deleted' /\ held' = held
  BY <1>1, SameShrinks DEF Deleted, data
<1>4. BackupTypes'
  BY <1>1, IdleIs, Backups DEF BackupTypes, data
<1>5. MakingFits'
  BY <1>1, IdleIs DEF MakingFits, Unpublished
<1>6. Claims(record)' /\ record.step \notin Opening
  BY <1>1, <1>2, <1>3, HandlingTurn DEF At, Handling, Opening
<1> QED
  BY <1>1, <1>2, <1>3, <1>4, <1>5, <1>6, WorkerTurn, SameGrants

LEMMA StartPostInv ==
  ASSUME Inv, NEW w \in Workers, StartPost(w)
  PROVE  Inv'
<1>1. PICK record : record = [work[w] EXCEPT !.step = "making"]
  OBVIOUS
<1>2. /\ At(w, "post") /\ Set(w, record) /\ Start(work[w].document)
      /\ UNCHANGED <<data, lock, numbered, week, grant, tombstone, result, queue>>
  BY <1>1 DEF StartPost, Set, bounds
<1>3. work[w] \in WorkRecords /\ work[w].document \in Ids
  BY <1>2, Working, DocumentOf, Constants DEF At
<1>4. /\ record \in WorkRecords /\ record.step = "making"
      /\ record.document = work[w].document /\ record.deleted = work[w].deleted
  BY <1>1, <1>3 DEF WorkRecords, Handling
<1>5. lock' = w /\ work'[lock'] = record /\ record # Resting
  BY <1>2, <1>4, RestingIs DEF At, Set, Inv, OwnTypes
<1>6. Shrinks /\ BackupTypes' /\ MakingFits' /\ held' = held
  BY <1>2, <1>3, <1>4, <1>5, StartMakes, Backups DEF data
<1>7. Deleted \subseteq Deleted'
  BY <1>2 DEF Deleted
<1>8. Claims(record)' /\ record.step \notin Opening
  BY <1>2, <1>4, <1>6, <1>7, HandlingTurn DEF At, Handling, Opening
<1> QED
  BY <1>2, <1>4, <1>6, <1>8, WorkerTurn, SameGrants

LEMMA RemoveScopedInv ==
  ASSUME Inv, NEW w \in Workers, NEW id \in Ids, RemoveScoped(w, id)
  PROVE  Inv'
<1>1. /\ At(w, "remove")
      /\ UNCHANGED <<data, making, lock, numbered, week, grant, tombstone, result, queue>>
  BY DEF RemoveScoped, bounds
<1>2. work[w] \in WorkRecords /\ Claims(work[w]) /\ work[w] # Resting
  BY <1>1, Working DEF At
<1>3. making.step = "idle"
  BY <1>1, HolderIsIdle
<1>4. Loses
  BY VanishLoses, VanishFailsLoses DEF RemoveScoped
<1>5. Shrinks /\ held' = held /\ Deleted' = Deleted
  BY <1>1, <1>4 DEF Loses, data, Deleted
<1>6. BackupTypes'
  BY <1>1, <1>4, Backups DEF Loses, BackupTypes, data
<1>7. MakingFits'
  BY <1>1, <1>3 DEF MakingFits, Unpublished
<1>8. ASSUME NEW record \in WorkRecords, record.step = "remove", Set(w, record), Claims(record)'
      PROVE  Inv'
  BY <1>1, <1>5, <1>6, <1>7, <1>8, WorkerTurn, SameGrants DEF Opening
<1>9. CASE Vanish(id) /\ work' = [work EXCEPT ![w].todo = @ \ {id}, ![w].deleted = @ \cup {id}]
  <2>1. PICK record : record =
          [work[w] EXCEPT !.todo = @ \ {id}, !.deleted = @ \cup {id}]
    OBVIOUS
  <2>2. Set(w, record)
    BY <1>9, <2>1, <1>2, <1>1 DEF Set, Inv, OwnTypes
  <2>3. /\ record \in WorkRecords /\ record.step = "remove"
        /\ record.document = work[w].document /\ record.deleted = work[w].deleted \cup {id}
    BY <1>1, <1>2, <2>1 DEF WorkRecords, At
  <2>4. record.document \in Deleted /\ work[w].deleted \cap Holding(record.document) = {}
    BY <1>1, <1>2, <2>3 DEF Claims, At, Handling
  <2>5. Holding(record.document)' \subseteq Holding(record.document)
    <3>1. record.document \in Documents /\ record.document \notin held
      BY <2>4 DEF Deleted, Inv, GoneIsGone
    <3> QED
      BY <1>5, <3>1, HoldingShrinks
  <2>6. id \notin Holding(record.document)'
    <3>1. backup'[id] = IF id \in Ready \cup Broken THEN Absent ELSE backup[id]
      BY <1>9, Backups DEF Vanish
    <3>2. id \notin (Ready \cup Broken)'
      BY <3>1, AbsentIs DEF Ready, Broken
    <3> QED
      BY <3>2 DEF Holding
  <2>7. record.document \in Deleted' /\ record.deleted \cap Holding(record.document)' = {}
    BY <1>5, <2>3, <2>4, <2>5, <2>6
  <2>8. Claims(record)'
    BY <2>3, <2>7 DEF Claims, Opening
  <2> QED
    BY <1>8, <2>2, <2>3, <2>8
<1>10. CASE work' = [work EXCEPT ![w].todo = @ \ {id}]
  <2>1. PICK record : record = [work[w] EXCEPT !.todo = @ \ {id}]
    OBVIOUS
  <2>2. Set(w, record)
    BY <1>10, <2>1, <1>2, <1>1 DEF Set, Inv, OwnTypes
  <2>3. /\ record \in WorkRecords /\ record.step = "remove"
        /\ record.document = work[w].document /\ record.deleted = work[w].deleted
    BY <1>1, <1>2, <2>1 DEF WorkRecords, At
  <2>4. Claims(record)'
    BY <1>1, <1>5, <2>3, HandlingTurn DEF At, Handling
  <2> QED
    BY <1>8, <2>2, <2>3, <2>4
<1> QED
  BY <1>9, <1>10 DEF RemoveScoped

(* The document leaves the database, and its tombstone names the backups      *)
(* that the user has agreed to.                                              *)
LEMMA HoldingContained ==
  ASSUME NEW d
  PROVE  Holding(d) \subseteq Containing(d)
BY DEF Holding, Containing

LEMMA DeleteDocumentInv ==
  ASSUME Inv, NEW w \in Workers, DeleteDocument(w)
  PROVE  Inv'
<1>1. PICK old : old = work[w]
  OBVIOUS
<1>2. PICK d : d = old.document
  OBVIOUS
<1>3. PICK record : record = Continued(old)
  OBVIOUS
<1>4. PICK entry : entry = [policy |-> old.policy, scope |-> old.scope,
        status |-> "database_deleted", deleted |-> {}, remaining |-> old.scope, post |-> FALSE]
  OBVIOUS
<1>5. /\ At(w, "scope") /\ old.scope = Containing(d) /\ held' = held \ {d}
      /\ materials' \in SUBSET materials /\ tombstone' = [tombstone EXCEPT ![d] = entry]
      /\ result' = [result EXCEPT ![d] = Asked(old)] /\ Set(w, record)
      /\ grant' = [grant EXCEPT ![work[w].document].consumed = TRUE]
      /\ UNCHANGED <<backups, lock, week, queue>>
  BY <1>1, <1>2, <1>3, <1>4 DEF DeleteDocument, ScopeHolds, bounds
<1>6. old \in WorkRecords /\ Claims(old) /\ old # Resting /\ old.step = "scope"
  BY <1>1, <1>5, Working DEF At
<1>7. old.deleted = {} /\ d \in Documents
  BY <1>2, <1>6 DEF Claims, Opening, WorkRecords
<1>8. entry \in Tombstones /\ entry # NoTombstone
  <2>1. entry \in Tombstones
    BY <1>4, <1>6 DEF WorkRecords, Tombstones, Statuses
  <2> QED
    BY <2>1, SentinelAssumption
<1>9. Asked(old) \in Results
  BY <1>6 DEF Asked, Results, WorkRecords
<1>10. /\ tombstone' \in [Documents -> Tombstones \cup {NoTombstone}] /\ tombstone'[d] = entry
       /\ \A e \in Documents : e # d => tombstone'[e] = tombstone[e]
  BY <1>5, <1>7, <1>8 DEF Inv, OwnTypes
<1>11. Deleted' = Deleted \cup {d}
  BY <1>7, <1>8, <1>10 DEF Deleted
<1>12. /\ backup' = backup /\ making' = making /\ week' = week /\ numbered' = numbered
       /\ held' \subseteq held /\ materials' \subseteq materials /\ making.step = "idle"
  BY <1>5, HolderIsIdle DEF backups
<1>13. Shrinks /\ BackupTypes' /\ MakingFits'
  BY <1>12, IdleKeeps
<1>14. \A e : Holding(e)' = Holding(e)
  BY <1>12 DEF Holding, Ready, Broken
<1>15. GrantsStay
  BY <1>5, ConsumedFits DEF At, Opening
<1>16. /\ record \in WorkRecords /\ record.step \in Handling
       /\ record.document = d /\ record.deleted = {}
  BY <1>2, <1>3, <1>6, <1>7, ContinuedFits
<1>17. Claims(record)' /\ record.step \notin Opening
  BY <1>11, <1>16 DEF Claims, Opening, Handling
<1>18. WorkFits' /\ GrantsFit' /\ work' \in [Workers -> WorkRecords \cup {Resting}]
  BY <1>5, <1>11, <1>13, <1>15, <1>16, <1>17, WorkerSet
<1>19. OwnTypes'
  <2>1. result' \in [Documents -> Results \cup {NoResult}]
    BY <1>5, <1>9 DEF Inv, OwnTypes
  <2>2. queue' \subseteq Deleted'
    BY <1>5, <1>11 DEF Inv, OwnTypes
  <2> QED
    BY <1>10, <1>15, <1>18, <2>1, <2>2 DEF OwnTypes, GrantsStay
<1>20. GoneIsGone'
  <2>1. \A e \in Documents : e # d => result'[e] = result[e]
    BY <1>5 DEF Inv, OwnTypes
  <2> QED
    BY <1>5, <1>11, <2>1 DEF Inv, GoneIsGone
<1>21. entry.scope = Containing(d) /\ entry.deleted = {} /\ entry.status # "completed"
  BY <1>4, <1>5
<1>22. ScopeCoversBackups'
  <2> SUFFICES ASSUME NEW e \in Deleted'
               PROVE  Holding(e)' \subseteq tombstone'[e].scope
    BY DEF ScopeCoversBackups
  <2>1. CASE e = d
    BY <1>10, <1>14, <1>21, <2>1, HoldingContained
  <2>2. CASE e # d
    BY <1>10, <1>11, <1>14, <2>2 DEF Inv, ScopeCoversBackups, Deleted
  <2> QED
    BY <2>1, <2>2
<1>23. WorkflowReportsTruth'
  <2> SUFFICES ASSUME NEW e \in Deleted'
               PROVE  /\ tombstone'[e].deleted \cap Holding(e)' = {}
                      /\ tombstone'[e].status = "completed" =>
                           Holding(e)' \subseteq tombstone'[e].remaining
    BY DEF WorkflowReportsTruth
  <2>1. CASE e = d
    BY <1>10, <1>21, <2>1
  <2>2. CASE e # d
    BY <1>10, <1>11, <1>14, <2>2 DEF Inv, WorkflowReportsTruth, Deleted
  <2> QED
    BY <2>1, <2>2
<1> QED
  BY <1>13, <1>18, <1>19, <1>20, <1>22, <1>23 DEF Inv

(* What is recorded of a workflow, whether or not its backups could be        *)
(* looked at.                                                                *)
LEMMA RecordedFits ==
  ASSUME NEW old \in WorkRecords, NEW w,
         NEW record \in {Rescanned(old), Unscanned(w, old)}
  PROVE  /\ record \in WorkRecords /\ record.document = old.document
         /\ record.deleted \subseteq old.deleted
         /\ record.status = "completed" => Holding(old.document) \subseteq record.remaining
<1>1. Containing(old.document) \in SUBSET Ids
  BY DEF Containing, Ready, Broken
<1>2. CASE record = Rescanned(old)
  <2>1. PICK remaining : remaining = old.remaining \cup Containing(old.document)
    OBVIOUS
  <2>2. record = [old EXCEPT !.remaining = remaining, !.deleted = old.deleted \ remaining]
    BY <1>2, <2>1 DEF Rescanned, WorkRecords
  <2>3. remaining \in SUBSET Ids /\ Holding(old.document) \subseteq remaining
    BY <1>1, <2>1, HoldingContained DEF WorkRecords
  <2> QED
    BY <2>2, <2>3 DEF WorkRecords
<1>3. Downgraded(old) \in WorkRecords
  BY DEF Downgraded, WorkRecords, Statuses
<1>4. PICK down : down = Downgraded(old)
  OBVIOUS
<1>5. /\ down.document = old.document /\ down.deleted = old.deleted
      /\ down.status # "completed"
  BY <1>4 DEF Downgraded, WorkRecords
<1>6. CASE record = down
  BY <1>3, <1>4, <1>5, <1>6
<1>7. CASE record = [down EXCEPT !.remaining = @ \cup old.scope, !.deleted = {}]
  BY <1>3, <1>4, <1>5, <1>7 DEF WorkRecords
<1> QED
  BY <1>2, <1>4, <1>6, <1>7 DEF Unscanned

LEMMA RecordInv ==
  ASSUME Inv, NEW w \in Workers, Record(w)
  PROVE  Inv'
<1>1. PICK old : old = work[w]
  OBVIOUS
<1>2. PICK record \in {Rescanned(old), Unscanned(w, old)} :
        tombstone' = [tombstone EXCEPT ![record.document] =
          [@ EXCEPT !.status = record.status, !.deleted = record.deleted,
                    !.remaining = record.remaining, !.post = record.post]]
  BY <1>1 DEF Record
<1>3. /\ At(w, "rescan") /\ Set(w, Resting)
      /\ UNCHANGED <<data, backups, week, grant, result, queue>>
  BY DEF Record, Finish, bounds
<1>4. old \in WorkRecords /\ Claims(old) /\ old # Resting /\ old.step = "rescan"
  BY <1>1, <1>3, Working DEF At
<1>5. PICK d : d = old.document
  OBVIOUS
<1>6. /\ record \in WorkRecords /\ record.document = d
      /\ record.deleted \subseteq old.deleted
      /\ record.status = "completed" => Holding(d) \subseteq record.remaining
  BY <1>4, <1>5, RecordedFits
<1>7. d \in Deleted /\ old.deleted \cap Holding(d) = {}
  BY <1>4, <1>5 DEF Claims, Handling
<1>8. d \in Documents /\ tombstone[d] \in Tombstones
  BY <1>7 DEF Deleted, Inv, OwnTypes
<1>9. PICK entry : entry = [tombstone[d] EXCEPT !.status = record.status, !.deleted = record.deleted,
                            !.remaining = record.remaining, !.post = record.post]
  OBVIOUS
<1>10. /\ entry \in Tombstones /\ entry.scope = tombstone[d].scope
       /\ entry.deleted = record.deleted /\ entry.status = record.status
       /\ entry.remaining = record.remaining
  BY <1>6, <1>8, <1>9 DEF Tombstones, WorkRecords
<1>11. /\ tombstone' \in [Documents -> Tombstones \cup {NoTombstone}] /\ tombstone'[d] = entry
       /\ \A e \in Documents : e # d => tombstone'[e] = tombstone[e]
  <2>1. tombstone' = [tombstone EXCEPT ![d] = entry]
    BY <1>2, <1>6, <1>9
  <2> QED
    BY <1>8, <1>10, <2>1 DEF Inv, OwnTypes
<1>12. Deleted' = Deleted
  BY <1>7, <1>10, <1>11, SentinelAssumption DEF Deleted
<1>13. \A e : Holding(e)' = Holding(e)
  BY <1>3 DEF backups, Holding, Ready, Broken
<1>14. Shrinks /\ BackupTypes' /\ MakingFits'
  BY <1>3, HolderIsIdle, IdleKeeps DEF data, backups
<1>15. WorkFits' /\ GrantsFit' /\ work' \in [Workers -> WorkRecords \cup {Resting}]
  <2>1. Claims(Resting)' /\ Resting.step \notin Opening
    BY RestingIs DEF Claims, Opening
  <2> QED
    BY <1>3, <1>12, <1>14, <2>1, WorkerSet, SameGrants
<1>16. OwnTypes' /\ GoneIsGone'
  BY <1>3, <1>11, <1>12, <1>15 DEF Inv, OwnTypes, GoneIsGone, data
<1>17. ScopeCoversBackups'
  BY <1>8, <1>10, <1>11, <1>12, <1>13 DEF Inv, ScopeCoversBackups, Deleted
<1>18. WorkflowReportsTruth'
  <2> SUFFICES ASSUME NEW e \in Deleted'
               PROVE  /\ tombstone'[e].deleted \cap Holding(e)' = {}
                      /\ tombstone'[e].status = "completed" =>
                           Holding(e)' \subseteq tombstone'[e].remaining
    BY DEF WorkflowReportsTruth
  <2>1. CASE e = d
    BY <1>6, <1>7, <1>10, <1>11, <1>13, <2>1
  <2>2. CASE e # d
    BY <1>11, <1>12, <1>13, <2>2 DEF Inv, WorkflowReportsTruth, Deleted
  <2> QED
    BY <2>1, <2>2
<1> QED
  BY <1>14, <1>15, <1>16, <1>17, <1>18 DEF Inv

LEMMA WorkInv ==
  ASSUME Inv, NEW w \in Workers, Work(w)
  PROVE  Inv'
BY TakeLockInv, DeleteDocumentInv, ReplayInv, RefuseInv, RemoveScopedInv, EndRemovalInv,
   FindPostInv, StartPostInv, EndPostInv, RecordInv, RecordFailsInv DEF Work

-----------------------------------------------------------------------------
(* The process.                                                             *)

LEMMA LaunchInv ==
  ASSUME Inv, Launch
  PROVE  Inv'
<1>1. CASE Open
  <2>1. /\ lock = "free" /\ held' = held /\ materials' = materials /\ backup' = backup
        /\ making' = making /\ week' = week /\ numbered' = numbered
        /\ UNCHANGED <<grant, work, tombstone, result, queue>>
    BY <1>1 DEF Open, vars
  <2>2. Shrinks /\ BackupTypes' /\ MakingFits'
    BY <2>1, FreeIsIdle, IdleKeeps
  <2> QED
    BY <2>1, <2>2, SameGrants, OwnStays
<1>2. ASSUME NEW d \in Documents, Resume(d)
      PROVE  Inv'
  <2>1. PICK old : old =
          [step |-> "queued", document |-> d, scope |-> tombstone[d].scope,
           policy |-> tombstone[d].policy, status |-> tombstone[d].status,
           deleted |-> tombstone[d].deleted, remaining |-> tombstone[d].remaining,
           post |-> tombstone[d].post, todo |-> {}]
    OBVIOUS
  <2>2. PICK record : record = Continued(old)
    OBVIOUS
  <2>3. /\ lock = "free" /\ d \in queue /\ queue' = queue \ {d} /\ Set(Launcher, record)
        /\ UNCHANGED <<data, backups, week, grant, tombstone, result>>
    BY <1>2, <2>1, <2>2 DEF Resume, bounds
  <2>4. d \in Deleted /\ tombstone[d] \in Tombstones
    BY <2>3 DEF Inv, OwnTypes, Deleted
  <2>5. old \in WorkRecords /\ old.document = d /\ old.deleted = tombstone[d].deleted
    BY <2>1, <2>4 DEF Tombstones, WorkRecords, Opening
  <2>6. /\ record \in WorkRecords /\ record.step \in Handling /\ record.document = d
        /\ record.deleted \subseteq tombstone[d].deleted
    BY <2>2, <2>5, ContinuedFits
  <2>7. /\ Shrinks /\ BackupTypes' /\ MakingFits'
    BY <2>3, FreeIsIdle, IdleKeeps DEF data, backups
  <2>8. ScopeCoversBackups' /\ WorkflowReportsTruth' /\ Deleted' = Deleted
    BY <2>3, <2>7, TruthStays
  <2>9. Claims(record)' /\ record.step \notin Opening
    <3>1. tombstone[d].deleted \cap Holding(d)' = {}
      BY <2>3, <2>4, <2>8 DEF WorkflowReportsTruth
    <3> QED
      BY <2>4, <2>6, <2>8, <3>1 DEF Claims, Handling, Opening
  <2>10. WorkFits' /\ GrantsFit' /\ work' \in [Workers -> WorkRecords \cup {Resting}]
    BY <2>3, <2>6, <2>7, <2>8, <2>9, Constants, WorkerSet, SameGrants
  <2>11. OwnTypes' /\ GoneIsGone'
    BY <2>3, <2>8, <2>10 DEF Inv, OwnTypes, GoneIsGone, data
  <2> QED
    BY <2>7, <2>8, <2>10, <2>11 DEF Inv
<1> QED
  BY <1>1, <1>2 DEF Launch

(* The process starts again, and the backups are as the end left them.       *)
LEMMA StartAgainInv ==
  ASSUME Inv, StartAgain, Loses
  PROVE  Inv'
<1>1. /\ held' = held /\ materials' = materials /\ making' = Idle /\ numbered' = numbered
      /\ week' = week /\ grant' = [d \in Documents |-> NoGrant]
      /\ work' = [w \in Workers |-> Resting] /\ tombstone' = tombstone /\ result' = result
      /\ queue' \subseteq Deleted
  BY DEF StartAgain, Forget, data, NoGrants, Pending
<1>2. ScopeCoversBackups' /\ WorkflowReportsTruth' /\ Deleted' = Deleted
  BY <1>1, TruthStays DEF Loses
<1>3. BackupTypes'
  BY <1>1, IdleIs, Backups DEF BackupTypes, Loses
<1>4. MakingFits'
  BY <1>1, IdleIs DEF MakingFits, Unpublished
<1>5. WorkFits' /\ GrantsFit'
  BY <1>1, RestingIs DEF WorkFits, Claims, GrantsFit, Opening
<1>6. OwnTypes' /\ GoneIsGone'
  BY <1>1, <1>2 DEF Inv, OwnTypes, GoneIsGone
<1> QED
  BY <1>2, <1>3, <1>4, <1>5, <1>6 DEF Inv

LEMMA ProcessInv ==
  ASSUME Inv, Quit \/ DeletionCrash \/ LaunchFails
  PROVE  Inv'
<1>1. StartAgain
  BY DEF Quit, DeletionCrash, LaunchFails
<1>2. Loses
  BY SameLoses, InterruptedLoses DEF Quit, DeletionCrash, LaunchFails
<1> QED
  BY <1>1, <1>2, StartAgainInv

LEMMA StepInv == Inv /\ [DeletionNext]_store => Inv'
<1> SUFFICES ASSUME Inv, [DeletionNext]_store PROVE Inv'
  OBVIOUS
<1>1. CASE UNCHANGED store
  <2>1. /\ held' = held /\ materials' = materials /\ backup' = backup /\ making' = making
        /\ lock' = lock /\ week' = week /\ numbered' = numbered
        /\ UNCHANGED <<grant, work, tombstone, result, queue>>
    BY <1>1 DEF store, vars, own
  <2>2. BackupTypes' /\ MakingFits'
    BY <2>1 DEF Inv, BackupTypes, MakingFits
  <2> QED
    BY <2>1, <2>2, SameShrinks, SameGrants, OwnStays
<1>2. CASE DeletionNext
  BY <1>2, MakeBackupInv, SurroundingsInv, UserInv, LaunchInv, WorkInv, ProcessInv
     DEF DeletionNext
<1> QED
  BY <1>1, <1>2

LEMMA AlwaysInv == DeletionSpec => []Inv
BY InitInv, StepInv, PTL DEF DeletionSpec

(* What a workflow reports is true of the disk after any failure, deletion    *)
(* by the user, crash or resumption (sourcePrivacy.ts, continueAfterDatabase  *)
(* and finish).                                                             *)
THEOREM WorkflowsTellTheTruth == DeletionSpec => []WorkflowReportsTruth
<1>1. Inv => WorkflowReportsTruth
  BY DEF Inv
<1> QED
  BY <1>1, AlwaysInv, PTL

(* Every managed backup that still holds a deleted source was named to the    *)
(* user who confirmed the deletion, even if it was made after the dialog      *)
(* (sourcePrivacy.ts, the comparison of scopes under the lock).               *)
THEOREM ScopesCoverBackups == DeletionSpec => []ScopeCoversBackups
<1>1. Inv => ScopeCoversBackups
  BY DEF Inv
<1> QED
  BY <1>1, AlwaysInv, PTL

(* A source that was deleted does not come back, and every success under a    *)
(* key has its tombstone (sqliteStore.ts, deleteSourcePermanently).           *)
THEOREM DeletedStaysDeleted == DeletionSpec => []GoneIsGone
<1>1. Inv => GoneIsGone
  BY DEF Inv
<1> QED
  BY <1>1, AlwaysInv, PTL

-----------------------------------------------------------------------------
(* The inductive invariant of LeavesARestorePoint.                          *)

(* Deletions that still owe their restore point.                             *)
Owing == {d \in Pending : tombstone[d].policy # Keeps /\ ~tombstone[d].post}
(* Deletions with backups that may be sent again under their key.            *)
Repeatable == {d \in Deleted : tombstone[d].policy # Keeps /\ grant[d] # NoGrant}

PointOwed ==
    userDeletes = 0 /\ Ready = {} /\ (\E d \in Deleted : tombstone[d].policy # Keeps)
        => Owing # {}

(* A repetition removes nothing but what holds its source, so that a backup   *)
(* without it is enough.                                                    *)
CleanOne(d) == \E id \in Ready : d \notin backup[id].documents
CleanOwed == userDeletes = 0 => Owing \ Ready # {} \/ \A d \in Repeatable : CleanOne(d)

(* The newer a complete backup is, the less it holds.                        *)
SnapshotsShrink ==
    /\ \A id \in Ready : held \subseteq backup[id].documents
    /\ making.step \in {"list", "copy", "rename"} => held \subseteq backup[making.id].documents
    /\ \A a, b \in Ready : a \in older[b] => backup[b].documents \subseteq backup[a].documents

OwnPoints == \A d \in Documents : backup[d].dir # "none" => d \in Deleted

EntriesFit ==
    /\ \A d \in Deleted : tombstone[d].status = "database_deleted" => ~tombstone[d].post
    /\ \A d \in Documents : result[d] # NoResult => tombstone[d].policy = result[d].policy

(* Who holds the lock works, alone.                                         *)
ProcessFits ==
    /\ lock \in {"free", "local"} \cup Workers
    /\ lock \in Workers => work[lock] # Resting /\ work[lock].step # "queued"
    /\ \A w \in Workers : work[w] = Resting \/ work[w].step = "queued" \/ lock = w
    /\ app \in {"launching", "open"} /\ queue \subseteq Pending
    /\ app = "open" => queue = {}
    /\ app = "launching" => grant = NoGrants /\ lock # "local"
    /\ \A w \in Workers : work[w] # Resting =>
         IF w = Launcher
         THEN app = "launching" /\ work[w].step \in Handling /\ work[w].document \notin queue
         ELSE app = "open" /\ grant[work[w].document] # NoGrant

RecordFits(record, resumed) ==
    /\ record.step \in Opening => record.status = "database_deleted" /\ ~record.post
    /\ record.step \in Handling => record.policy = tombstone[record.document].policy
    /\ record.step \in {"remove", "post", "making"} =>
         /\ record.policy # Keeps /\ ~record.post
         /\ resumed => record.document \in Owing
    /\ record.step = "remove" /\ ~resumed =>
         \A id \in record.todo \cap Ready : record.document \in backup[id].documents
    /\ record.step \in {"post", "making"} => record.status = "managed_backups_processed"
    /\ record.step = "making" /\ making.step # "idle" => making.id = record.document
    /\ record.step = "rescan" => record.status # "database_deleted"
    /\ record.step = "rescan" /\ record.policy # Keeps =>
         /\ record.status = "completed" => record.post
         /\ record.post /\ record.document \in Owing /\ userDeletes = 0 => record.document \in Ready

RecordsFit == \A w \in Workers : work[w] # Resting => RecordFits(work[w], w = Launcher)

PointInv ==
    /\ BackupInv /\ PointOwed /\ CleanOwed /\ SnapshotsShrink /\ OwnPoints /\ EntriesFit
    /\ ProcessFits /\ RecordsFit

LEMMA InitPoint == DeletionInit => PointInv
<1> SUFFICES ASSUME DeletionInit PROVE PointInv
  OBVIOUS
<1>1. /\ backup = [id \in Ids |-> Absent] /\ making = Idle /\ lock = "free" /\ app = "open"
      /\ grant = [d \in Documents |-> NoGrant] /\ work = [w \in Workers |-> Resting]
      /\ tombstone = [d \in Documents |-> NoTombstone]
      /\ result = [d \in Documents |-> NoResult] /\ queue = {}
  BY DEF DeletionInit, Init, NoGrants
<1>2. BackupInv
  BY InitBackups DEF DeletionInit
<1>3. Deleted = {} /\ Ready = {}
  BY <1>1, AbsentIs DEF Deleted, Ready
<1>4. PointOwed /\ CleanOwed /\ EntriesFit
  BY <1>1, <1>3 DEF PointOwed, CleanOwed, Repeatable, EntriesFit
<1>5. SnapshotsShrink
  BY <1>1, <1>3, IdleIs DEF SnapshotsShrink
<1>6. OwnPoints
  BY <1>1, AbsentIs, Constants DEF OwnPoints
<1>7. ProcessFits /\ RecordsFit
  BY <1>1, Constants DEF ProcessFits, RecordsFit
<1> QED
  BY <1>2, <1>4, <1>5, <1>6, <1>7 DEF PointInv

-----------------------------------------------------------------------------
(* The backups, whoever works on them.                                      *)

LEMMA StillBackups ==
  ASSUME BackupInv, making.step = "idle", UNCHANGED <<backup, older, making, numbered, userDeletes, week>>,
         held' \subseteq held, materials' \subseteq materials
  PROVE  BackupInv' /\ ReadyStays
BY OthersKeep

(* A worker that neither removes nor makes a backup.                         *)
LEMMA QuietWork ==
  ASSUME Inv, BackupInv, NEW w \in Workers,
         \/ TakeLock(w) \/ DeleteDocument(w) \/ Replay(w) \/ Refuse(w) \/ EndRemoval(w)
         \/ FindPost(w) \/ Record(w) \/ RecordFails(w)
  PROVE  /\ making.step = "idle" /\ UNCHANGED <<backups, bounds>>
         /\ BackupInv' /\ ReadyStays
<1>1. UNCHANGED <<backups, bounds>> /\ held' \subseteq held /\ materials' \subseteq materials
  <2>1. CASE DeleteDocument(w)
    BY <2>1 DEF DeleteDocument
  <2>2. CASE Replay(w) \/ EndRemoval(w) \/ FindPost(w)
    BY <2>2 DEF Replay, EndRemoval, FindPost, vars, backups, bounds
  <2>3. CASE TakeLock(w) \/ Refuse(w) \/ Record(w) \/ RecordFails(w)
    BY <2>3 DEF TakeLock, Refuse, Record, RecordFails, data
  <2> QED
    BY <2>1, <2>2, <2>3
<1>2. making.step = "idle"
  <2>1. CASE TakeLock(w)
    BY <2>1, FreeIsIdle DEF TakeLock
  <2>2. CASE ~TakeLock(w)
    <3>1. \E step \in {"scope", "remove", "post", "rescan"} : At(w, step)
      BY <2>2 DEF DeleteDocument, Replay, Refuse, EndRemoval, FindPost, Record, RecordFails
    <3> QED
      BY <3>1, HolderIsIdle
  <2> QED
    BY <2>1, <2>2
<1> QED
  BY <1>1, <1>2, StillBackups DEF backups, bounds

LEMMA RemovalDrops ==
  ASSUME Inv, BackupInv, NEW w \in Workers, NEW id \in Ids, RemoveScoped(w, id)
  PROVE  /\ making.step = "idle" /\ BackupInv'
         /\ \E S \in SUBSET {id} : Drops(S)
<1>1. /\ At(w, "remove") /\ UNCHANGED <<data, making, numbered, bounds>>
      /\ Vanish(id) \/ VanishFails(id)
  BY DEF RemoveScoped
<1>2. making.step = "idle" /\ making' = Idle
  BY <1>1, HolderIsIdle DEF BackupInv, MakerFits
<1>3. PICK S \in SUBSET {id} : Drops(S)
  BY <1>1, VanishDrops
<1> QED
  BY <1>1, <1>2, <1>3, IdleDropKeeps DEF bounds

(* The restore point goes to a directory of its own.                         *)
LEMMA PostStarts ==
  ASSUME Inv, BackupInv, NEW w \in Workers, StartPost(w)
  PROVE  BackupInv' /\ ReadyStays
<1>1. work[w].document \in Documents /\ At(w, "post")
  BY DocumentOf DEF StartPost, At
<1>2. work[w].document \in Ids /\ work[w].document \notin 1..MaxBackups /\ lock # "free"
  BY <1>1, Constants, KeyAssumption, BackupAssumption DEF At
<1>3. /\ Start(work[w].document) /\ ~There(work[w].document)
      /\ UNCHANGED <<data, lock, numbered, week, userDeletes>>
  BY <1>2 DEF StartPost, bounds, There, Ready, Broken
<1> QED
  BY <1>2, <1>3, StartKeeps

LEMMA WorkKeeps ==
  ASSUME Inv, BackupInv, NEW w \in Workers, Work(w)
  PROVE  BackupInv'
<1>1. CASE EndPost(w)
  BY <1>1, EndKeeps DEF EndPost, bounds
<1> QED
  BY <1>1, QuietWork, RemovalDrops, PostStarts DEF Work

(* The backups outside the deletions of sources.                             *)
LEMMA OutsideKeeps ==
  ASSUME Inv, BackupInv, BackupStep \/ Surroundings
  PROVE  /\ BackupInv' /\ UNCHANGED own /\ held' = held
         /\ \/ ReadyStays /\ userDeletes' = userDeletes
            \/ Publish
            \/ \E id \in Ids : RemoveOld(id) /\ userDeletes' = userDeletes /\ \E S \in SUBSET {id} : Drops(S)
            \/ \E id \in Ids : DeleteManaged(id) /\ \E S \in SUBSET {id} : Drops(S)
         /\ \/ lock' = lock /\ making' = making
            \/ lock = "free" /\ lock' = "local" /\ app = "open"
            \/ lock = "local" /\ lock' = "free"
            \/ /\ lock' = lock /\ MakeBackup
               /\ making.step # "idle" /\ making'.step # "idle" /\ making'.id = making.id
<1>1. UNCHANGED own
  BY DEF BackupStep, Surroundings
<1>2. CASE MakeBackup
  <2>1. held' = held /\ userDeletes' = userDeletes
    BY <1>2, MakeBackupKeeps DEF data, bounds
  <2> QED
    BY <1>1, <1>2, <2>1, MakeBackupKeeps
<1>3. CASE EndLocal
  BY <1>1, <1>3, EndLocalKeeps DEF EndLocal, GiveBack, data, bounds
<1>4. CASE app = "open" /\ StartLocal
  BY <1>1, <1>4, StartLocalKeeps DEF StartLocal, data, bounds
<1>5. CASE NextWeek \/ \E m \in Materials : TakeBack(m)
  <2>1. /\ UNCHANGED <<backup, older, making, numbered, userDeletes, lock, held>>
        /\ materials' \subseteq materials
        /\ week' = week \/ (week < MaxWeeks /\ week' = week + 1)
    BY <1>5 DEF NextWeek, TakeBack, backups, data, bounds
  <2> QED
    BY <1>1, <2>1, OthersKeep
<1>6. ASSUME NEW id \in Ids, DeleteManaged(id)
      PROVE  /\ BackupInv' /\ held' = held /\ lock' = lock /\ making' = making
             /\ \E S \in SUBSET {id} : Drops(S)
  BY <1>6, DeleteManagedKeeps DEF DeleteManaged, data
<1> QED
  BY <1>1, <1>2, <1>3, <1>4, <1>5, <1>6 DEF BackupStep, Surroundings, Environment

LEMMA UserStays ==
  ASSUME UNCHANGED vars, BackupInv
  PROVE  BackupInv' /\ ReadyStays /\ UNCHANGED <<backup, making, lock, held, userDeletes, older>>
BY OthersKeep DEF vars

LEMMA LaunchStays ==
  ASSUME Inv, BackupInv, Launch
  PROVE  /\ BackupInv' /\ ReadyStays /\ lock = "free" /\ making.step = "idle"
         /\ UNCHANGED <<backup, making, held, userDeletes, older>>
<1>1. /\ lock = "free" /\ UNCHANGED <<backup, older, making, numbered, userDeletes, week, held, materials>>
  BY DEF Launch, Open, Resume, vars, backups, data, bounds
<1> QED
  BY <1>1, FreeIsIdle, StillBackups

(* The process ends.  What is half removed by then was decided to go.        *)
LEMMA ProcessDrops ==
  ASSUME Inv, BackupInv, Quit \/ DeletionCrash \/ LaunchFails
  PROVE  /\ BackupInv' /\ StartAgain
         /\ \E S \in SUBSET (Ready \cap (making.doomed \cup
                UNION {work[w].todo : w \in {v \in Workers : At(v, "remove")}})) : Drops(S)
<1>1. PICK doomed : doomed = making.doomed \cup
               UNION {work[w].todo : w \in {v \in Workers : At(v, "remove")}}
  OBVIOUS
<1>2. StartAgain /\ (Interrupted(doomed) \/ UNCHANGED <<backup, older>>)
  BY <1>1 DEF Quit, DeletionCrash, LaunchFails
<1>3. PICK S \in SUBSET (doomed \cap Ready) : Drops(S)
  <2>1. CASE Interrupted(doomed)
    BY <2>1, InterruptedDrops
  <2>2. CASE UNCHANGED <<backup, older>>
    BY <2>2, NothingDrops
  <2> QED
    BY <1>2, <2>1, <2>2
<1>4. BackupInv'
  BY <1>2, <1>3, IdleDropKeeps DEF StartAgain, Forget
<1> QED
  BY <1>1, <1>2, <1>3, <1>4

-----------------------------------------------------------------------------
(* Who holds the lock works, alone.                                         *)

(* A turn of a worker: its record, and what else of the deletions changes.   *)
Turn(w, record) ==
    /\ record \in WorkRecords \cup {Resting} /\ Set(w, record)
    /\ IF record = Resting THEN lock' = "free"
       ELSE /\ lock' = w /\ record.document = work[w].document
            /\ \/ record.step \in Handling
               \/ record.step = "scope" /\ work[w].step = "queued"

TurnStays(w) ==
    /\ app' = app /\ queue' = queue /\ GrantsStay
    /\ grant' = grant \/ work[w].step \in Opening
    /\ \A d \in Pending : d # work[w].document => d \in Pending'

LEMMA SameStays ==
  ASSUME Inv, NEW w, UNCHANGED <<app, queue, grant, tombstone>>
  PROVE  TurnStays(w)
BY SameGrants DEF TurnStays, Pending, Deleted

LEMMA SetAgain ==
  ASSUME Inv, NEW w \in Workers, NEW record, work' = [work EXCEPT ![w] = record]
  PROVE  Set(w, record)
BY DEF Set

LEMMA ConsumeTurn ==
  ASSUME Inv, NEW w \in Workers, At(w, "scope"), UNCHANGED <<app, queue, lock>>,
         Set(w, Continued(work[w])), grant' = [grant EXCEPT ![work[w].document].consumed = TRUE],
         \A d \in Pending : d # work[w].document => d \in Pending'
  PROVE  /\ Turn(w, Continued(work[w])) /\ Continued(work[w]).step \in Handling
         /\ TurnStays(w)
<1>1. work[w] \in WorkRecords
  BY Working DEF At
<1>2. /\ Continued(work[w]) \in WorkRecords /\ Continued(work[w]).step \in Handling
      /\ Continued(work[w]).document = work[w].document
  BY <1>1, ContinuedFits
<1>3. GrantsStay /\ work[w].step \in Opening /\ lock = w
  BY ConsumedFits DEF At, Opening
<1> QED
  BY <1>2, <1>3, RestingIs DEF Turn, TurnStays

LEMMA DeleteTurn ==
  ASSUME Inv, NEW w \in Workers, DeleteDocument(w) \/ Replay(w)
  PROVE  Turn(w, Continued(work[w])) /\ Continued(work[w]).step \in Handling /\ TurnStays(w)
<1>1. CASE DeleteDocument(w)
  <2>1. work[w].document \in Documents
    BY <1>1, DocumentOf DEF DeleteDocument, At
  <2>2. \A d \in Documents : d # work[w].document => tombstone'[d] = tombstone[d]
    BY <1>1, <2>1 DEF DeleteDocument, Inv, OwnTypes
  <2>3. \A d \in Pending : d # work[w].document => d \in Pending'
    BY <2>2 DEF Pending, Deleted
  <2> QED
    BY <1>1, <2>3, ConsumeTurn DEF DeleteDocument
<1>2. CASE Replay(w)
  <2>1. \A d \in Pending : d # work[w].document => d \in Pending'
    BY <1>2 DEF Replay, Pending, Deleted
  <2> QED
    BY <1>2, <2>1, ConsumeTurn DEF Replay, vars
<1> QED
  BY <1>1, <1>2

LEMMA RestTurns ==
  ASSUME Inv, NEW w \in Workers, Refuse(w) \/ Record(w) \/ RecordFails(w)
  PROVE  Turn(w, Resting) /\ TurnStays(w)
<1>1. CASE Refuse(w)
  <2>1. GrantsStay /\ work[w].step \in Opening
    BY <1>1, ConsumedFits DEF Refuse, At, Opening
  <2> QED
    BY <1>1, <2>1 DEF Refuse, Turn, TurnStays, Finish, Pending, Deleted
<1>2. CASE Record(w)
  <2>1. work[w] \in WorkRecords
    BY <1>2, Working DEF Record, At
  <2>2. PICK record \in {Rescanned(work[w]), Unscanned(w, work[w])} :
          tombstone' = [tombstone EXCEPT ![record.document] =
            [@ EXCEPT !.status = record.status, !.deleted = record.deleted,
                      !.remaining = record.remaining, !.post = record.post]]
    BY <1>2 DEF Record
  <2>3. record.document = work[w].document
    BY <2>1, <2>2, RecordedFits
  <2>4. \A d \in Documents : d # work[w].document => tombstone'[d] = tombstone[d]
    BY <2>2, <2>3 DEF Inv, OwnTypes
  <2>5. \A d \in Pending : d # work[w].document => d \in Pending'
    BY <2>4 DEF Pending, Deleted
  <2> QED
    BY <1>2, <2>5, SameGrants DEF Record, Turn, TurnStays, Finish
<1>3. CASE RecordFails(w)
  <2>1. UNCHANGED <<app, queue, grant, tombstone>> /\ Finish(w)
    BY <1>3 DEF RecordFails
  <2> QED
    BY <2>1, SameStays DEF Turn, Finish
<1> QED
  BY <1>1, <1>2, <1>3

(* Every other turn, and where it leads.                                     *)
LEMMA StepTurn ==
  ASSUME Inv, NEW w \in Workers,
         \/ TakeLock(w) \/ (\E id \in Ids : RemoveScoped(w, id)) \/ EndRemoval(w)
         \/ FindPost(w) \/ StartPost(w) \/ EndPost(w)
  PROVE  TurnStays(w) /\ \E record \in WorkRecords : Turn(w, record)
<1>1. work[w].step # "rest"
  <2>1. CASE TakeLock(w)
    BY <2>1, RestingIs DEF TakeLock
  <2>2. CASE ~TakeLock(w)
    BY <2>2 DEF RemoveScoped, EndRemoval, FindPost, StartPost, EndPost, At
  <2> QED
    BY <2>1, <2>2
<1>2. work[w] \in WorkRecords /\ work[w] # Resting
  BY <1>1, Working
<1>3. TurnStays(w)
  BY SameStays DEF TakeLock, RemoveScoped, EndRemoval, FindPost, StartPost, EndPost
<1>4. CASE TakeLock(w)
  <2>1. PICK record : record = [work[w] EXCEPT !.step = "scope"]
    OBVIOUS
  <2>2. Set(w, record) /\ lock' = w /\ work[w].step = "queued"
    BY <1>4, <2>1 DEF TakeLock, Set
  <2>3. record \in WorkRecords /\ record.step = "scope" /\ record.document = work[w].document
    BY <1>2, <2>1 DEF WorkRecords, Opening
  <2> QED
    BY <1>3, <2>2, <2>3, RestingIs DEF Turn
<1>5. CASE \E id \in Ids : RemoveScoped(w, id)
  <2>1. PICK id \in Ids : RemoveScoped(w, id)
    BY <1>5
  <2>2. PICK record \in {[work[w] EXCEPT !.todo = @ \ {id}, !.deleted = @ \cup {id}],
                         [work[w] EXCEPT !.todo = @ \ {id}]} : Set(w, record)
    BY <2>1 DEF RemoveScoped, Set, Inv, OwnTypes
  <2>3. record \in WorkRecords /\ record.step = "remove" /\ record.document = work[w].document
    <3>1. work[w].step = "remove"
      BY <2>1 DEF RemoveScoped, At
    <3>2. CASE record = [work[w] EXCEPT !.todo = @ \ {id}, !.deleted = @ \cup {id}]
      BY <1>2, <3>1, <3>2 DEF WorkRecords
    <3>3. CASE record = [work[w] EXCEPT !.todo = @ \ {id}]
      BY <1>2, <3>1, <3>3 DEF WorkRecords
    <3> QED
      BY <2>2, <3>2, <3>3
  <2> QED
    BY <1>3, <2>1, <2>2, <2>3, RestingIs DEF Turn, RemoveScoped, At, Handling
<1>6. CASE EndRemoval(w)
  <2>1. PICK record : record =
          [work[w] EXCEPT !.step = "post", !.status = "managed_backups_processed",
                          !.remaining = work[w].scope \ work[w].deleted]
    OBVIOUS
  <2>2. Set(w, record) /\ lock' = w
    BY <1>6, <2>1 DEF EndRemoval, Set, At, vars
  <2>3. record \in WorkRecords /\ record.step = "post" /\ record.document = work[w].document
    BY <1>2, <2>1 DEF WorkRecords, Handling, Statuses
  <2> QED
    BY <1>3, <2>2, <2>3, RestingIs DEF Turn, Handling
<1>7. CASE FindPost(w) \/ EndPost(w)
  <2>1. lock' = w /\ (PostMade(w) \/ PostMissing(w))
    BY <1>7 DEF FindPost, EndPost, At, vars
  <2>2. PICK record \in WorkRecords :
          /\ Set(w, record) /\ record.step = "rescan"
          /\ record.document = work[w].document /\ record.deleted = work[w].deleted
    BY <1>1, <2>1, PostFits
  <2> QED
    BY <1>3, <2>1, <2>2, RestingIs DEF Turn, Handling
<1>8. CASE StartPost(w)
  <2>1. PICK record : record = [work[w] EXCEPT !.step = "making"]
    OBVIOUS
  <2>2. Set(w, record) /\ lock' = w
    BY <1>8, <2>1 DEF StartPost, Set, At
  <2>3. record \in WorkRecords /\ record.step = "making" /\ record.document = work[w].document
    BY <1>2, <2>1 DEF WorkRecords, Handling
  <2> QED
    BY <1>3, <2>2, <2>3, RestingIs DEF Turn, Handling
<1> QED
  BY <1>4, <1>5, <1>6, <1>7, <1>8

LEMMA WorkTurn ==
  ASSUME Inv, NEW w \in Workers, Work(w)
  PROVE  /\ work[w] # Resting /\ (lock = w \/ (lock = "free" /\ work[w].step = "queued"))
         /\ TurnStays(w) /\ \E record : Turn(w, record)
<1>1. work[w] # Resting /\ (lock = w \/ (lock = "free" /\ work[w].step = "queued"))
  <2>1. CASE TakeLock(w)
    BY <2>1 DEF TakeLock
  <2>2. CASE ~TakeLock(w)
    <3>1. lock = w /\ work[w].step # "rest"
      BY <2>2 DEF Work, At, DeleteDocument, Replay, Refuse, RemoveScoped, EndRemoval, FindPost,
         StartPost, EndPost, Record, RecordFails
    <3> QED
      BY <3>1, RestingIs
  <2> QED
    BY <2>1, <2>2
<1>2. TurnStays(w) /\ \E record : Turn(w, record)
  BY DeleteTurn, RestTurns, StepTurn DEF Work
<1> QED
  BY <1>1, <1>2

LEMMA TurnFits ==
  ASSUME Inv, ProcessFits, NEW w \in Workers, Work(w)
  PROVE  ProcessFits'
<1>1. /\ work[w] # Resting /\ (lock = w \/ (lock = "free" /\ work[w].step = "queued"))
      /\ TurnStays(w)
  BY WorkTurn
<1>2. PICK record : Turn(w, record)
  BY WorkTurn
<1>3. work'[w] = record /\ \A v \in Workers : v # w => work'[v] = work[v]
  BY <1>2 DEF Turn, Set, Inv, OwnTypes
<1>4. w = Launcher => work[w].step \in Handling /\ app = "launching" /\ work[w].document \notin queue
  BY <1>1 DEF ProcessFits
<1>5. w # Launcher => app = "open" /\ queue = {}
  BY <1>1 DEF ProcessFits
<1>6. app' = app /\ queue' = queue /\ GrantsStay /\ (app = "launching" => grant' = grant)
  BY <1>1, <1>4, <1>5 DEF TurnStays, Handling, Opening
<1>7. queue' \subseteq Pending'
  BY <1>1, <1>4, <1>5 DEF ProcessFits, TurnStays
<1>8. /\ lock' \in {"free", "local"} \cup Workers /\ lock' # "local"
      /\ lock' \in Workers => work'[lock'] # Resting /\ work'[lock'].step # "queued"
  BY <1>2, <1>3, Constants DEF Turn, Handling
<1>9. \A v \in Workers : work'[v] = Resting \/ work'[v].step = "queued" \/ lock' = v
  BY <1>1, <1>2, <1>3, Constants DEF Turn, ProcessFits
<1>10. record # Resting => record.document = work[w].document
                           /\ (w = Launcher => record.step \in Handling)
  BY <1>2, <1>4 DEF Turn, Handling
<1>11. ASSUME NEW v \in Workers, work'[v] # Resting
       PROVE  IF v = Launcher
              THEN app' = "launching" /\ work'[v].step \in Handling /\ work'[v].document \notin queue'
              ELSE app' = "open" /\ grant'[work'[v].document] # NoGrant
  <2>1. /\ work[v] # Resting /\ work'[v].document = work[v].document
        /\ v = Launcher => work'[v].step \in Handling
    <3>1. CASE v = w
      BY <1>1, <1>3, <1>10, <1>11, <3>1
    <3>2. CASE v # w
      BY <1>3, <1>11, <3>2 DEF ProcessFits
    <3> QED
      BY <3>1, <3>2
  <2>2. work[v].document \in Documents
    BY <2>1 DEF Inv, OwnTypes, WorkRecords
  <2> QED
    BY <1>6, <2>1, <2>2 DEF ProcessFits, GrantsStay
<1> QED
  BY <1>6, <1>7, <1>8, <1>9, <1>11 DEF ProcessFits

LEMMA OutsideFits ==
  ASSUME ProcessFits, UNCHANGED own,
         \/ lock' = lock
         \/ lock = "free" /\ lock' = "local" /\ app = "open"
         \/ lock = "local" /\ lock' = "free"
  PROVE  ProcessFits'
<1>1. UNCHANGED <<grant, work, app, queue>> /\ Pending' = Pending
  BY DEF own, Pending, Deleted
<1> QED
  BY <1>1, Constants DEF ProcessFits

LEMMA UserFits ==
  ASSUME Inv, ProcessFits, User
  PROVE  ProcessFits'
<1>1. ASSUME NEW d \in Documents, NEW policy \in Policies, Prepare(d, policy)
      PROVE  ProcessFits'
  <2>1. PICK x : x = [scope |-> Containing(d), policy |-> policy, consumed |-> FALSE]
    OBVIOUS
  <2>2. x # NoGrant
    <3>1. Containing(d) \in SUBSET Ids
      BY DEF Containing, Ready, Broken
    <3>2. x \in Grants
      BY <2>1, <3>1 DEF Grants
    <3> QED
      BY <3>2, SentinelAssumption
  <2>3. grant' = [grant EXCEPT ![d] = x] /\ app = "open" /\ UNCHANGED <<lock, work, tombstone, app, queue>>
    BY <1>1, <2>1 DEF Prepare, vars
  <2>4. \A e \in Documents : grant[e] # NoGrant => grant'[e] # NoGrant
    BY <2>2, <2>3 DEF Inv, OwnTypes
  <2>5. \A w \in Workers : work[w] # Resting => work[w].document \in Documents
    BY DEF Inv, OwnTypes, WorkRecords
  <2>6. Pending' = Pending
    BY <2>3 DEF Pending, Deleted
  <2> QED
    BY <2>3, <2>4, <2>5, <2>6 DEF ProcessFits
<1>2. ASSUME NEW w \in Requests, NEW d \in Documents, Delete(w, d)
      PROVE  ProcessFits'
  <2>1. PICK record : record =
          [step |-> "queued", status |-> "database_deleted", document |-> d,
           scope |-> grant[d].scope, policy |-> grant[d].policy,
           deleted |-> {}, remaining |-> grant[d].scope, post |-> FALSE, todo |-> {}]
    OBVIOUS
  <2>2. /\ app = "open" /\ work[w] = Resting /\ grant[d] # NoGrant /\ Set(w, record)
        /\ w \in Workers /\ w # Launcher /\ UNCHANGED <<lock, grant, tombstone, app, queue>>
    BY <1>2, <2>1, Constants, WorkerAssumption DEF Delete, vars
  <2>3. /\ work'[w] = record /\ record.step = "queued" /\ record.document = d
        /\ \A v \in Workers : v # w => work'[v] = work[v]
    BY <2>1, <2>2 DEF Set, Inv, OwnTypes
  <2>4. Pending' = Pending
    BY <2>2 DEF Pending, Deleted
  <2> QED
    BY <2>2, <2>3, <2>4 DEF ProcessFits
<1> QED
  BY <1>1, <1>2 DEF User

(* The record under which a workflow is resumed.                              *)
Stored(d) ==
    [step |-> "queued", document |-> d, scope |-> tombstone[d].scope,
     policy |-> tombstone[d].policy, status |-> tombstone[d].status,
     deleted |-> tombstone[d].deleted, remaining |-> tombstone[d].remaining,
     post |-> tombstone[d].post, todo |-> {}]

LEMMA ResumeIs ==
  ASSUME Inv, ProcessFits, NEW d \in Documents, Resume(d)
  PROVE  /\ app = "launching" /\ lock = "free" /\ d \in Pending /\ lock' = Launcher
         /\ queue' = queue \ {d} /\ UNCHANGED <<grant, tombstone, result, app>>
         /\ Stored(d) \in WorkRecords /\ Set(Launcher, Continued(Stored(d)))
         /\ Continued(Stored(d)) \in WorkRecords /\ Continued(Stored(d)).step \in Handling
         /\ Continued(Stored(d)).document = d /\ tombstone[d] \in Tombstones
<1>1. /\ app = "launching" /\ lock = "free" /\ d \in queue /\ lock' = Launcher
      /\ queue' = queue \ {d} /\ UNCHANGED <<grant, tombstone, result, app>>
      /\ Set(Launcher, Continued(Stored(d)))
  BY DEF Resume, Stored
<1>2. d \in Pending
  BY <1>1 DEF ProcessFits
<1>3. tombstone[d] \in Tombstones
  BY <1>2 DEF Pending, Deleted, Inv, OwnTypes
<1>4. Stored(d) \in WorkRecords /\ Stored(d).document = d
  BY <1>3 DEF Stored, Tombstones, WorkRecords, Opening
<1> QED
  BY <1>1, <1>2, <1>3, <1>4, ContinuedFits

LEMMA LaunchFits ==
  ASSUME Inv, ProcessFits, Launch
  PROVE  ProcessFits'
<1>1. CASE Open
  <2>1. /\ app = "launching" /\ lock = "free" /\ queue = {} /\ app' = "open"
        /\ UNCHANGED <<grant, work, tombstone, queue, lock>>
    BY <1>1 DEF Open, vars
  <2>2. \A w \in Workers : work[w] = Resting
    BY <2>1, Constants DEF ProcessFits, Handling
  <2> QED
    BY <2>1, <2>2, Constants DEF ProcessFits, Pending, Deleted
<1>2. ASSUME NEW d \in Documents, Resume(d)
      PROVE  ProcessFits'
  <2>1. PICK record : record = Continued(Stored(d))
    OBVIOUS
  <2>2. /\ app = "launching" /\ lock = "free" /\ d \in Pending /\ lock' = Launcher
        /\ queue' = queue \ {d} /\ UNCHANGED <<grant, tombstone, app>> /\ Set(Launcher, record)
        /\ record \in WorkRecords /\ record.step \in Handling /\ record.document = d
    BY <1>2, <2>1, ResumeIs
  <2>3. work'[Launcher] = record /\ \A v \in Workers : v # Launcher => work'[v] = work[v]
    BY <2>2, Constants DEF Set, Inv, OwnTypes
  <2>4. \A v \in Workers : v # Launcher => work[v] = Resting
    BY <2>2, Constants DEF ProcessFits
  <2>5. Pending' = Pending
    BY <2>2 DEF Pending, Deleted
  <2> QED
    BY <2>2, <2>3, <2>4, <2>5, Constants, RestingIs DEF ProcessFits, Handling
<1> QED
  BY <1>1, <1>2 DEF Launch

LEMMA AgainFits ==
  ASSUME StartAgain
  PROVE  ProcessFits'
<1>1. Pending' = Pending
  BY DEF StartAgain, Pending, Deleted
<1> QED
  BY <1>1, Constants DEF StartAgain, Forget, ProcessFits, NoGrants

-----------------------------------------------------------------------------
(* The entries of the database.                                             *)

LEMMA RecordIs ==
  ASSUME Inv, RecordsFit, NEW w \in Workers, Record(w), NEW d, d = work[w].document
  PROVE  /\ d \in Deleted /\ d \in Documents /\ Deleted' = Deleted
         /\ \A e \in Documents : e # d => tombstone'[e] = tombstone[e]
         /\ tombstone'[d].policy = tombstone[d].policy /\ tombstone'[d].post = work[w].post
         /\ tombstone'[d].status # "database_deleted"
         /\ tombstone'[d].status = "completed" => work[w].status = "completed"
         /\ RecordFits(work[w], w = Launcher) /\ work[w] \in WorkRecords /\ work[w].step = "rescan"
<1>1. PICK old : old = work[w]
  OBVIOUS
<1>2. old \in WorkRecords /\ Claims(old) /\ old # Resting /\ old.step = "rescan"
  BY <1>1, Working DEF Record, At
<1>3. d \in Deleted
  BY <1>1, <1>2 DEF Claims, Handling
<1>4. d \in Documents /\ tombstone[d] \in Tombstones
  BY <1>3 DEF Deleted, Inv, OwnTypes
<1>5. PICK record \in {Rescanned(old), Unscanned(w, old)} :
        tombstone' = [tombstone EXCEPT ![record.document] =
          [@ EXCEPT !.status = record.status, !.deleted = record.deleted,
                    !.remaining = record.remaining, !.post = record.post]]
  BY <1>1 DEF Record
<1>6. record \in WorkRecords /\ record.document = d
  BY <1>1, <1>2, <1>5, RecordedFits
<1>7. /\ record.post = old.post
      /\ record.status = old.status \/ record.status = "managed_backups_processed"
  BY <1>2, <1>5 DEF Rescanned, Unscanned, Downgraded, WorkRecords
<1>8. PICK entry : entry = [tombstone[d] EXCEPT !.status = record.status, !.deleted = record.deleted,
                            !.remaining = record.remaining, !.post = record.post]
  OBVIOUS
<1>9. /\ entry \in Tombstones /\ entry.policy = tombstone[d].policy /\ entry.post = record.post
      /\ entry.status = record.status
  BY <1>4, <1>6, <1>8 DEF Tombstones, WorkRecords
<1>10. tombstone' = [tombstone EXCEPT ![d] = entry]
  BY <1>5, <1>6, <1>8
<1>11. tombstone'[d] = entry /\ \A e \in Documents : e # d => tombstone'[e] = tombstone[e]
  BY <1>4, <1>10 DEF Inv, OwnTypes
<1>12. Deleted' = Deleted
  BY <1>3, <1>9, <1>11, SentinelAssumption DEF Deleted
<1>13. RecordFits(old, w = Launcher) /\ old.status # "database_deleted"
  BY <1>1, <1>2 DEF RecordsFit, RecordFits
<1> QED
  BY <1>1, <1>2, <1>3, <1>4, <1>7, <1>9, <1>11, <1>12, <1>13

LEMMA DeletionIs ==
  ASSUME Inv, NEW w \in Workers, DeleteDocument(w), NEW d, d = work[w].document
  PROVE  /\ d \in Documents /\ d \in held /\ d \notin Deleted /\ Deleted' = Deleted \cup {d}
         /\ work[w] \in WorkRecords
         /\ tombstone'[d].policy = work[w].policy /\ tombstone'[d].status = "database_deleted"
         /\ ~tombstone'[d].post
         /\ \A e \in Documents : e # d => tombstone'[e] = tombstone[e] /\ result'[e] = result[e]
         /\ result'[d].policy = work[w].policy
         /\ work[w].scope = Containing(d) /\ held' \subseteq held
<1>1. PICK old : old = work[w]
  OBVIOUS
<1>2. PICK entry : entry = [policy |-> old.policy, scope |-> old.scope,
        status |-> "database_deleted", deleted |-> {}, remaining |-> old.scope, post |-> FALSE]
  OBVIOUS
<1>3. /\ At(w, "scope") /\ old.scope = Containing(d) /\ held' = held \ {d} /\ d \in held
      /\ tombstone' = [tombstone EXCEPT ![d] = entry] /\ result' = [result EXCEPT ![d] = Asked(old)]
  BY <1>1, <1>2 DEF DeleteDocument, ScopeHolds, IsDeletable
<1>4. old \in WorkRecords
  BY <1>1, <1>3, Working DEF At
<1>5. d \in Documents /\ d \notin Deleted
  BY <1>3 DEF Inv, BackupTypes, GoneIsGone
<1>6. entry \in Tombstones /\ entry # NoTombstone
  <2>1. entry \in Tombstones
    BY <1>2, <1>4 DEF WorkRecords, Tombstones, Statuses
  <2> QED
    BY <2>1, SentinelAssumption
<1>7. /\ tombstone'[d] = entry /\ result'[d] = Asked(old)
      /\ \A e \in Documents : e # d => tombstone'[e] = tombstone[e] /\ result'[e] = result[e]
  BY <1>3, <1>5 DEF Inv, OwnTypes
<1>8. Deleted' = Deleted \cup {d}
  BY <1>5, <1>6, <1>7 DEF Deleted
<1>9. Asked(old).policy = old.policy
  BY DEF Asked
<1> QED
  BY <1>1, <1>2, <1>3, <1>4, <1>5, <1>7, <1>8, <1>9

LEMMA EntriesStay ==
  ASSUME EntriesFit, UNCHANGED <<tombstone, result>>
  PROVE  EntriesFit' /\ Deleted' = Deleted /\ Pending' = Pending /\ Owing' = Owing
BY DEF EntriesFit, Deleted, Pending, Owing

LEMMA WorkEntries ==
  ASSUME Inv, EntriesFit, RecordsFit, NEW w \in Workers, Work(w)
  PROVE  EntriesFit'
<1>1. CASE DeleteDocument(w)
  <2>1. PICK d : d = work[w].document
    OBVIOUS
  <2>2. /\ d \in Documents /\ d \notin Deleted /\ Deleted' = Deleted \cup {d}
        /\ tombstone'[d].policy = work[w].policy /\ tombstone'[d].status = "database_deleted"
        /\ ~tombstone'[d].post
        /\ \A e \in Documents : e # d => tombstone'[e] = tombstone[e] /\ result'[e] = result[e]
        /\ result'[d].policy = work[w].policy
    BY <1>1, <2>1, DeletionIs
  <2>3. Deleted \subseteq Documents
    BY DEF Deleted
  <2> QED
    BY <2>2, <2>3 DEF EntriesFit
<1>2. CASE Record(w)
  <2>1. PICK d : d = work[w].document
    OBVIOUS
  <2>2. /\ d \in Deleted /\ d \in Documents /\ Deleted' = Deleted
        /\ \A e \in Documents : e # d => tombstone'[e] = tombstone[e]
        /\ tombstone'[d].policy = tombstone[d].policy
        /\ tombstone'[d].status # "database_deleted"
    BY <1>2, <2>1, RecordIs
  <2>3. Deleted \subseteq Documents /\ result' = result
    BY <1>2 DEF Deleted, Record
  <2> QED
    BY <2>2, <2>3 DEF EntriesFit
<1>3. CASE UNCHANGED <<tombstone, result>>
  BY <1>3, EntriesStay
<1>4. DeleteDocument(w) \/ Record(w) \/ UNCHANGED <<tombstone, result>>
  BY DEF Work, TakeLock, Replay, Refuse, RemoveScoped, EndRemoval, FindPost, StartPost, EndPost,
     RecordFails
<1> QED
  BY <1>1, <1>2, <1>3, <1>4

-----------------------------------------------------------------------------
(* What the backups hold.                                                   *)

LEMMA MakingParts ==
  ASSUME BackupInv, MakeBackup
  PROVE  /\ \A id \in Ids : backup[id].dir = "none" => backup'[id].dir = "none"
         /\ \/ TakeSnapshot /\ making'.id = making.id /\ making.id \in Ids /\ backup'[making.id].documents = held
            \/ /\ making.step \in {"list", "copy"} /\ making'.id = making.id /\ making.id \in Ids
               /\ backup'[making.id].documents = backup[making.id].documents
            \/ making'.step \notin {"list", "copy", "rename"}
<1>1. CASE TakeSnapshot \/ ListMaterials
  <2>1. making.step \in Unpublished
    BY <1>1 DEF TakeSnapshot, ListMaterials, Unpublished
  <2>2. making.id \in Ids /\ backup[making.id].dir = "partial" /\ backup[making.id] \in Directories
    BY <2>1, MakesPartial
  <2>3. CASE TakeSnapshot
    BY <2>2, <2>3, Fields DEF TakeSnapshot, Directories, Goes, Makings
  <2>4. CASE ListMaterials
    BY <2>2, <2>4, Fields DEF ListMaterials, Directories, Goes, Makings
  <2> QED
    BY <1>1, <2>3, <2>4
<1>2. CASE CopyMaterials \/ EndRotation \/ BeginRotation
  <2>1. CASE CopyMaterials
    <3>1. making.id \in Ids
      BY <2>1, MakesPartial DEF CopyMaterials, Unpublished
    <3> QED
      BY <2>1, <3>1, Fields DEF CopyMaterials, Goes, Makings
  <2>2. CASE EndRotation
    BY <2>2, Fields DEF EndRotation, Goes, Makings
  <2>3. CASE BeginRotation
    BY <2>3, Fields DEF BeginRotation, Makings
  <2> QED
    BY <1>2, <2>1, <2>2, <2>3
<1>3. CASE Publish \/ CreateFails
  <2>1. making.step \in Unpublished
    BY <1>3 DEF Publish, CreateFails, Unpublished
  <2>2. making.id \in Ids /\ backup[making.id].dir = "partial"
    BY <2>1, MakesPartial
  <2>3. making'.step \in {"rotate", "failed"}
    BY <1>3, Fields DEF Publish, CreateFails, Goes, Makings
  <2>4. \A id \in Ids : id # making.id => backup'[id] = backup[id]
    BY <1>3, <2>2, Fields DEF Publish, CreateFails
  <2> QED
    BY <2>2, <2>3, <2>4
<1>4. ASSUME NEW id \in Ids, RemoveOld(id)
      PROVE  /\ \A o \in Ids : backup[o].dir = "none" => backup'[o].dir = "none"
             /\ making'.step \in {"remove", "failed"}
  <2>1. PICK S \in SUBSET {id} : Drops(S)
    BY <1>4, RemoveOldKeeps
  <2>2. \A o \in Ids : backup[o].dir = "none" => backup'[o].dir = "none"
    BY <2>1 DEF Drops, There
  <2>3. making'.step \in {"remove", "failed"}
    BY <1>4, Fields DEF RemoveOld, Makings
  <2> QED
    BY <2>2, <2>3
<1> QED
  BY <1>1, <1>2, <1>3, <1>4 DEF MakeBackup

(* As long as a step adds no complete backup.                                *)
LEMMA ShrinkStays ==
  ASSUME BackupInv, SnapshotsShrink, held' \subseteq held,
         ReadyStays \/ \E S : Drops(S),
         \/ making'.step \notin {"list", "copy", "rename"}
         \/ held' \subseteq backup'[making'.id].documents
  PROVE  SnapshotsShrink'
<1>1. /\ Ready' \subseteq Ready /\ \A id \in Ready' : backup'[id] = backup[id]
      /\ \A id \in Ready' : older'[id] \subseteq older[id]
  <2>1. CASE ReadyStays
    BY <2>1 DEF ReadyStays
  <2>2. ASSUME NEW S, Drops(S)
        PROVE  /\ Ready' \subseteq Ready /\ \A id \in Ready' : backup'[id] = backup[id]
               /\ \A id \in Ready' : older'[id] \subseteq older[id]
    <3>1. Ready' = Ready \ S
      BY <2>2, Dropped
    <3> QED
      BY <2>2, <3>1 DEF Drops, Ready
  <2> QED
    BY <2>1, <2>2
<1> QED
  BY <1>1 DEF SnapshotsShrink

LEMMA PublishShrinks ==
  ASSUME Inv, BackupInv, SnapshotsShrink, Publish
  PROVE  SnapshotsShrink'
<1>1. /\ making.step = "rename" /\ Goes("rotate") /\ older' = [older EXCEPT ![making.id] = Ready]
      /\ held' = held
  BY DEF Publish, data
<1>2. /\ making.id \in Ids \ Ready /\ Ready' = Ready \cup {making.id}
      /\ \A id \in Ids : backup'[id].documents = backup[id].documents
  BY PublishKeeps
<1>3. /\ backup[making.id].documents \subseteq held /\ held \subseteq backup[making.id].documents
  BY <1>1 DEF Inv, MakingFits, Unpublished, SnapshotsShrink
<1>4. making'.step = "rotate"
  BY <1>1, Fields DEF Goes, Makings
<1>5. Ready \subseteq Ids
  BY DEF Ready
<1>6. \A id \in Ready' : held' \subseteq backup'[id].documents
  BY <1>1, <1>2, <1>3, <1>5 DEF SnapshotsShrink
<1>7. older'[making.id] = Ready /\ \A o \in Ids : o # making.id => older'[o] = older[o]
  BY <1>1, <1>2, Fields
<1>8. ASSUME NEW a \in Ready', NEW b \in Ready', a \in older'[b]
      PROVE  backup'[b].documents \subseteq backup'[a].documents
  <2>1. CASE b = making.id
    BY <1>2, <1>3, <1>5, <1>7, <1>8, <2>1 DEF SnapshotsShrink
  <2>2. CASE b # making.id
    <3>1. b \in Ready /\ a \in older[b]
      BY <1>2, <1>5, <1>7, <1>8, <2>2
    <3>2. a \in Ready
      BY <3>1 DEF BackupInv, Ordered, Ready
    <3> QED
      BY <1>2, <1>5, <3>1, <3>2 DEF SnapshotsShrink
  <2> QED
    BY <2>1, <2>2
<1> QED
  BY <1>4, <1>6, <1>8 DEF SnapshotsShrink

LEMMA OutsideHolds ==
  ASSUME Inv, BackupInv, SnapshotsShrink, OwnPoints, BackupStep \/ Surroundings
  PROVE  SnapshotsShrink' /\ OwnPoints'
<1>1. /\ UNCHANGED own /\ held' = held
      /\ \/ ReadyStays \/ Publish \/ \E S : Drops(S)
  BY OutsideKeeps
<1>2. Deleted' = Deleted
  BY <1>1 DEF own, Deleted
<1>3. CASE MakeBackup
  <2>1. \A id \in Ids : backup[id].dir = "none" => backup'[id].dir = "none"
    BY <1>3, MakingParts
  <2>2. OwnPoints'
    BY <1>2, <2>1, Constants DEF OwnPoints
  <2>3. SnapshotsShrink'
    <3>1. CASE Publish
      BY <3>1, PublishShrinks
    <3>2. CASE ~Publish
      <4>1. \/ making'.step \notin {"list", "copy", "rename"}
            \/ held' \subseteq backup'[making'.id].documents
        <5>1. CASE TakeSnapshot /\ making'.id = making.id /\ backup'[making.id].documents = held
          BY <1>1, <5>1
        <5>2. CASE /\ making.step \in {"list", "copy"} /\ making'.id = making.id
                   /\ backup'[making.id].documents = backup[making.id].documents
          BY <1>1, <5>2 DEF SnapshotsShrink
        <5> QED
          BY <1>3, <5>1, <5>2, MakingParts
      <4> QED
        BY <1>1, <3>2, <4>1, ShrinkStays
    <3> QED
      BY <3>1, <3>2
  <2> QED
    BY <2>2, <2>3
<1>4. CASE EndLocal
  <2>1. backup' = backup /\ making' = Idle /\ older' = older
    BY <1>4 DEF EndLocal, GiveBack
  <2>2. ReadyStays
    BY <1>4, EndLocalKeeps
  <2> QED
    BY <1>1, <1>2, <2>1, <2>2, IdleIs, ShrinkStays DEF OwnPoints
<1>5. CASE StartLocal
  <2>1. numbered \in Nat /\ Start(numbered + 1) /\ numbered < MaxBackups
    BY <1>5, Fields DEF StartLocal
  <2>2. numbered + 1 \in 1..MaxBackups /\ numbered + 1 \notin Documents
    BY <2>1, IdsAre, KeyAssumption, BackupAssumption
  <2>3. \A d \in Documents : backup'[d] = backup[d]
    BY <2>1, <2>2, Fields, Constants DEF Start
  <2>4. making'.step = "snapshot"
    BY <2>1 DEF Start, Idle
  <2>5. ReadyStays
    BY <1>5, StartLocalKeeps
  <2> QED
    BY <1>1, <1>2, <2>3, <2>4, <2>5, ShrinkStays DEF OwnPoints
<1>6. CASE NextWeek \/ \E m \in Materials : TakeBack(m)
  <2>1. UNCHANGED <<backup, older, making>>
    BY <1>6 DEF NextWeek, TakeBack, backups
  <2>2. ReadyStays
    BY <2>1, Fields DEF ReadyStays, Ready
  <2> QED
    BY <1>1, <1>2, <2>1, <2>2, ShrinkStays DEF OwnPoints, SnapshotsShrink
<1>7. ASSUME NEW id \in Ids, DeleteManaged(id)
      PROVE  SnapshotsShrink' /\ OwnPoints'
  <2>1. PICK S \in SUBSET {id} : Drops(S)
    BY <1>7, DeleteManagedKeeps
  <2>2. \A o \in Ids : backup[o].dir = "none" => backup'[o].dir = "none"
    BY <2>1 DEF Drops, There
  <2>3. making' = making
    BY <1>7 DEF DeleteManaged
  <2>4. making.step \in {"list", "copy", "rename"} => backup'[making.id] = backup[making.id]
    BY <2>1, MakesPartial DEF Drops, There, Unpublished
  <2> QED
    BY <1>1, <1>2, <2>1, <2>2, <2>3, <2>4, Constants, ShrinkStays DEF OwnPoints, SnapshotsShrink
<1> QED
  BY <1>3, <1>4, <1>5, <1>6, <1>7 DEF BackupStep, Surroundings, Environment

LEMMA WorkHolds ==
  ASSUME Inv, BackupInv, SnapshotsShrink, OwnPoints, RecordsFit, NEW w \in Workers, Work(w)
  PROVE  SnapshotsShrink' /\ OwnPoints'
<1>1. Deleted \subseteq Deleted' /\ held' \subseteq held
  <2>1. CASE DeleteDocument(w)
    BY <2>1, DeletionIs
  <2>2. CASE Record(w)
    BY <2>2, RecordIs DEF Record, data
  <2>3. CASE UNCHANGED tombstone /\ held' = held
    BY <2>3 DEF Deleted
  <2> QED
    BY <2>1, <2>2, <2>3 DEF Work, TakeLock, Replay, Refuse, RemoveScoped, EndRemoval, FindPost,
       StartPost, EndPost, RecordFails, vars, data
<1>2. CASE \/ TakeLock(w) \/ DeleteDocument(w) \/ Replay(w) \/ Refuse(w) \/ EndRemoval(w)
           \/ FindPost(w) \/ Record(w) \/ RecordFails(w)
  <2>1. making.step = "idle" /\ UNCHANGED <<backup, making>> /\ ReadyStays
    BY <1>2, QuietWork DEF backups
  <2> QED
    BY <1>1, <2>1, ShrinkStays DEF OwnPoints
<1>3. ASSUME NEW id \in Ids, RemoveScoped(w, id)
      PROVE  SnapshotsShrink' /\ OwnPoints'
  <2>1. making' = making /\ making.step = "idle"
    BY <1>3, RemovalDrops DEF RemoveScoped
  <2>2. PICK S : Drops(S)
    BY <1>3, RemovalDrops
  <2>3. \A o \in Ids : backup[o].dir = "none" => backup'[o].dir = "none"
    BY <2>2 DEF Drops, There
  <2> QED
    BY <1>1, <2>1, <2>2, <2>3, Constants, ShrinkStays DEF OwnPoints
<1>4. CASE StartPost(w)
  <2>1. PICK d : d = work[w].document
    OBVIOUS
  <2>2. d \in Deleted /\ d \in Documents
    BY <1>4, <2>1, Working, DocumentOf DEF StartPost, At, Claims, Handling
  <2>3. Start(d)
    BY <1>4, <2>1 DEF StartPost
  <2>4. making'.step = "snapshot" /\ \A e \in Documents : e # d => backup'[e] = backup[e]
    BY <2>2, <2>3, Fields, Constants DEF Start, Idle
  <2>5. ReadyStays
    BY <1>4, PostStarts
  <2> QED
    BY <1>1, <2>2, <2>4, <2>5, ShrinkStays DEF OwnPoints
<1>5. CASE EndPost(w)
  <2>1. making' = Idle /\ backup' = backup /\ older' = older
    BY <1>5 DEF EndPost
  <2>2. ReadyStays
    BY <2>1, Fields DEF ReadyStays, Ready
  <2> QED
    BY <1>1, <2>1, <2>2, IdleIs, ShrinkStays DEF OwnPoints
<1> QED
  BY <1>2, <1>3, <1>4, <1>5 DEF Work

-----------------------------------------------------------------------------
(* What the workers hold in memory.                                         *)

LEMMA WaitingFits ==
  ASSUME NEW record, NEW resumed, record.step = "queued", RecordFits(record, resumed)
  PROVE  RecordFits(record, resumed)'
BY DEF RecordFits, Opening, Handling

(* Who does not hold the lock waits.                                        *)
LEMMA OthersWait ==
  ASSUME ProcessFits, RecordsFit, NEW w \in Workers, work[w] # Resting, lock # w
  PROVE  work[w].step = "queued" /\ RecordFits(work[w], w = Launcher)
BY DEF ProcessFits, RecordsFit

LEMMA UserRecords ==
  ASSUME Inv, BackupInv, ProcessFits, EntriesFit, RecordsFit, User
  PROVE  RecordsFit'
<1>1. UNCHANGED vars /\ UNCHANGED <<tombstone, result>>
  BY DEF User, Prepare, Delete
<1>2. /\ Ready' = Ready /\ Owing' = Owing
      /\ UNCHANGED <<backup, making, userDeletes, tombstone>>
  BY <1>1, EntriesStay DEF vars, Ready
<1>3. \A record, resumed : RecordFits(record, resumed) => RecordFits(record, resumed)'
  BY <1>2 DEF RecordFits
<1>4. CASE work' = work
  BY <1>3, <1>4 DEF RecordsFit
<1>5. ASSUME NEW w \in Requests, NEW d \in Documents, Delete(w, d)
      PROVE  RecordsFit'
  <2>1. PICK record : record =
          [step |-> "queued", status |-> "database_deleted", document |-> d,
           scope |-> grant[d].scope, policy |-> grant[d].policy,
           deleted |-> {}, remaining |-> grant[d].scope, post |-> FALSE, todo |-> {}]
    OBVIOUS
  <2>2. Set(w, record) /\ w \in Workers
    BY <1>5, <2>1, Constants DEF Delete
  <2>3. work'[w] = record /\ \A v \in Workers : v # w => work'[v] = work[v]
    BY <2>2 DEF Set, Inv, OwnTypes
  <2>4. RecordFits(record, w = Launcher)'
    BY <2>1 DEF RecordFits, Opening, Handling
  <2> QED
    BY <1>3, <2>3, <2>4 DEF RecordsFit
<1> QED
  BY <1>4, <1>5 DEF User, Prepare

(* The step of a record under which its worker makes no backup.               *)
LEMMA OutsideRecords ==
  ASSUME Inv, BackupInv, ProcessFits, RecordsFit, EntriesFit, BackupStep \/ Surroundings
  PROVE  RecordsFit'
<1>1. UNCHANGED own /\ Owing' = Owing /\ tombstone' = tombstone /\ work' = work
  BY OutsideKeeps, EntriesStay DEF own
<1> SUFFICES ASSUME NEW w \in Workers, work[w] # Resting
             PROVE  RecordFits(work[w], w = Launcher)'
  BY <1>1 DEF RecordsFit
<1>2. CASE lock # w
  BY <1>1, <1>2, OthersWait, WaitingFits
<1>3. CASE lock = w
  <2>1. PICK record : record = work[w]
    OBVIOUS
  <2>2. PICK resumed : resumed = (w = Launcher)
    OBVIOUS
  <2>3. RecordFits(record, resumed)
    BY <2>1, <2>2 DEF RecordsFit
  <2>4. CASE making.step # "idle"
    <3>1. record.step = "making"
      BY <1>3, <2>1, <2>4, MakesIn, Constants
    <3>2. making'.step # "idle" /\ making'.id = making.id
      BY <1>3, <2>4, OutsideKeeps, Constants
    <3> QED
      BY <1>1, <2>1, <2>2, <2>3, <2>4, <3>1, <3>2 DEF RecordFits, Opening, Handling
  <2>5. CASE making.step = "idle"
    <3>1. making' = making /\ lock' = lock
      BY <1>3, <2>5, OutsideKeeps, Constants
    <3>2. /\ Ready' \subseteq Ready /\ \A id \in Ready' : backup'[id] = backup[id]
          /\ userDeletes' = 0 => Ready' = Ready /\ userDeletes = 0
      <4>1. CASE ReadyStays /\ userDeletes' = userDeletes
        BY <4>1 DEF ReadyStays
      <4>2. ASSUME NEW id \in Ids, DeleteManaged(id), NEW S, Drops(S)
            PROVE  /\ Ready' \subseteq Ready /\ \A o \in Ready' : backup'[o] = backup[o]
                   /\ userDeletes' # 0
        <5>1. Ready' = Ready \ S /\ userDeletes' = userDeletes + 1 /\ userDeletes \in Nat
          BY <4>2, Dropped, Fields DEF DeleteManaged
        <5> QED
          BY <4>2, <5>1 DEF Drops, Ready
      <4>3. ~Publish /\ \A id \in Ids : ~RemoveOld(id)
        BY <2>5 DEF Publish, RemoveOld
      <4> QED
        BY <4>1, <4>2, <4>3, OutsideKeeps
    <3> QED
      BY <1>1, <2>1, <2>2, <2>3, <2>5, <3>1, <3>2 DEF RecordFits
  <2> QED
    BY <2>4, <2>5
<1> QED
  BY <1>2, <1>3

LEMMA ContinuedIs ==
  ASSUME NEW record \in WorkRecords, NEW next, next = Continued(record)
  PROVE  /\ next.policy = record.policy /\ next.post = record.post /\ next.document = record.document
         /\ \/ record.policy = Keeps /\ next.step = "rescan" /\ next.status = "completed"
            \/ /\ record.policy # Keeps /\ record.status = "database_deleted"
               /\ next.step = "remove" /\ next.todo = record.scope
            \/ /\ record.policy # Keeps /\ record.status # "database_deleted" /\ ~record.post
               /\ next.step = "post" /\ next.status = record.status
            \/ /\ record.policy # Keeps /\ record.status # "database_deleted" /\ record.post
               /\ next.step = "rescan" /\ next.status = "completed"
BY DEF Continued, WorkRecords, Handling, Opening, Statuses

(* A request goes on with the backups of the dialog, which all hold the       *)
(* source or cannot be inspected.                                            *)
LEMMA RequestFits ==
  ASSUME Inv, BackupInv, ProcessFits, RecordsFit, NEW w \in Workers, At(w, "scope"),
         work[w].scope = Containing(work[w].document),
         work[w].document \in Documents,
         UNCHANGED <<backup, making>>, NEW next, next = Continued(work[w]),
         tombstone'[work[w].document].policy = work[w].policy
  PROVE  w # Launcher /\ RecordFits(next, FALSE)'
<1>1. work[w] \in WorkRecords /\ work[w] # Resting /\ work[w].step = "scope"
  BY Working DEF At
<1>2. w # Launcher /\ work[w].status = "database_deleted" /\ ~work[w].post
  BY <1>1 DEF ProcessFits, RecordsFit, RecordFits, Handling, Opening
<1>3. PICK old : old = work[w]
  OBVIOUS
<1>4. /\ next.policy = old.policy /\ next.post = old.post /\ next.document = old.document
      /\ \/ old.policy = Keeps /\ next.step = "rescan" /\ next.status = "completed"
         \/ old.policy # Keeps /\ next.step = "remove" /\ next.todo = old.scope
  BY <1>1, <1>2, <1>3, ContinuedIs
<1>5. \A id \in old.scope \cap Ready' : old.document \in backup'[id].documents
  BY <1>3 DEF Containing, Ready, Broken
<1>6. tombstone'[next.document].policy = next.policy
  BY <1>3, <1>4
<1> QED
  BY <1>2, <1>3, <1>4, <1>5, <1>6 DEF RecordFits, Opening, Handling

(* Every turn leaves a record that fits.                                     *)
LEMMA TurnRecord ==
  ASSUME Inv, BackupInv, ProcessFits, EntriesFit, RecordsFit, NEW w \in Workers, Work(w),
         NEW after, after = work'[w], after # Resting
  PROVE  RecordFits(after, w = Launcher)'
<1>1. PICK old : old = work[w]
  OBVIOUS
<1>2. PICK resumed : resumed = (w = Launcher)
  OBVIOUS
<1>3. work[w] # Resting
  BY WorkTurn
<1>4. RecordFits(old, resumed) /\ old \in WorkRecords
  BY <1>1, <1>2, <1>3 DEF RecordsFit, Inv, OwnTypes
<1>5. CASE DeleteDocument(w)
  <2>1. PICK next : next = Continued(old)
    OBVIOUS
  <2>2. /\ At(w, "scope") /\ UNCHANGED <<backup, making>> /\ old.document \in Documents
        /\ old.scope = Containing(old.document) /\ tombstone'[old.document].policy = old.policy
    BY <1>1, <1>5, DeletionIs DEF DeleteDocument, backups
  <2>3. work'[w] = next
    BY <1>1, <1>5, <2>1 DEF DeleteDocument, Set, Inv, OwnTypes
  <2>4. w # Launcher /\ RecordFits(next, FALSE)'
    BY <1>1, <2>1, <2>2, RequestFits
  <2> QED
    BY <2>3, <2>4 DEF RecordFits
<1>6. CASE Replay(w)
  <2>1. PICK next : next = Continued(old)
    OBVIOUS
  <2>2. /\ At(w, "scope") /\ UNCHANGED <<backup, making, tombstone>> /\ old.document \in Documents
        /\ old.scope = Containing(old.document) /\ result[old.document] = Asked(old)
    BY <1>1, <1>4, <1>6 DEF Replay, ScopeHolds, vars, WorkRecords
  <2>3. Asked(old) \in Results /\ Asked(old).policy = old.policy
    BY <1>4 DEF Asked, Results, WorkRecords
  <2>4. tombstone'[old.document].policy = old.policy
    BY <2>2, <2>3, SentinelAssumption DEF EntriesFit
  <2>5. work'[w] = next
    BY <1>1, <1>6, <2>1 DEF Replay, Set, Inv, OwnTypes
  <2>6. w # Launcher /\ RecordFits(next, FALSE)'
    BY <1>1, <2>1, <2>2, <2>4, RequestFits
  <2> QED
    BY <2>5, <2>6 DEF RecordFits
<1>7. CASE Refuse(w) \/ Record(w) \/ RecordFails(w)
  BY <1>7, RestTurns DEF Turn, Set, Inv, OwnTypes
<1>8. CASE TakeLock(w)
  <2>1. PICK record : record = [old EXCEPT !.step = "scope"]
    OBVIOUS
  <2>2. work'[w] = record /\ old.step = "queued"
    BY <1>1, <1>8, <2>1 DEF TakeLock, Inv, OwnTypes
  <2>3. record.step = "scope" /\ record.status = old.status /\ record.post = old.post
    BY <1>4, <2>1 DEF WorkRecords
  <2> QED
    BY <1>4, <2>2, <2>3 DEF RecordFits, Opening, Handling
<1>9. ASSUME NEW id \in Ids, RemoveScoped(w, id)
      PROVE  RecordFits(after, resumed)'
  <2>1. PICK record \in {[old EXCEPT !.todo = @ \ {id}, !.deleted = @ \cup {id}],
                         [old EXCEPT !.todo = @ \ {id}]} : work'[w] = record
    BY <1>1, <1>9 DEF RemoveScoped, Inv, OwnTypes
  <2>2. /\ record.step = "remove" /\ old.step = "remove" /\ record.document = old.document
        /\ record.policy = old.policy /\ record.post = old.post /\ record.todo \subseteq old.todo
    <3>1. old.step = "remove"
      BY <1>1, <1>9 DEF RemoveScoped, At
    <3>2. CASE record = [old EXCEPT !.todo = @ \ {id}, !.deleted = @ \cup {id}]
      BY <1>4, <3>1, <3>2 DEF WorkRecords
    <3>3. CASE record = [old EXCEPT !.todo = @ \ {id}]
      BY <1>4, <3>1, <3>3 DEF WorkRecords
    <3> QED
      BY <2>1, <3>2, <3>3
  <2>3. UNCHANGED <<tombstone, result>> /\ Owing' = Owing
    BY <1>9, EntriesStay DEF RemoveScoped
  <2>4. PICK S : Drops(S)
    BY <1>9, RemovalDrops
  <2>5. Ready' \subseteq Ready /\ \A o \in Ready' : backup'[o] = backup[o]
    BY <2>4, Dropped DEF Drops, Ready
  <2> QED
    BY <1>4, <2>1, <2>2, <2>3, <2>5 DEF RecordFits, Opening, Handling
<1>10. CASE EndRemoval(w)
  <2>1. PICK record : record =
          [old EXCEPT !.step = "post", !.status = "managed_backups_processed",
                      !.remaining = old.scope \ old.deleted]
    OBVIOUS
  <2>2. work'[w] = record
    BY <1>1, <1>10, <2>1 DEF EndRemoval, Inv, OwnTypes
  <2>3. /\ record.step = "post" /\ old.step = "remove" /\ record.document = old.document
        /\ record.policy = old.policy /\ record.post = old.post
        /\ record.status = "managed_backups_processed"
    BY <1>1, <1>4, <1>10, <2>1 DEF WorkRecords, EndRemoval, At
  <2>4. UNCHANGED <<tombstone, result>> /\ Owing' = Owing
    BY <1>10, EntriesStay DEF EndRemoval
  <2> QED
    BY <1>2, <1>4, <2>2, <2>3, <2>4 DEF RecordFits, Opening, Handling
<1>11. CASE FindPost(w) \/ EndPost(w)
  <2>1. /\ old.step \in {"post", "making"}
        /\ UNCHANGED <<tombstone, result>> /\ Owing' = Owing
        /\ Ready' = Ready /\ userDeletes' = userDeletes
    BY <1>1, <1>11, EntriesStay DEF FindPost, EndPost, At, vars, bounds, Ready
  <2>2. CASE PostMade(w)
    <3>1. PICK record : record = [old EXCEPT !.step = "rescan", !.post = TRUE, !.status = "completed"]
      OBVIOUS
    <3>2. work'[w] = record
      BY <1>1, <1>4, <2>2, <3>1 DEF PostMade, Inv, OwnTypes, WorkRecords
    <3>3. /\ record.step = "rescan" /\ record.document = old.document
          /\ record.policy = old.policy /\ record.post /\ record.status = "completed"
      BY <1>4, <3>1 DEF WorkRecords
    <3>4. userDeletes = 0 => old.document \in Ready
      <4>1. CASE FindPost(w)
        <5>1. old.document \in Ready \/ PostMissing(w)
          BY <1>1, <4>1 DEF FindPost
        <5>2. PostMissing(w) => FALSE
          BY <1>1, <1>3, <1>4, <2>1, <2>2, <3>2, <3>3 DEF PostMissing, PostMade, Inv, OwnTypes, WorkRecords, RecordFits
        <5> QED
          BY <5>1, <5>2
      <4>2. CASE EndPost(w)
        <5>1. making.step = "made" \/ PostMissing(w)
          BY <4>2 DEF EndPost
        <5>2. PostMissing(w) => FALSE
          BY <1>1, <1>3, <1>4, <2>1, <2>2, <3>2, <3>3 DEF PostMissing, PostMade, Inv, OwnTypes, WorkRecords, RecordFits
        <5>3. old.step = "making"
          BY <1>1, <4>2 DEF EndPost, At
        <5> QED
          BY <1>4, <5>1, <5>2, <5>3, Fields DEF RecordFits, BackupInv, MakerFits
      <4> QED
        BY <1>11, <4>1, <4>2
    <3> QED
      BY <1>4, <2>1, <3>2, <3>3, <3>4 DEF RecordFits, Opening, Handling
  <2>3. CASE PostMissing(w)
    <3>1. PICK record : record = [old EXCEPT !.step = "rescan"]
      OBVIOUS
    <3>2. work'[w] = record
      BY <1>1, <1>4, <2>3, <3>1 DEF PostMissing, Inv, OwnTypes, WorkRecords
    <3>3. /\ record.step = "rescan" /\ record.document = old.document
          /\ record.policy = old.policy /\ record.post = old.post /\ record.status = old.status
      BY <1>4, <3>1 DEF WorkRecords
    <3> QED
      BY <1>4, <2>1, <3>2, <3>3 DEF RecordFits, Opening, Handling
  <2> QED
    BY <1>11, <2>2, <2>3 DEF FindPost, EndPost
<1>12. CASE StartPost(w)
  <2>1. PICK record : record = [old EXCEPT !.step = "making"]
    OBVIOUS
  <2>2. work'[w] = record
    BY <1>1, <1>4, <1>12, <2>1 DEF StartPost, Inv, OwnTypes, WorkRecords
  <2>3. /\ record.step = "making" /\ old.step = "post" /\ record.document = old.document
        /\ record.policy = old.policy /\ record.post = old.post /\ record.status = old.status
    BY <1>1, <1>4, <1>12, <2>1 DEF WorkRecords, StartPost, At
  <2>4. UNCHANGED <<tombstone, result>> /\ Owing' = Owing /\ making'.id = old.document
    BY <1>1, <1>12, EntriesStay DEF StartPost, Start, Idle
  <2> QED
    BY <1>2, <1>4, <2>2, <2>3, <2>4 DEF RecordFits, Opening, Handling
<1> QED
  BY <1>2, <1>5, <1>6, <1>7, <1>8, <1>9, <1>10, <1>11, <1>12 DEF Work

LEMMA WorkRecordsFit ==
  ASSUME Inv, BackupInv, ProcessFits, EntriesFit, RecordsFit, NEW w \in Workers, Work(w)
  PROVE  RecordsFit'
<1> SUFFICES ASSUME NEW v \in Workers, NEW after, after = work'[v], after # Resting
             PROVE  RecordFits(after, v = Launcher)'
  BY DEF RecordsFit, RecordFits
<1>1. CASE v = w
  BY <1>1, TurnRecord
<1>2. CASE v # w
  <2>1. PICK record : Turn(w, record)
    BY WorkTurn
  <2>2. work'[v] = work[v]
    BY <1>2, <2>1 DEF Turn, Set, Inv, OwnTypes
  <2>3. lock # v
    BY <1>2, WorkTurn, Constants
  <2>4. after.step = "queued" /\ RecordFits(after, v = Launcher)
    BY <2>2, <2>3, OthersWait
  <2> QED
    BY <2>4, WaitingFits
<1> QED
  BY <1>1, <1>2

LEMMA LaunchRecords ==
  ASSUME Inv, BackupInv, ProcessFits, EntriesFit, RecordsFit, Launch
  PROVE  RecordsFit'
<1>1. CASE Open
  <2>1. app = "launching" /\ lock = "free" /\ work' = work
    BY <1>1 DEF Open
  <2>2. \A w \in Workers : work[w] = Resting
    BY <2>1, Constants DEF ProcessFits, Handling
  <2> QED
    BY <2>1, <2>2 DEF RecordsFit
<1>2. ASSUME NEW d \in Documents, Resume(d)
      PROVE  RecordsFit'
  <2>1. PICK next : next = Continued(Stored(d))
    OBVIOUS
  <2>2. PICK old : old = Stored(d)
    OBVIOUS
  <2>3. /\ app = "launching" /\ lock = "free" /\ d \in Pending
        /\ UNCHANGED <<tombstone, result>> /\ old \in WorkRecords /\ Set(Launcher, next)
    BY <1>2, <2>1, <2>2, ResumeIs
  <2>4. work'[Launcher] = next /\ \A v \in Workers : v # Launcher => work'[v] = work[v]
    BY <2>3, Constants DEF Set, Inv, OwnTypes
  <2>5. \A v \in Workers : v # Launcher => work[v] = Resting
    BY <2>3, Constants DEF ProcessFits
  <2>6. /\ old.document = d /\ old.policy = tombstone[d].policy
        /\ old.status = tombstone[d].status /\ old.post = tombstone[d].post
    BY <2>2 DEF Stored
  <2>7. /\ next.policy = old.policy /\ next.post = old.post /\ next.document = old.document
        /\ \/ old.policy = Keeps /\ next.step = "rescan" /\ next.status = "completed"
           \/ /\ old.policy # Keeps /\ old.status = "database_deleted"
              /\ next.step = "remove" /\ next.todo = old.scope
           \/ /\ old.policy # Keeps /\ old.status # "database_deleted" /\ ~old.post
              /\ next.step = "post" /\ next.status = old.status
           \/ /\ old.policy # Keeps /\ old.status # "database_deleted" /\ old.post
              /\ next.step = "rescan" /\ next.status = "completed"
    BY <2>1, <2>2, <2>3, ContinuedIs
  <2>8. Owing' = Owing /\ Pending' = Pending /\ Deleted' = Deleted
    BY <2>3, EntriesStay
  <2>9. old.status = "database_deleted" => ~old.post
    BY <2>3, <2>6 DEF EntriesFit, Pending
  <2>10. old.status \in Statuses \ {"completed"}
    BY <2>3, <2>6 DEF WorkRecords, Pending
  <2>11. old.policy # Keeps /\ ~old.post <=> d \in Owing /\ old.policy # Keeps
    BY <2>3, <2>6 DEF Owing
  <2>12. RecordFits(next, TRUE)'
    BY <2>3, <2>6, <2>7, <2>8, <2>9, <2>10, <2>11 DEF RecordFits, Opening, Handling, Statuses
  <2> QED
    BY <2>4, <2>5, <2>12 DEF RecordsFit
<1> QED
  BY <1>1, <1>2 DEF Launch

-----------------------------------------------------------------------------
LEMMA QuietHolds ==
  ASSUME BackupInv, SnapshotsShrink, OwnPoints, ReadyStays, UNCHANGED <<backup, making, held, tombstone>>
  PROVE  SnapshotsShrink' /\ OwnPoints'
<1>1. Deleted' = Deleted
  BY DEF Deleted
<1>2. \/ making'.step \notin {"list", "copy", "rename"}
      \/ held' \subseteq backup'[making'.id].documents
  BY DEF SnapshotsShrink
<1> QED
  BY <1>1, <1>2, ShrinkStays DEF OwnPoints

LEMMA ProcessHolds ==
  ASSUME Inv, BackupInv, SnapshotsShrink, OwnPoints, Quit \/ DeletionCrash \/ LaunchFails
  PROVE  SnapshotsShrink' /\ OwnPoints'
<1>1. StartAgain /\ \E S : Drops(S)
  BY ProcessDrops
<1>2. Deleted' = Deleted /\ held' = held /\ making'.step = "idle"
  BY <1>1 DEF StartAgain, Deleted, data, Forget, Idle
<1>3. \A id \in Ids : backup[id].dir = "none" => backup'[id].dir = "none"
  BY <1>1 DEF Drops, There
<1>4. OwnPoints'
  BY <1>2, <1>3, Constants DEF OwnPoints
<1>5. SnapshotsShrink'
  BY <1>1, <1>2, ShrinkStays
<1> QED
  BY <1>4, <1>5

-----------------------------------------------------------------------------
(* A complete backup, or a workflow that makes one.                          *)

LEMMA OwedStay ==
  ASSUME PointOwed, CleanOwed, ReadyStays, userDeletes' = userDeletes,
         Owing \subseteq Owing', Repeatable' \subseteq Repeatable,
         \A d \in Deleted' : tombstone'[d].policy # Keeps => d \in Deleted /\ tombstone[d].policy # Keeps
  PROVE  PointOwed' /\ CleanOwed'
<1>1. Ready' = Ready /\ \A id \in Ready : backup'[id] = backup[id]
  BY DEF ReadyStays
<1>2. PointOwed'
  BY <1>1 DEF PointOwed
<1>3. CleanOwed'
  BY <1>1 DEF CleanOwed, CleanOne
<1> QED
  BY <1>2, <1>3

LEMMA SameOwed ==
  ASSUME PointOwed, CleanOwed, EntriesFit, ReadyStays, userDeletes' = userDeletes,
         UNCHANGED <<tombstone, result>>, Repeatable' \subseteq Repeatable
  PROVE  PointOwed' /\ CleanOwed'
<1>1. Deleted' = Deleted /\ Owing' = Owing
  BY EntriesStay
<1> QED
  BY <1>1, OwedStay

LEMMA UserOwed ==
  ASSUME Inv, BackupInv, PointOwed, CleanOwed, EntriesFit, User
  PROVE  PointOwed' /\ CleanOwed'
<1>1. UNCHANGED vars /\ UNCHANGED <<tombstone, result>>
  BY DEF User, Prepare, Delete
<1>2. ReadyStays /\ userDeletes' = userDeletes
  BY <1>1, UserStays
<1>3. Deleted' = Deleted /\ Deleted \subseteq Documents
  BY <1>1, EntriesStay DEF Deleted
<1>4. CASE grant' = grant
  <2>1. Repeatable' = Repeatable
    BY <1>1, <1>3, <1>4 DEF Repeatable
  <2> QED
    BY <1>1, <1>2, <2>1, SameOwed
<1>5. ASSUME NEW d \in Documents, NEW policy \in Policies, Prepare(d, policy)
      PROVE  PointOwed' /\ CleanOwed'
  <2>1. d \in held \/ grant[d] # NoGrant
    BY <1>5 DEF Prepare, Offered
  <2>2. d \in Deleted => grant[d] # NoGrant
    BY <2>1 DEF Inv, GoneIsGone
  <2>3. \A e \in Documents : e # d => grant'[e] = grant[e]
    BY <1>5 DEF Prepare, Inv, OwnTypes
  <2>4. Repeatable' \subseteq Repeatable
    BY <1>1, <1>3, <2>2, <2>3 DEF Repeatable
  <2> QED
    BY <1>1, <1>2, <2>4, SameOwed
<1> QED
  BY <1>4, <1>5 DEF User, Delete

LEMMA LaunchOwed ==
  ASSUME Inv, BackupInv, PointOwed, CleanOwed, EntriesFit, Launch
  PROVE  PointOwed' /\ CleanOwed'
<1>1. ReadyStays /\ userDeletes' = userDeletes
  BY LaunchStays
<1>2. UNCHANGED <<tombstone, result, grant>>
  BY DEF Launch, Open, Resume
<1>3. Repeatable' = Repeatable
  BY <1>2, EntriesStay DEF Repeatable
<1> QED
  BY <1>1, <1>2, <1>3, SameOwed

(* A backup is published: it holds no deleted source.                        *)
LEMMA PublishOwed ==
  ASSUME Inv, BackupInv, PointOwed, CleanOwed, UNCHANGED own, Publish
  PROVE  PointOwed' /\ CleanOwed'
<1>1. /\ making.id \in Ready'
      /\ backup'[making.id].documents = backup[making.id].documents
  BY PublishKeeps
<1>2. backup[making.id].documents \subseteq held
  BY DEF Publish, Inv, MakingFits, Unpublished
<1>3. Repeatable' = Repeatable /\ Deleted \cap held = {}
  BY DEF own, Deleted, Repeatable, Inv, GoneIsGone
<1>4. \A d \in Repeatable : d \notin held
  BY <1>3 DEF Repeatable
<1>5. PointOwed'
  BY <1>1 DEF PointOwed
<1>6. CleanOwed'
  BY <1>1, <1>2, <1>3, <1>4 DEF CleanOwed, CleanOne
<1> QED
  BY <1>5, <1>6

(* What rotation removes held everything that the newest backup holds.        *)
LEMMA RotationOwed ==
  ASSUME BackupInv, PointOwed, CleanOwed, SnapshotsShrink, UNCHANGED own,
         NEW id \in Ids, RemoveOld(id), NEW S \in SUBSET {id}, Drops(S), userDeletes' = userDeletes
  PROVE  PointOwed' /\ CleanOwed'
<1> SUFFICES ASSUME userDeletes = 0
             PROVE  PointOwed' /\ CleanOwed'
  BY DEF PointOwed, CleanOwed
<1>1. Owing' = Owing /\ Repeatable' = Repeatable
  BY DEF own, Owing, Pending, Deleted, Repeatable
<1>2. Ready' = Ready \ S /\ \A o \in Ready' : backup'[o] = backup[o]
  BY Dropped DEF Drops, Ready
<1>3. PICK new : new = making.id
  OBVIOUS
<1>4. new \in Ready /\ Ready \ {new} \subseteq older[new] /\ id # new
  BY <1>3 DEF RemoveOld, BackupInv, MakerFits
<1>5. new \in Ready'
  BY <1>2, <1>4
<1>6. PointOwed'
  BY <1>5 DEF PointOwed
<1>7. ASSUME NEW d, CleanOne(d)
      PROVE  \E o \in Ready' : d \notin backup'[o].documents
  <2>1. PICK o \in Ready : d \notin backup[o].documents
    BY <1>7 DEF CleanOne
  <2>2. CASE o \in Ready'
    BY <1>2, <2>1, <2>2
  <2>3. CASE o \notin Ready'
    <3>1. o # new /\ o \in older[new]
      BY <1>4, <1>5, <2>1, <2>3
    <3>2. backup[new].documents \subseteq backup[o].documents
      BY <1>4, <2>1, <3>1 DEF SnapshotsShrink
    <3> QED
      BY <1>2, <1>5, <2>1, <3>2
  <2> QED
    BY <2>2, <2>3
<1>8. CleanOwed'
  BY <1>1, <1>2, <1>7 DEF CleanOwed, CleanOne
<1> QED
  BY <1>6, <1>8

LEMMA OutsideOwed ==
  ASSUME Inv, BackupInv, PointOwed, CleanOwed, EntriesFit, SnapshotsShrink, BackupStep \/ Surroundings
  PROVE  PointOwed' /\ CleanOwed'
<1>1. UNCHANGED own
  BY OutsideKeeps
<1>2. CASE ReadyStays /\ userDeletes' = userDeletes
  <2>1. Repeatable' = Repeatable /\ UNCHANGED <<tombstone, result>>
    BY <1>1, EntriesStay DEF own, Repeatable
  <2> QED
    BY <1>2, <2>1, SameOwed
<1>3. CASE Publish
  BY <1>1, <1>3, PublishOwed
<1>4. ASSUME NEW id \in Ids, RemoveOld(id), userDeletes' = userDeletes,
             NEW S \in SUBSET {id}, Drops(S)
      PROVE  PointOwed' /\ CleanOwed'
  BY <1>1, <1>4, RotationOwed
<1>5. ASSUME NEW id \in Ids, DeleteManaged(id)
      PROVE  PointOwed' /\ CleanOwed'
  <2>1. userDeletes' # 0
    BY <1>5, Fields DEF DeleteManaged
  <2> QED
    BY <2>1 DEF PointOwed, CleanOwed
<1> QED
  BY <1>2, <1>3, <1>4, <1>5, OutsideKeeps

-----------------------------------------------------------------------------
LEMMA ReplayOwed ==
  ASSUME Inv, BackupInv, PointOwed, CleanOwed, EntriesFit, NEW w \in Workers, Replay(w)
  PROVE  PointOwed' /\ CleanOwed'
<1>1. PICK d : d = work[w].document
  OBVIOUS
<1>2. grant[d] # NoGrant /\ \A e \in Documents : e # d => grant'[e] = grant[e]
  BY <1>1 DEF Replay, At, Inv, OwnTypes, GrantsFit, Opening
<1>3. ReadyStays /\ UNCHANGED <<tombstone, result, userDeletes>>
  BY QuietWork DEF Replay, bounds
<1>4. Deleted' = Deleted /\ Deleted \subseteq Documents
  BY <1>3, EntriesStay DEF Deleted
<1>5. Repeatable' \subseteq Repeatable
  BY <1>2, <1>3, <1>4 DEF Repeatable
<1> QED
  BY <1>3, <1>5, SameOwed

LEMMA DeleteDocumentOwed ==
  ASSUME Inv, BackupInv, PointOwed, CleanOwed, OwnPoints, NEW w \in Workers, DeleteDocument(w)
  PROVE  PointOwed' /\ CleanOwed'
<1>1. PICK d : d = work[w].document
  OBVIOUS
<1>2. /\ d \in Documents /\ d \notin Deleted /\ Deleted' = Deleted \cup {d}
      /\ tombstone'[d].status = "database_deleted" /\ ~tombstone'[d].post
      /\ \A e \in Documents : e # d => tombstone'[e] = tombstone[e]
  BY <1>1, DeletionIs
<1>3. ReadyStays /\ userDeletes' = userDeletes
  BY QuietWork DEF bounds
<1>4. \A e \in Documents : e # d => grant'[e] = grant[e]
  BY <1>1 DEF DeleteDocument, Inv, OwnTypes
<1>5. Deleted \subseteq Documents
  BY DEF Deleted
<1>6. Owing \subseteq Owing'
  BY <1>2, <1>5 DEF Owing, Pending
<1>7. CASE tombstone'[d].policy = Keeps
  <2>1. Repeatable' \subseteq Repeatable
    BY <1>2, <1>4, <1>5, <1>7 DEF Repeatable
  <2> QED
    BY <1>2, <1>3, <1>5, <1>6, <1>7, <2>1, OwedStay
<1>8. CASE tombstone'[d].policy # Keeps
  <2>1. d \in Owing'
    BY <1>2, <1>8 DEF Owing, Pending
  <2>2. d \notin Ready'
    BY <1>2, <1>3 DEF OwnPoints, ReadyStays, Ready
  <2> QED
    BY <2>1, <2>2 DEF PointOwed, CleanOwed
<1> QED
  BY <1>7, <1>8

(* The request that is repeated removes backups that hold its source; the     *)
(* one that does not is newer than they are.                                 *)
LEMMA RemoveScopedOwed ==
  ASSUME Inv, BackupInv, PointOwed, CleanOwed, EntriesFit, SnapshotsShrink, ProcessFits, RecordsFit,
         NEW w \in Workers, NEW id \in Ids, RemoveScoped(w, id)
  PROVE  PointOwed' /\ CleanOwed'
<1>1. PICK d : d = work[w].document
  OBVIOUS
<1>2. /\ work[w] \in WorkRecords /\ Claims(work[w]) /\ work[w] # Resting /\ work[w].step = "remove"
      /\ id \in work[w].todo
  BY Working DEF RemoveScoped, At
<1>3. /\ d \in Deleted /\ tombstone[d].policy # Keeps
      /\ w = Launcher => d \in Owing
      /\ w # Launcher => \A o \in work[w].todo \cap Ready : d \in backup[o].documents
  BY <1>1, <1>2 DEF Claims, Handling, RecordsFit, RecordFits
<1>4. PICK S \in SUBSET {id} : Drops(S)
  BY RemovalDrops
<1>5. Ready' = Ready \ S /\ \A o \in Ready' : backup'[o] = backup[o]
  BY <1>4, Dropped DEF Drops, Ready
<1>6. UNCHANGED <<tombstone, result, grant, userDeletes>>
  BY DEF RemoveScoped, bounds
<1>7. Owing' = Owing /\ Deleted' = Deleted /\ Repeatable' = Repeatable
  BY <1>6, EntriesStay DEF Repeatable
<1>8. CASE w = Launcher
  <2>1. Owing' # {}
    BY <1>3, <1>7, <1>8
  <2>2. \A e \in Documents : grant[e] = NoGrant
    BY <1>2, <1>8 DEF ProcessFits, NoGrants
  <2>3. Repeatable' = {}
    BY <1>7, <2>2 DEF Repeatable, Deleted
  <2> QED
    BY <2>1, <2>3 DEF PointOwed, CleanOwed
<1>9. CASE w # Launcher /\ userDeletes = 0
  <2>1. d \in Repeatable
    BY <1>1, <1>2, <1>3, <1>9 DEF ProcessFits, Repeatable
  <2>2. CASE Owing \ Ready # {}
    <3>1. Owing' \ Ready' # {}
      BY <1>5, <1>7, <2>2
    <3> QED
      BY <3>1 DEF PointOwed, CleanOwed
  <2>3. CASE \A e \in Repeatable : CleanOne(e)
    <3>1. PICK clean \in Ready : d \notin backup[clean].documents
      BY <2>1, <2>3 DEF CleanOne
    <3>2. clean \notin S
      <4>1. id \in Ready => d \in backup[id].documents
        BY <1>2, <1>3, <1>9
      <4> QED
        BY <1>4, <3>1, <4>1
    <3>3. clean \in Ready'
      BY <1>5, <3>1, <3>2
    <3>4. ASSUME NEW e \in Repeatable
          PROVE  \E o \in Ready' : e \notin backup'[o].documents
      <4>1. PICK o \in Ready : e \notin backup[o].documents
        BY <2>3 DEF CleanOne
      <4>2. CASE o \in Ready'
        BY <1>5, <4>1, <4>2
      <4>3. CASE o \notin Ready'
        <5>1. o = id /\ d \in backup[o].documents /\ o # clean
          BY <1>2, <1>3, <1>4, <1>5, <1>9, <3>3, <4>1, <4>3
        <5>2. o \in older[clean]
          BY <3>1, <4>1, <5>1, OrderIs DEF SnapshotsShrink
        <5>3. backup[clean].documents \subseteq backup[o].documents
          BY <3>1, <4>1, <5>2 DEF SnapshotsShrink
        <5> QED
          BY <1>5, <3>3, <4>1, <5>3
      <4> QED
        BY <4>2, <4>3
    <3>5. CleanOwed'
      BY <1>7, <3>4 DEF CleanOwed, CleanOne
    <3> QED
      BY <3>3, <3>5 DEF PointOwed
  <2> QED
    BY <1>9, <2>2, <2>3 DEF CleanOwed
<1>10. CASE userDeletes # 0
  BY <1>6, <1>10 DEF PointOwed, CleanOwed
<1> QED
  BY <1>8, <1>9, <1>10

(* A workflow that owes nothing any more has its restore point.               *)
LEMMA RecordOwed ==
  ASSUME Inv, BackupInv, PointOwed, CleanOwed, RecordsFit, NEW w \in Workers, Record(w)
  PROVE  PointOwed' /\ CleanOwed'
<1>1. PICK d : d = work[w].document
  OBVIOUS
<1>2. PICK old : old = work[w]
  OBVIOUS
<1>3. /\ d \in Deleted /\ d \in Documents /\ Deleted' = Deleted
      /\ \A e \in Documents : e # d => tombstone'[e] = tombstone[e]
      /\ tombstone'[d].policy = tombstone[d].policy /\ tombstone'[d].post = old.post
      /\ tombstone'[d].status = "completed" => old.status = "completed"
      /\ RecordFits(old, w = Launcher) /\ old \in WorkRecords /\ old.step = "rescan"
  BY <1>1, <1>2, RecordIs
<1>4. ReadyStays /\ UNCHANGED <<grant, userDeletes>>
  BY QuietWork DEF Record, bounds
<1>5. Deleted \subseteq Documents
  BY DEF Deleted
<1>6. Repeatable' = Repeatable
  BY <1>3, <1>4, <1>5 DEF Repeatable
<1>7. \A e \in Deleted : tombstone'[e].policy = tombstone[e].policy
  BY <1>3, <1>5
<1>8. \A e \in Owing : e # d => e \in Owing'
  BY <1>3, <1>5 DEF Owing, Pending
<1>9. CASE d \in Owing /\ d \notin Owing' /\ userDeletes = 0
  <2>1. old.policy # Keeps /\ old.document = d
    BY <1>1, <1>2, <1>3, <1>9 DEF RecordFits, Handling, Owing
  <2>2. old.post
    <3>1. tombstone'[d].status = "completed" \/ tombstone'[d].post
      BY <1>3, <1>9 DEF Owing, Pending
    <3> QED
      BY <1>3, <2>1, <3>1 DEF RecordFits
  <2>3. d \in Ready /\ d \in Ready'
    BY <1>3, <1>4, <1>9, <2>1, <2>2 DEF RecordFits, ReadyStays
  <2>4. PointOwed'
    BY <2>3 DEF PointOwed
  <2>5. CleanOwed'
    <3>1. Owing \ Ready # {} => Owing' \ Ready' # {}
      BY <1>4, <1>8, <2>3 DEF ReadyStays
    <3>2. \A e \in Repeatable : CleanOne(e) => CleanOne(e)'
      BY <1>4 DEF CleanOne, ReadyStays
    <3> QED
      BY <1>4, <1>6, <3>1, <3>2 DEF CleanOwed
  <2> QED
    BY <2>4, <2>5
<1>10. CASE d \notin Owing \/ d \in Owing'
  <2>1. Owing \subseteq Owing'
    BY <1>8, <1>10
  <2> QED
    BY <1>3, <1>4, <1>6, <1>7, <2>1, OwedStay
<1>11. CASE userDeletes # 0
  BY <1>4, <1>11 DEF PointOwed, CleanOwed
<1> QED
  BY <1>9, <1>10, <1>11

LEMMA WorkOwed ==
  ASSUME Inv, BackupInv, PointOwed, CleanOwed, EntriesFit, SnapshotsShrink, OwnPoints,
         ProcessFits, RecordsFit, NEW w \in Workers, Work(w)
  PROVE  PointOwed' /\ CleanOwed'
<1>1. CASE \/ TakeLock(w) \/ EndRemoval(w) \/ FindPost(w) \/ RecordFails(w) \/ StartPost(w)
           \/ EndPost(w)
  <2>1. ReadyStays
    BY <1>1, QuietWork, PostStarts, EndKeeps DEF EndPost, bounds
  <2>2. UNCHANGED <<tombstone, result, grant, userDeletes>>
    BY <1>1 DEF TakeLock, EndRemoval, FindPost, RecordFails, StartPost, EndPost, vars, bounds
  <2>3. Repeatable' = Repeatable
    BY <2>2, EntriesStay DEF Repeatable
  <2> QED
    BY <2>1, <2>2, <2>3, SameOwed
<1>2. CASE Refuse(w)
  <2>1. PICK d : d = work[w].document
    OBVIOUS
  <2>2. grant[d] # NoGrant /\ \A e \in Documents : e # d => grant'[e] = grant[e]
    BY <1>2, <2>1 DEF Refuse, At, Inv, OwnTypes, GrantsFit, Opening
  <2>3. ReadyStays /\ UNCHANGED <<tombstone, result, userDeletes>>
    BY <1>2, QuietWork DEF Refuse, bounds
  <2>4. Deleted' = Deleted /\ Deleted \subseteq Documents
    BY <2>3, EntriesStay DEF Deleted
  <2>5. Repeatable' \subseteq Repeatable
    BY <2>2, <2>3, <2>4 DEF Repeatable
  <2> QED
    BY <2>3, <2>5, SameOwed
<1> QED
  BY <1>1, <1>2, ReplayOwed, DeleteDocumentOwed, RemoveScopedOwed, RecordOwed DEF Work

(* What is half removed when the process ends is not all there is, or a       *)
(* workflow still owes its restore point.                                    *)
LEMMA ProcessOwed ==
  ASSUME Inv, BackupInv, PointOwed, CleanOwed, EntriesFit, ProcessFits, RecordsFit,
         Quit \/ DeletionCrash \/ LaunchFails
  PROVE  PointOwed' /\ CleanOwed'
<1>1. PICK todo : todo = UNION {work[w].todo : w \in {v \in Workers : At(v, "remove")}}
  OBVIOUS
<1>2. PICK S \in SUBSET (Ready \cap (making.doomed \cup todo)) : Drops(S)
  BY <1>1, ProcessDrops
<1>3. StartAgain
  BY ProcessDrops
<1>4. Ready' = Ready \ S
  BY <1>2, Dropped
<1>5. UNCHANGED <<tombstone, result, userDeletes>> /\ \A d \in Documents : grant'[d] = NoGrant
  BY <1>3 DEF StartAgain, NoGrants
<1>6. Repeatable' = {} /\ Owing' = Owing /\ Deleted' = Deleted
  BY <1>5, EntriesStay DEF Repeatable, Deleted
<1>7. CleanOwed'
  BY <1>6 DEF CleanOwed
<1>8. ASSUME userDeletes = 0, Ready' = {}, Ready # {}
      PROVE  Owing # {}
  <2>1. Ready \subseteq making.doomed \cup todo
    BY <1>2, <1>4, <1>8
  <2>2. CASE making.doomed # {}
    <3>1. making.step = "remove"
      BY <2>2 DEF BackupInv, MakerFits
    <3>2. making.id \in Ready /\ making.id \notin making.doomed
      BY <1>8, <3>1 DEF BackupInv, MakerFits
    <3>3. \A v \in Workers : ~At(v, "remove")
      BY <3>1, HolderIsIdle
    <3>4. todo = {}
      BY <1>1, <3>3
    <3> QED
      BY <2>1, <3>2, <3>4
  <2>3. CASE making.doomed = {}
    <3>1. PICK id \in Ready : id \in todo
      BY <1>8, <2>1, <2>3
    <3>2. PICK w \in Workers : At(w, "remove")
      BY <1>1, <3>1
    <3>3. \A v \in Workers : At(v, "remove") => v = w
      BY <3>2 DEF At
    <3>4. todo = work[w].todo
      BY <1>1, <3>2, <3>3
    <3>5. PICK d : d = work[w].document
      OBVIOUS
    <3>6. /\ work[w] \in WorkRecords /\ Claims(work[w]) /\ work[w] # Resting
          /\ work[w].step = "remove"
      BY <3>2, Working DEF At
    <3>7. /\ d \in Deleted /\ tombstone[d].policy # Keeps
          /\ w = Launcher => d \in Owing
          /\ w # Launcher => \A o \in work[w].todo \cap Ready : d \in backup[o].documents
      BY <3>5, <3>6 DEF Claims, Handling, RecordsFit, RecordFits
    <3>8. CASE w # Launcher
      <4>1. d \in Repeatable
        BY <3>5, <3>6, <3>7, <3>8 DEF ProcessFits, Repeatable
      <4>2. ~CleanOne(d)
        BY <2>1, <2>3, <3>4, <3>7, <3>8 DEF CleanOne
      <4> QED
        BY <1>8, <4>1, <4>2 DEF CleanOwed
    <3> QED
      BY <3>7, <3>8
  <2> QED
    BY <2>2, <2>3
<1>9. PointOwed'
  BY <1>5, <1>6, <1>8 DEF PointOwed
<1> QED
  BY <1>7, <1>9

-----------------------------------------------------------------------------
LEMMA StillPoint ==
  ASSUME PointInv, UNCHANGED store
  PROVE  PointInv'
<1>1. UNCHANGED <<held, materials, backup, older, making, lock, numbered, week, userDeletes>>
  BY DEF store, vars
<1>2. UNCHANGED <<grant, work, tombstone, result, app, queue>>
  BY DEF store, own
<1>3. Ready' = Ready /\ Deleted' = Deleted /\ Pending' = Pending /\ Owing' = Owing
  BY <1>1, <1>2 DEF Ready, Deleted, Pending, Owing
<1>4. BackupInv'
  BY <1>1, OthersKeep DEF PointInv
<1>5. PointOwed' /\ CleanOwed'
  BY <1>1, <1>2, <1>3 DEF PointInv, PointOwed, CleanOwed, Repeatable, CleanOne
<1>6. SnapshotsShrink' /\ OwnPoints' /\ EntriesFit'
  BY <1>1, <1>2, <1>3 DEF PointInv, SnapshotsShrink, OwnPoints, EntriesFit
<1>7. ProcessFits'
  BY <1>1, <1>2, <1>3 DEF PointInv, ProcessFits
<1>8. RecordsFit'
  BY <1>1, <1>2, <1>3 DEF PointInv, RecordsFit, RecordFits
<1> QED
  BY <1>4, <1>5, <1>6, <1>7, <1>8 DEF PointInv

LEMMA StepPoint == Inv /\ PointInv /\ [DeletionNext]_store => PointInv'
<1> SUFFICES ASSUME Inv, PointInv, [DeletionNext]_store
             PROVE  PointInv'
  OBVIOUS
<1> USE DEF PointInv
<1>1. CASE BackupStep \/ Surroundings
  <2>1. BackupInv' /\ UNCHANGED own
    BY <1>1, OutsideKeeps
  <2>2. EntriesFit'
    BY <2>1, EntriesStay DEF own
  <2>3. ProcessFits'
    BY <1>1, <2>1, OutsideKeeps, OutsideFits
  <2> QED
    BY <1>1, <2>1, <2>2, <2>3, OutsideOwed, OutsideHolds, OutsideRecords
<1>2. CASE User
  <2>1. UNCHANGED vars /\ UNCHANGED <<tombstone, result>>
    BY <1>2 DEF User, Prepare, Delete
  <2>2. /\ BackupInv' /\ ReadyStays /\ UNCHANGED <<backup, making, held>>
    BY <2>1, UserStays
  <2> QED
    BY <1>2, <2>1, <2>2, EntriesStay, QuietHolds, UserOwed, UserFits, UserRecords
<1>3. CASE Launch
  <2>1. UNCHANGED <<tombstone, result>>
    BY <1>3 DEF Launch, Open, Resume
  <2>2. /\ BackupInv' /\ ReadyStays /\ UNCHANGED <<backup, making, held>>
    BY <1>3, LaunchStays
  <2> QED
    BY <1>3, <2>1, <2>2, EntriesStay, QuietHolds, LaunchOwed, LaunchFits, LaunchRecords
<1>4. ASSUME NEW w \in Workers, Work(w)
      PROVE  PointInv'
  BY <1>4, WorkKeeps, WorkEntries, WorkHolds, WorkOwed, TurnFits, WorkRecordsFit
<1>5. CASE Quit \/ DeletionCrash \/ LaunchFails
  <2>1. BackupInv' /\ StartAgain
    BY <1>5, ProcessDrops
  <2>2. UNCHANGED <<tombstone, result>> /\ \A w \in Workers : work'[w] = Resting
    BY <2>1 DEF StartAgain
  <2>3. RecordsFit'
    BY <2>2 DEF RecordsFit
  <2> QED
    BY <1>5, <2>1, <2>2, <2>3, EntriesStay, ProcessOwed, ProcessHolds, AgainFits
<1>6. CASE UNCHANGED store
  BY <1>6, StillPoint
<1> QED
  BY <1>1, <1>2, <1>3, <1>4, <1>5, <1>6 DEF DeletionNext

LEMMA AlwaysPoint == DeletionSpec => []PointInv
BY InitInv, InitPoint, StepInv, StepPoint, AlwaysInv, PTL DEF DeletionSpec

LEMMA PointIsConsistent == Inv /\ PointInv => DeletionConsistent
<1> SUFFICES ASSUME Inv, PointInv
             PROVE  DeletionConsistent
  OBVIOUS
<1>1. TypeOK
  BY BackupsAre DEF PointInv
<1>2. /\ lock \in {"free", "local"} \cup Workers
      /\ \A w \in Workers : work[w] = Resting \/ work[w].step = "queued" \/ lock = w
      /\ lock \in Workers => work[lock] # Resting
      /\ app \in {"launching", "open"}
  BY DEF PointInv, ProcessFits
<1>3. /\ \A d \in Deleted : tombstone[d] \in Tombstones
      /\ \A d \in Documents : grant[d] \in Grants \cup {NoGrant} /\ result[d] \in Results \cup {NoResult}
      /\ queue \subseteq Deleted
  BY DEF Inv, OwnTypes, Deleted
<1>4. LeavesARestorePoint
  <2>1. Owing \subseteq Pending
    BY DEF Owing
  <2> QED
    BY <2>1 DEF LeavesARestorePoint, PointInv, PointOwed
<1> QED
  BY <1>1, <1>2, <1>3, <1>4 DEF DeletionConsistent, DeletionTypeOK, Inv

(* The list of backups that the user agreed to covers what exists, however    *)
(* many deletions are under way and wherever the process ends; and a deletion *)
(* that removes backups leaves a complete one, or a workflow that is resumed  *)
(* to make one, unless the user deletes backups (sourcePrivacy.ts:            *)
(* deleteManagedBackups, createPostDeleteBackup and reconcilePending).        *)
THEOREM ScopeAndRestorePoint == DeletionSpec => []DeletionConsistent
BY AlwaysInv, AlwaysPoint, PointIsConsistent, PTL
================================================================================
