------------------------- MODULE PendingRestoreProofs -------------------------
(***************************************************************************)
(* For every number of restore jobs, every set of components that a data     *)
(* directory may hold, and crashes and failing calls without end: the        *)
(* application opens one data set, and a switch that ends is exact.          *)
(***************************************************************************)
EXTENDS PendingRestore, TLAPS

-----------------------------------------------------------------------------
(* The inductive invariant.                                                 *)
Steps == {"moving_old", "installing_database", "installing_materials", "validating",
          "clearing_marker"} \cup UndoSteps

(* A directory that one data set filled. *)
Whole(files) == \E set \in DataSets : \A c \in Components : files[c] \in {set, Absent}

(* Only a running application has confirmations, and only for new jobs; a    *)
(* launch has nothing to report before it looks.                             *)
ServiceFits ==
    /\ at = "starting" => status = "none"
    /\ at # "running" => prepared = {}
    /\ \A j \in prepared : rollback[j] = NoDirectory

(* Without an interrupted switch, the directory is whole. *)
DirectoryFits ==
    /\ at \in {"off", "starting", "refused"} /\ ~Interrupted => Whole(current)
    /\ at = "running" => Whole(current) /\ ~Interrupted

(* The switch in progress is that of the marker, and began with a whole     *)
(* directory.                                                               *)
SwitchFits ==
    at \in Steps => /\ job \in Jobs /\ marker = job /\ rollback[job] \in Files
                    /\ Whole(before.files) /\ was = Present(before.files)

(* The old components that were moved; the database may be one that another *)
(* program put there meanwhile.                                             *)
OldFits(set) ==
    \A c \in Components :
       IF c \in set THEN old[c] = before.files[c] \/ (c = "database" /\ old[c] = Foreign)
                    ELSE old[c] = Absent

(* What is left of them: another program may have taken or put something.   *)
RestFits ==
    \A c \in Components :
       \/ current[c] = (IF c \in was \ moved THEN before.files[c] ELSE Absent)
       \/ tampered /\ c \in CandidateComponents /\ current[c] = Absent
       \/ tampered /\ c \in CandidateComponents \ (was \ moved) /\ current[c] = Foreign
       \/ tampered /\ c = "database" /\ current[c] = Foreign

(* Every component is in one of the two places, as it was. *)
SplitFits ==
    \A c \in Components :
       IF c \in moved THEN old[c] = before.files[c] /\ current[c] = Absent
                      ELSE old[c] = Absent /\ current[c] = before.files[c]
BackFits ==
    \A c \in Components :
       \/ old[c] = before.files[c] /\ current[c] = Absent
       \/ old[c] = Absent /\ current[c] = before.files[c]

NothingElse == \A c \in Components \ CandidateComponents : current[c] = Absent
OldIsWhole == old = before.files

PhaseFits ==
    /\ at = "moving_old" => OldFits(moved) /\ RestFits /\ "database" \in staged[job]
    /\ at = "undoing_moves" => OldFits(moved) /\ RestFits
    /\ at = "moving_back" => SplitFits
    /\ at = "switch_failed" => OldFits(was) /\ NothingElse
    /\ at = "preserving" =>
         /\ OldIsWhole /\ NothingElse /\ failed[job] \in Files
         /\ \A c \in Components : failed[job][c] = Absent \/ current[c] = Absent
    /\ at = "restoring_old" => BackFits
    /\ at = "clearing_undone" => current = before.files
    /\ at = "installing_database" =>
         OldIsWhole /\ Present(current) = {} /\ "database" \in staged[job]
    /\ at = "installing_materials" =>
         OldIsWhole /\ current.database = job /\ Present(current) = {"database"}
    /\ at = "validating" =>
         /\ OldIsWhole /\ current.database = job /\ current.materials \in {job, Absent}
         /\ Present(current) \subseteq {"database", "materials"}
    /\ at = "clearing_marker" =>
         /\ OldIsWhole /\ current.database = job /\ NothingElse
         /\ \A c \in Components : current[c] \in {job, Absent}

Inv == TypeOK /\ ServiceFits /\ DirectoryFits /\ SwitchFits /\ PhaseFits

-----------------------------------------------------------------------------
LEMMA ComponentsAre ==
  Components = {"database", "wal", "shm", "materials", "migration_journal",
                "migration_journal_partial", "migration_lock"}
BY DEF Components, Position

LEMMA Sentinels ==
  /\ Absent \notin DataSets /\ Absent # Foreign /\ NoJob \notin Jobs /\ NoDirectory \notin Files
  /\ Original \in DataSets /\ Jobs \subseteq DataSets /\ DataSets \subseteq Content
  /\ Absent \in Content /\ Foreign \in Content
BY SentinelAssumption DEF DataSets, Content

LEMMA FirstIsIn ==
  ASSUME NEW S, S \subseteq Components, S # {}
  PROVE  First(S) \in S /\ Last(S) \in S
<1>1. /\ Position["database"] = 1 /\ Position["wal"] = 2 /\ Position["shm"] = 3
      /\ Position["materials"] = 4 /\ Position["migration_journal"] = 5
      /\ Position["migration_journal_partial"] = 6 /\ Position["migration_lock"] = 7
  BY DEF Position
<1>2. \E c \in S : \A d \in S : Position[c] <= Position[d]
  <2>1. CASE "database" \in S
    BY <1>1, <2>1, ComponentsAre
  <2>2. CASE "database" \notin S /\ "wal" \in S
    BY <1>1, <2>2, ComponentsAre
  <2>3. CASE S \cap {"database", "wal"} = {} /\ "shm" \in S
    BY <1>1, <2>3, ComponentsAre
  <2>4. CASE S \cap {"database", "wal", "shm"} = {} /\ "materials" \in S
    BY <1>1, <2>4, ComponentsAre
  <2>5. CASE S \cap {"database", "wal", "shm", "materials"} = {}
    <3>1. S \subseteq {"migration_journal", "migration_journal_partial", "migration_lock"}
      BY <2>5, ComponentsAre
    <3>2. CASE "migration_journal" \in S
      BY <1>1, <3>1, <3>2
    <3>3. CASE "migration_journal" \notin S /\ "migration_journal_partial" \in S
      BY <1>1, <3>1, <3>3
    <3>4. CASE S = {"migration_lock"}
      BY <1>1, <3>4
    <3> QED
      BY <3>1, <3>2, <3>3, <3>4
  <2> QED
    BY <2>1, <2>2, <2>3, <2>4, <2>5
<1>3. \E c \in S : \A d \in S : Position[c] >= Position[d]
  <2>1. CASE "migration_lock" \in S
    BY <1>1, <2>1, ComponentsAre
  <2>2. CASE "migration_lock" \notin S /\ "migration_journal_partial" \in S
    BY <1>1, <2>2, ComponentsAre
  <2>3. CASE /\ S \cap {"migration_lock", "migration_journal_partial"} = {}
             /\ "migration_journal" \in S
    BY <1>1, <2>3, ComponentsAre
  <2>4. CASE /\ S \cap {"migration_lock", "migration_journal_partial", "migration_journal"} = {}
             /\ "materials" \in S
    BY <1>1, <2>4, ComponentsAre
  <2>5. CASE S \cap {"migration_lock", "migration_journal_partial", "migration_journal",
                     "materials"} = {}
    <3>1. S \subseteq {"shm", "wal", "database"}
      BY <2>5, ComponentsAre
    <3>2. CASE "shm" \in S
      BY <1>1, <3>1, <3>2
    <3>3. CASE "shm" \notin S /\ "wal" \in S
      BY <1>1, <3>1, <3>3
    <3>4. CASE S = {"database"}
      BY <1>1, <3>4
    <3> QED
      BY <3>1, <3>2, <3>3, <3>4
  <2> QED
    BY <2>1, <2>2, <2>3, <2>4, <2>5
<1> QED
  BY <1>2, <1>3 DEF First, Last

LEMMA FilesOfWhole ==
  ASSUME NEW set \in DataSets, NEW pattern
  PROVE  FilesOf(set, pattern) \in Files /\ Whole(FilesOf(set, pattern))
<1>1. set \in Content /\ Absent \in Content
  BY Sentinels
<1>2. PICK f : f = FilesOf(set, pattern)
  OBVIOUS
<1>3. f \in Files
  BY <1>1, <1>2 DEF FilesOf, Files
<1>4. Whole(f)
  BY <1>2 DEF FilesOf, Whole
<1> QED
  BY <1>2, <1>3, <1>4

LEMMA EmptyIs ==
  /\ Empty \in Files /\ \A c \in Components : Empty[c] = Absent
BY Sentinels DEF Empty, Files

-----------------------------------------------------------------------------
LEMMA InitInv == Init => Inv
<1> SUFFICES ASSUME Init PROVE Inv
  OBVIOUS
<1>1. at = "off" /\ marker = NoJob
  BY DEF Init
<1>2. current \in Files /\ Whole(current)
  <2>1. PICK pattern \in Patterns \cup {{}} : current = FilesOf(Original, pattern)
    BY DEF Init
  <2> QED
    BY <2>1, FilesOfWhole, Sentinels
<1>3. TypeOK
  <2>1. before \in [job : Jobs \cup {NoJob}, files : Files]
    BY EmptyIs DEF Init
  <2> QED
    BY <1>2, <2>1 DEF Init, TypeOK
<1>4. ServiceFits /\ DirectoryFits /\ SwitchFits /\ PhaseFits
  BY <1>1, <1>2 DEF Init, ServiceFits, DirectoryFits, SwitchFits, PhaseFits, Interrupted,
                    Steps, UndoSteps
<1> QED
  BY <1>3, <1>4 DEF Inv

-----------------------------------------------------------------------------
(* Outside the switch, nothing but the directory, the marker and the service *)
(* matters.                                                                 *)
LEMMA OutsideInv ==
  ASSUME at' \notin Steps, TypeOK', ServiceFits', DirectoryFits'
  PROVE  Inv'
BY DEF Inv, SwitchFits, PhaseFits, Steps, UndoSteps

LEMMA UseInv ==
  ASSUME Inv, UseApplication
  PROVE  Inv'
<1>1. /\ at = "running" /\ at' = at /\ rollback' = rollback /\ marker' = marker
      /\ UNCHANGED <<failed, stage, status, service, switch, tampered, faults>>
  BY DEF UseApplication
<1>2. PICK pattern \in Patterns :
        current' = FilesOf(IF current.database = Absent THEN Original ELSE current.database,
                           pattern)
  BY DEF UseApplication
<1>3. (IF current.database = Absent THEN Original ELSE current.database) \in DataSets
  BY <1>1, Sentinels, ComponentsAre DEF Inv, DirectoryFits, Whole
<1>4. current' \in Files /\ Whole(current')
  BY <1>2, <1>3, FilesOfWhole
<1>5. TypeOK'
  BY <1>1, <1>4 DEF Inv, TypeOK, stage, service, switch
<1>6. ServiceFits' /\ DirectoryFits'
  BY <1>1, <1>4 DEF Inv, ServiceFits, DirectoryFits, Interrupted, service
<1> QED
  BY <1>1, <1>5, <1>6, OutsideInv DEF Steps, UndoSteps

LEMMA ServiceInv ==
  ASSUME Inv, NEW j \in Jobs,
         \/ Preview(j) \/ RequestConfirmation(j) \/ ExpireToken(j) \/ Confirm(j)
         \/ WriteMarker(j) \/ WriteMarkerFails(j)
  PROVE  Inv'
<1>1. /\ at = "running" /\ at' = at /\ current' = current /\ rollback' = rollback
      /\ failed' = failed
  BY DEF Preview, RequestConfirmation, ExpireToken, Confirm, WriteMarker, WriteMarkerFails,
         Inv, TypeOK, ServiceFits, directory
<1>2. TypeOK' /\ ServiceFits' /\ (marker' = marker \/ marker' \in prepared)
  <2>1. CASE Preview(j)
    <3>1. PICK components \in Stageable : staged' = [staged EXCEPT ![j] = components]
      BY <2>1 DEF Preview
    <3>2. staged' \in [Jobs -> SUBSET {"database", "materials"}]
      BY <3>1 DEF Inv, TypeOK, Stageable
    <3> QED
      BY <1>1, <2>1, <3>2 DEF Preview, Unused, Inv, TypeOK, ServiceFits, switch
  <2>2. CASE RequestConfirmation(j)
    BY <1>1, <2>2 DEF RequestConfirmation, Inv, TypeOK, ServiceFits, stage, switch
  <2>3. CASE ExpireToken(j)
    BY <1>1, <2>3 DEF ExpireToken, Inv, TypeOK, ServiceFits, stage, switch
  <2>4. CASE Confirm(j)
    BY <1>1, <2>4 DEF Confirm, Inv, TypeOK, ServiceFits, stage, switch
  <2>5. CASE WriteMarker(j)
    BY <1>1, <2>5 DEF WriteMarker, Inv, TypeOK, ServiceFits, stage, switch
  <2>6. CASE WriteMarkerFails(j)
    BY <1>1, <2>6 DEF WriteMarkerFails, Fault, Inv, TypeOK, ServiceFits, stage, switch
  <2> QED
    BY <2>1, <2>2, <2>3, <2>4, <2>5, <2>6
<1>3. DirectoryFits'
  BY <1>1, <1>2 DEF Inv, DirectoryFits, ServiceFits, Interrupted
<1> QED
  BY <1>1, <1>2, <1>3, OutsideInv DEF Steps, UndoSteps

(* A process that ends leaves an interrupted switch, or a whole directory.   *)
LEMMA MarkerTells ==
  ASSUME Inv
  PROVE  at \in Steps => Interrupted
BY Sentinels DEF Inv, SwitchFits, Interrupted

LEMMA StopInv ==
  ASSUME Inv, ExitForRestore \/ Quit \/ Crash
  PROVE  Inv'
<1>1. /\ at' = "off" /\ prepared' = {} /\ granted' = {} /\ writing' = {}
      /\ UNCHANGED <<directory, stage, marker, status, switch, tampered>>
      /\ faults' \in Nat
  BY DEF ExitForRestore, Quit, Crash, Stops, Fault, Inv, TypeOK
<1>2. TypeOK'
  BY <1>1 DEF Inv, TypeOK, directory, stage, switch
<1>3. at \in Steps \cup {"off", "starting", "refused", "running"}
  BY DEF Inv, TypeOK, Steps
<1>4. ServiceFits' /\ DirectoryFits'
  BY <1>1, <1>3, MarkerTells DEF Inv, ServiceFits, DirectoryFits, Interrupted, directory
<1> QED
  BY <1>1, <1>2, <1>4, OutsideInv DEF Steps, UndoSteps

LEMMA StartInv ==
  ASSUME Inv, Launch \/ NothingPending \/ RefuseToStart \/ StartFails
  PROVE  Inv'
<1>1. /\ UNCHANGED <<directory, stage, marker, service, switch, tampered>>
      /\ status' \in {"none", "applied", "rolled_back"} /\ faults' \in Nat
      /\ \/ at = "off" /\ at' = "starting" /\ status' = "none"
         \/ at = "starting" /\ at' = "running" /\ marker = NoJob
         \/ at = "starting" /\ at' = "refused"
  BY DEF Launch, NothingPending, RefuseToStart, StartFails, Decides, Fails, Goto, Fault,
         Inv, TypeOK
<1>2. TypeOK'
  BY <1>1 DEF Inv, TypeOK, directory, stage, switch, service
<1>3. ServiceFits' /\ DirectoryFits'
  BY <1>1 DEF Inv, ServiceFits, DirectoryFits, Interrupted, directory, service
<1> QED
  BY <1>1, <1>2, <1>3, OutsideInv DEF Steps, UndoSteps

-----------------------------------------------------------------------------
(* The switch.  Of the invariant, a step of it has to show the types, that   *)
(* the switch goes on, and what its phase says.                             *)
StaysInSwitch ==
    /\ UNCHANGED <<marker, service, before>> /\ was' = was
    /\ \A j \in Jobs : rollback[j] = NoDirectory <=> rollback'[j] = NoDirectory
    /\ rollback'[job] \in Files

LEMMA SwitchInv ==
  ASSUME Inv, at \in Steps, at' \in Steps \cup {"refused"}, StaysInSwitch, TypeOK',
         at' \in Steps => PhaseFits'
  PROVE  Inv'
<1>1. /\ job \in Jobs /\ marker = job /\ Interrupted /\ before' = before /\ marker' = marker
      /\ prepared' = prepared /\ was' = was
  BY MarkerTells DEF Inv, SwitchFits, StaysInSwitch, service
<1>2. Interrupted'
  BY <1>1 DEF Interrupted, StaysInSwitch
<1>3. at # "running" /\ at' \notin {"running", "starting"}
  BY DEF Steps, UndoSteps
<1>4. ServiceFits'
  BY <1>1, <1>3 DEF Inv, ServiceFits
<1>5. DirectoryFits'
  BY <1>2, <1>3, <1>4 DEF DirectoryFits, Steps, UndoSteps
<1>6. SwitchFits'
  BY <1>1 DEF Inv, SwitchFits, StaysInSwitch, job
<1>7. PhaseFits'
  BY DEF PhaseFits, Steps, UndoSteps
<1> QED
  BY <1>4, <1>5, <1>6, <1>7 DEF Inv

(* A step that decides leaves everything in its place.                       *)
LEMMA DecideInv ==
  ASSUME Inv, at \in Steps, at' \in Steps \cup {"refused"}, faults' \in Nat,
         UNCHANGED <<directory, stage, marker, status, service, switch, tampered>>,
         at' \in Steps => PhaseFits'
  PROVE  Inv'
<1>1. TypeOK'
  BY DEF Inv, TypeOK, directory, stage, switch, service, Steps
<1>2. StaysInSwitch
  BY DEF Inv, SwitchFits, StaysInSwitch, directory, switch
<1> QED
  BY <1>1, <1>2, SwitchInv

(* What the switch works on.                                                *)
LEMMA SwitchFacts ==
  ASSUME Inv, at \in Steps
  PROVE  /\ job \in Jobs /\ marker = job /\ rollback[job] \in Files /\ old \in Files
         /\ current \in Files /\ before.files \in Files /\ before.job = job
         /\ before = [job |-> before.job, files |-> before.files]
         /\ was = {c \in Components : before.files[c] # Absent} /\ moved \subseteq was
         /\ current = [c \in Components |-> current[c]] /\ old = [c \in Components |-> old[c]]
         /\ before.files = [c \in Components |-> before.files[c]]
         /\ rollback = [j \in Jobs |-> rollback[j]] /\ staged = [j \in Jobs |-> staged[j]]
         /\ failed = [j \in Jobs |-> failed[j]]
         /\ rollback \in [Jobs -> Files \cup {NoDirectory}]
         /\ staged \in [Jobs -> SUBSET {"database", "materials"}]
         /\ failed \in [Jobs -> Files \cup {NoDirectory}]
BY DEF Inv, SwitchFits, TypeOK, job, old, Present, Files

(* Every file that was somewhere in the directories still is.                *)
Keeps == \A kept \in Kept : kept[2] # Absent => kept \in Kept'

LEMMA NothingIsLost ==
  ASSUME \A c \in Components : current[c] # Absent =>
           \/ current'[c] = current[c]
           \/ \E j \in Jobs : rollback'[j] # NoDirectory /\ rollback'[j][c] = current[c]
           \/ \E j \in Jobs : failed'[j] # NoDirectory /\ failed'[j][c] = current[c],
         \A j \in Jobs : rollback[j] # NoDirectory =>
           /\ rollback'[j] # NoDirectory
           /\ \A c \in Components : rollback[j][c] # Absent =>
                rollback'[j][c] = rollback[j][c] \/ current'[c] = rollback[j][c],
         \A j \in Jobs : failed[j] # NoDirectory =>
           /\ failed'[j] # NoDirectory
           /\ \A c \in Components : failed[j][c] # Absent => failed'[j][c] = failed[j][c]
  PROVE  Keeps
<1>1. /\ \A c \in Components : <<c, current'[c]>> \in Kept'
      /\ \A j \in Jobs, c \in Components :
            rollback'[j] # NoDirectory => <<c, rollback'[j][c]>> \in Kept'
      /\ \A j \in Jobs, c \in Components :
            failed'[j] # NoDirectory => <<c, failed'[j][c]>> \in Kept'
  BY DEF Kept, Copies
<1>2. SUFFICES ASSUME NEW c \in Components, NEW files \in Copies, files[c] # Absent
               PROVE  <<c, files[c]>> \in Kept'
  BY DEF Keeps, Kept
<1>3. CASE files = current
  BY <1>1, <1>2, <1>3
<1>4. ASSUME NEW j \in Jobs, rollback[j] # NoDirectory, files = rollback[j]
      PROVE  <<c, files[c]>> \in Kept'
  BY <1>1, <1>2, <1>4
<1>5. ASSUME NEW j \in Jobs, failed[j] # NoDirectory, files = failed[j]
      PROVE  <<c, files[c]>> \in Kept'
  BY <1>1, <1>2, <1>5
<1> QED
  BY <1>3, <1>4, <1>5 DEF Copies

LEMMA UntouchedKeeps ==
  ASSUME UNCHANGED directory
  PROVE  Keeps
BY DEF directory, Keeps, Kept, Copies

LEMMA StartSwitchInv ==
  ASSUME Inv, StartSwitch
  PROVE  Inv' /\ Keeps
<1>1. /\ marker # NoJob /\ rollback[marker] = NoDirectory /\ "database" \in staged[marker]
      /\ at = "starting" /\ at' = "moving_old"
      /\ was' = Present(current) /\ moved' = {}
      /\ before' = [job |-> marker, files |-> current]
      /\ rollback' = [rollback EXCEPT ![marker] = Empty]
      /\ UNCHANGED <<current, failed, stage, marker, status, service, tampered, faults>>
  BY DEF StartSwitch, DatabaseLooksUsable, Goto
<1>2. /\ marker \in Jobs /\ current \in Files /\ Whole(current)
      /\ current = [c \in Components |-> current[c]]
      /\ rollback \in [Jobs -> Files \cup {NoDirectory}]
  BY <1>1 DEF Inv, TypeOK, DirectoryFits, Interrupted, Files
<1>3. rollback' \in [Jobs -> Files \cup {NoDirectory}] /\ rollback'[marker] = Empty
  BY <1>1, <1>2, EmptyIs
<1>4. before' \in [job : Jobs \cup {NoJob}, files : Files] /\ before'.job = marker
      /\ before'.files = current
  BY <1>1, <1>2
<1>5. was' \subseteq Components /\ \A c \in Components : c \in was' <=> current[c] # Absent
  BY <1>1 DEF Present
<1>6. TypeOK'
  BY <1>1, <1>3, <1>4, <1>5 DEF Inv, TypeOK, stage, service, UndoSteps
<1>7. ServiceFits'
  BY <1>1 DEF Inv, ServiceFits, service
<1>8. DirectoryFits'
  BY <1>1 DEF DirectoryFits
<1>9. SwitchFits'
  BY <1>1, <1>2, <1>3, <1>4, EmptyIs DEF SwitchFits, job, Present
<1>10. OldFits(moved)' /\ RestFits' /\ ("database" \in staged[job])'
  BY <1>1, <1>3, <1>4, <1>5, EmptyIs DEF OldFits, RestFits, old, job, stage
<1>11. PhaseFits'
  BY <1>1, <1>10 DEF PhaseFits
<1>12. Keeps
  <2>1. \A j \in Jobs : rollback[j] # NoDirectory => rollback'[j] = rollback[j]
    BY <1>1, <1>2
  <2>2. current' = current /\ failed' = failed
    BY <1>1
  <2> QED
    BY <2>1, <2>2, NothingIsLost
<1> QED
  BY <1>6, <1>7, <1>8, <1>9, <1>11, <1>12 DEF Inv

LEMMA MoveOldInv ==
  ASSUME Inv, MoveOld
  PROVE  Inv' /\ Keeps
<1>1. at = "moving_old" /\ at \in Steps
  BY DEF MoveOld, Moves, Decides, Goto, Steps
<1>2. CASE current[ToMove] = Absent
  <2>1. at' = "undoing_moves" /\ Decides("moving_old", "undoing_moves")
    BY <1>2 DEF MoveOld, Decides, Goto
  <2>2. UNCHANGED <<directory, stage, marker, status, service, switch, tampered, faults>>
    BY <2>1 DEF Decides
  <2>3. PhaseFits'
    BY <1>1, <2>1, <2>2 DEF Inv, PhaseFits, OldFits, RestFits, old, job, directory, switch
  <2>4. faults' \in Nat
    BY <2>2 DEF Inv, TypeOK
  <2> QED
    BY <1>1, <2>1, <2>2, <2>3, <2>4, DecideInv, UntouchedKeeps DEF Steps, UndoSteps
<1>3. CASE current[ToMove] # Absent
  <2>1. /\ at' = "moving_old" /\ was # moved
        /\ rollback' = [rollback EXCEPT ![job][ToMove] = current[ToMove]]
        /\ current' = [current EXCEPT ![ToMove] = Absent]
        /\ moved' = moved \cup {ToMove}
        /\ UNCHANGED <<failed, staged, was, damaged, marker, status, service, before,
                       tampered, faults>>
    BY <1>3 DEF MoveOld, Moves, Goto
  <2>2. PICK c : c = ToMove
    OBVIOUS
  <2>3. c \in was \ moved /\ c \in Components
    BY <1>1, <2>1, <2>2, SwitchFacts, FirstIsIn DEF ToMove
  <2>4. /\ rollback' = [rollback EXCEPT ![job] = [rollback[job] EXCEPT ![c] = current[c]]]
        /\ current' = [current EXCEPT ![c] = Absent] /\ moved' = moved \cup {c}
    BY <2>1, <2>2
  <2>5. /\ current'[c] = Absent /\ \A d \in Components : d # c => current'[d] = current[d]
        /\ current' \in Files
    BY <1>1, <2>3, <2>4, SwitchFacts, Sentinels DEF Files
  <2>6. /\ rollback'[job] = [rollback[job] EXCEPT ![c] = current[c]]
        /\ \A j \in Jobs : j # job => rollback'[j] = rollback[j]
        /\ rollback'[job] \in Files /\ rollback' \in [Jobs -> Files \cup {NoDirectory}]
    <3>1. [rollback[job] EXCEPT ![c] = current[c]] \in Files
      BY <1>1, <2>3, SwitchFacts DEF Files
    <3> QED
      BY <1>1, <2>4, <3>1, SwitchFacts
  <2>7. /\ rollback'[job][c] = current[c]
        /\ \A d \in Components : d # c => rollback'[job][d] = rollback[job][d]
    BY <1>1, <2>3, <2>6, SwitchFacts DEF Files
  <2>8. TypeOK'
    BY <1>1, <2>1, <2>3, <2>4, <2>5, <2>6 DEF Inv, TypeOK, service
  <2>9. StaysInSwitch
    BY <1>1, <2>1, <2>6, SwitchFacts, Sentinels DEF StaysInSwitch
  <2>10. OldFits(moved)'
    <3>1. current[c] = before.files[c] \/ (c = "database" /\ current[c] = Foreign)
      BY <1>1, <1>3, <2>2, <2>3 DEF Inv, PhaseFits, RestFits
    <3> QED
      BY <1>1, <2>1, <2>3, <2>4, <2>7, <3>1 DEF Inv, PhaseFits, OldFits, old, job
  <2>11. RestFits'
    BY <1>1, <2>1, <2>3, <2>4, <2>5 DEF Inv, PhaseFits, RestFits
  <2>12. PhaseFits'
    BY <1>1, <2>1, <2>10, <2>11 DEF Inv, PhaseFits, job
  <2>13. Keeps
    <3>1. rollback[job][c] = Absent /\ rollback[job] # NoDirectory /\ rollback'[job] # NoDirectory
      BY <1>1, <2>3, <2>6, SwitchFacts, Sentinels DEF Inv, PhaseFits, OldFits, old
    <3>2. \A j \in Jobs, d \in Components :
             rollback[j][d] # Absent => rollback'[j][d] = rollback[j][d]
      BY <2>6, <2>7, <3>1
    <3>3. \A d \in Components : current'[d] = current[d] \/ rollback'[job][d] = current[d]
      BY <2>5, <2>7
    <3>4. \A j \in Jobs : rollback[j] # NoDirectory => rollback'[j] # NoDirectory
      BY <2>6, <3>1
    <3>5. failed' = failed /\ job \in Jobs
      BY <1>1, <2>1, SwitchFacts
    <3> QED
      BY <3>1, <3>2, <3>3, <3>4, <3>5, NothingIsLost
  <2> QED
    BY <1>1, <2>1, <2>8, <2>9, <2>12, <2>13, SwitchInv
<1> QED
  BY <1>2, <1>3

(* A complete rollback directory is the old directory.                       *)
LEMMA CompleteIsOld ==
  ASSUME Inv, at \in Steps, OldFits(was), OldIsComplete
  PROVE  OldIsWhole
<1>1. \A c \in Components : old[c] = before.files[c]
  BY SwitchFacts DEF OldFits, OldIsComplete, Present
<1> QED
  BY <1>1, SwitchFacts DEF OldIsWhole

LEMMA CheckMovedInv ==
  ASSUME Inv, CheckMoved
  PROVE  Inv'
<1>1. /\ at = "moving_old" /\ at \in Steps /\ was = moved
      /\ at' = IF OldIsComplete /\ Present(current) = {}
               THEN "installing_database" ELSE "switch_failed"
      /\ UNCHANGED <<directory, stage, marker, status, service, switch, tampered, faults>>
  BY DEF CheckMoved, Decides, Goto, Steps
<1>2. /\ OldFits(was) /\ RestFits /\ "database" \in staged[job]
  BY <1>1 DEF Inv, PhaseFits
<1>3. NothingElse
  BY <1>1, <1>2 DEF RestFits, NothingElse, CandidateComponents
<1>4. OldIsComplete => OldIsWhole
  BY <1>1, <1>2, CompleteIsOld
<1>5. /\ OldFits(was)' /\ NothingElse' /\ ("database" \in staged[job])'
      /\ OldIsComplete => OldIsWhole'
      /\ Present(current)' = Present(current)
  BY <1>1, <1>2, <1>3, <1>4 DEF OldFits, NothingElse, OldIsWhole, old, job, directory, switch,
                                stage, Present
<1>6. PhaseFits'
  BY <1>1, <1>5 DEF PhaseFits
<1> QED
  BY <1>1, <1>6, DecideInv DEF Steps, UndoSteps, Inv, TypeOK

(* Whatever the switch had done when it failed.                              *)
LEMMA FailsInv ==
  ASSUME Inv, MoveFails \/ SwitchFails \/ UndoFails
  PROVE  Inv'
<1>1. /\ at \in Steps /\ faults' \in Nat
      /\ UNCHANGED <<directory, stage, marker, status, service, switch, tampered>>
      /\ \/ at = "moving_old" /\ at' = "undoing_moves"
         \/ at = "moving_old" /\ at' = "switch_failed" /\ was = moved
         \/ /\ at \in {"installing_database", "installing_materials", "clearing_marker"}
            /\ at' = "switch_failed"
         \/ at \in UndoSteps /\ at' = "refused"
  BY DEF MoveFails, SwitchFails, UndoFails, Fails, Goto, Fault, Steps, Inv, TypeOK
<1>2. CASE at = "moving_old" /\ at' = "undoing_moves"
  <2>1. PhaseFits'
    BY <1>1, <1>2 DEF Inv, PhaseFits, OldFits, RestFits, old, job, directory, switch
  <2> QED
    BY <1>1, <1>2, <2>1, DecideInv DEF Steps, UndoSteps
<1>3. CASE at' = "switch_failed"
  <2>1. OldFits(was) /\ NothingElse
    <3>1. CASE at = "moving_old"
      BY <1>1, <1>3, <3>1 DEF Inv, PhaseFits, RestFits, NothingElse, CandidateComponents
    <3>2. CASE at \in {"installing_database", "installing_materials", "clearing_marker"}
      <4>1. OldIsWhole /\ NothingElse
        BY <3>2 DEF Inv, PhaseFits, Present, NothingElse, CandidateComponents
      <4> QED
        BY <1>1, <4>1, SwitchFacts DEF OldIsWhole, OldFits
    <3> QED
      BY <1>1, <1>3, <3>1, <3>2 DEF UndoSteps
  <2>2. PhaseFits'
    BY <1>1, <1>3, <2>1 DEF PhaseFits, OldFits, NothingElse, old, job, directory, switch
  <2> QED
    BY <1>1, <1>3, <2>2, DecideInv DEF Steps, UndoSteps
<1>4. CASE at' = "refused"
  BY <1>1, <1>4, DecideInv DEF Steps, UndoSteps
<1> QED
  BY <1>1, <1>2, <1>3, <1>4

-----------------------------------------------------------------------------
(* The candidate.                                                           *)
LEMMA InstallInv ==
  ASSUME Inv, InstallDatabase \/ InstallMaterials
  PROVE  Inv' /\ Keeps
<1> DEFINE component == IF at = "installing_database" THEN "database" ELSE "materials"
<1>1. /\ at \in {"installing_database", "installing_materials"} /\ at \in Steps
      /\ at' = IF at = "installing_database" THEN "installing_materials" ELSE "validating"
      /\ IF component \in staged[job]
         THEN /\ current' = [current EXCEPT ![component] = job]
              /\ staged' = [staged EXCEPT ![job] = @ \ {component}]
         ELSE UNCHANGED <<current, staged>>
      /\ UNCHANGED <<rollback, failed, was, moved, damaged, marker, status, service, before,
                     tampered, faults>>
  BY DEF InstallDatabase, InstallMaterials, Install, Moves, Goto, Steps
<1>2. component \in {"database", "materials"} /\ component \in Components
  BY ComponentsAre
<1>3. PICK c : c = component
  OBVIOUS
<1>4. /\ current' \in Files /\ staged' \in [Jobs -> SUBSET {"database", "materials"}]
      /\ \A d \in Components : d # c => current'[d] = current[d]
      /\ c \in staged[job] => current'[c] = job
      /\ c \notin staged[job] => current'[c] = current[c]
  <2>1. job \in Content
    BY <1>1, SwitchFacts, Sentinels
  <2> HIDE DEF component
  <2>2. CASE c \in staged[job]
    BY <1>1, <1>2, <1>3, <2>1, <2>2, SwitchFacts DEF Files
  <2>3. CASE c \notin staged[job]
    BY <1>1, <1>2, <1>3, <2>1, <2>3, SwitchFacts DEF Files
  <2> QED
    BY <2>2, <2>3
<1>5. TypeOK'
  BY <1>1, <1>4 DEF Inv, TypeOK, service
<1>6. StaysInSwitch
  BY <1>1, SwitchFacts DEF StaysInSwitch
<1>7. OldIsWhole /\ OldIsWhole'
  BY <1>1 DEF Inv, PhaseFits, OldIsWhole, old, job
<1>8. Keeps
  <2>1. current[c] = Absent
    BY <1>1, <1>3, ComponentsAre DEF Inv, PhaseFits, Present
  <2>2. \A d \in Components : current[d] # Absent => current'[d] = current[d]
    BY <1>4, <2>1
  <2>3. rollback' = rollback /\ failed' = failed
    BY <1>1
  <2> QED
    BY <2>2, <2>3, NothingIsLost
<1>9. CASE at = "installing_database"
  <2>1. c = "database" /\ c \in staged[job] /\ \A d \in Components : current[d] = Absent
    BY <1>3, <1>9 DEF Inv, PhaseFits, Present
  <2>2. current'["database"] = job /\ \A d \in Components : d # "database" => current'[d] = Absent
    BY <1>4, <2>1
  <2>3. job # Absent /\ "database" \in Components
    BY <1>1, SwitchFacts, Sentinels, ComponentsAre
  <2>4. Present(current') = {"database"}
    BY <2>2, <2>3 DEF Present
  <2>5. PhaseFits'
    BY <1>1, <1>7, <1>9, <2>2, <2>4 DEF PhaseFits, job, Present
  <2> QED
    BY <1>1, <1>5, <1>6, <1>9, <1>8, <2>5, SwitchInv DEF Steps
<1>10. CASE at = "installing_materials"
  <2>1. /\ c = "materials" /\ current["database"] = job
        /\ \A d \in Components : d # "database" => current[d] = Absent
    BY <1>3, <1>10 DEF Inv, PhaseFits, Present
  <2>2. /\ current'["database"] = job /\ current'["materials"] \in {job, Absent}
        /\ \A d \in Components \ {"database", "materials"} : current'[d] = Absent
    BY <1>4, <2>1, ComponentsAre
  <2>3. Present(current') \subseteq {"database", "materials"}
    BY <2>2 DEF Present
  <2>4. PhaseFits'
    BY <1>1, <1>7, <1>10, <2>2, <2>3 DEF PhaseFits, job, Present
  <2> QED
    BY <1>1, <1>5, <1>6, <1>10, <1>8, <2>4, SwitchInv DEF Steps
<1> QED
  BY <1>1, <1>9, <1>10

LEMMA ValidateInv ==
  ASSUME Inv, ValidateInstalled \/ ValidationFails
  PROVE  /\ Inv'
         /\ Keeps
<1>1. /\ at = "validating" /\ at \in Steps /\ at' \in {"clearing_marker", "switch_failed"}
      /\ faults' \in Nat
      /\ UNCHANGED <<rollback, failed, stage, marker, status, service, switch, tampered>>
  BY DEF ValidateInstalled, ValidationFails, OpensForValidation, Goto, Fault, Steps, Inv, TypeOK
<1>2. PICK sidecars \in {{}, {"wal", "shm"}} :
        current' = [c \in Components |-> IF c \in sidecars THEN job ELSE current[c]]
  BY DEF ValidateInstalled, ValidationFails, OpensForValidation
<1>3. /\ OldIsWhole /\ current["database"] = job /\ current["materials"] \in {job, Absent}
      /\ \A c \in Components \ {"database", "materials"} : current[c] = Absent
  BY <1>1 DEF Inv, PhaseFits, Present
<1>4. /\ \A c \in Components : current'[c] = IF c \in sidecars THEN job ELSE current[c]
      /\ current' \in Files
  <2>1. job \in Content
    BY <1>1, SwitchFacts, Sentinels
  <2> QED
    BY <1>1, <1>2, <2>1, SwitchFacts DEF Files
<1>5. \A c \in Components : current[c] # Absent => current'[c] = current[c]
  BY <1>3, <1>4
<1>6. /\ current'["database"] = job /\ \A c \in Components : current'[c] \in {job, Absent}
      /\ \A c \in Components \ CandidateComponents : current'[c] = Absent
  BY <1>3, <1>4, ComponentsAre DEF CandidateComponents
<1>7. TypeOK'
  BY <1>1, <1>4 DEF Inv, TypeOK, service, stage, switch, UndoSteps
<1>8. StaysInSwitch
  BY <1>1, SwitchFacts DEF StaysInSwitch, switch
<1>9. OldIsWhole' /\ NothingElse' /\ OldFits(was)' /\ job' = job
  <2>1. OldFits(was)
    BY <1>1, <1>3, SwitchFacts DEF OldFits, OldIsWhole
  <2> QED
    BY <1>1, <1>3, <1>6, <2>1 DEF OldIsWhole, NothingElse, OldFits, old, job, switch
<1>10. PhaseFits'
  BY <1>1, <1>6, <1>9 DEF PhaseFits
<1>11. Keeps
  BY <1>1, <1>5, NothingIsLost
<1> QED
  BY <1>1, <1>11, <1>7, <1>8, <1>10, SwitchInv DEF Steps, UndoSteps

LEMMA FinishInv ==
  ASSUME Inv, FinishApplied \/ FinishRolledBack
  PROVE  Inv'
<1>1. /\ at \in {"clearing_marker", "clearing_undone"} /\ at \in Steps /\ at' = "running"
      /\ marker' = NoJob /\ status' \in {"applied", "rolled_back"}
      /\ UNCHANGED <<directory, stage, service, switch, tampered, faults>>
  BY DEF FinishApplied, FinishRolledBack, Settles, Goto, Steps, UndoSteps
<1>2. Whole(current)
  <2>1. CASE at = "clearing_marker"
    <3>1. job \in DataSets /\ \A c \in Components : current[c] \in {job, Absent}
      BY <1>1, <2>1, SwitchFacts, Sentinels DEF Inv, PhaseFits
    <3> QED
      BY <3>1 DEF Whole
  <2>2. CASE at = "clearing_undone"
    BY <1>1, <2>2 DEF Inv, PhaseFits, SwitchFits
  <2> QED
    BY <1>1, <2>1, <2>2
<1>3. TypeOK'
  BY <1>1 DEF Inv, TypeOK, directory, stage, service, switch
<1>4. ServiceFits' /\ DirectoryFits'
  BY <1>1, <1>2 DEF Inv, ServiceFits, DirectoryFits, Interrupted, Whole, directory, service
<1> QED
  BY <1>1, <1>3, <1>4, OutsideInv DEF Steps, UndoSteps

-----------------------------------------------------------------------------
(* The undoing.                                                             *)
LEMMA CheckSplitInv ==
  ASSUME Inv, CheckSplit
  PROVE  Inv'
<1>1. /\ at = "undoing_moves" /\ at \in Steps
      /\ at' = IF SplitIsProven THEN "moving_back" ELSE "refused"
      /\ UNCHANGED <<directory, stage, marker, status, service, switch, tampered, faults>>
  BY DEF CheckSplit, Decides, Goto, Steps, UndoSteps
<1>2. SplitIsProven => SplitFits
  <2> SUFFICES ASSUME SplitIsProven, NEW c \in Components
               PROVE  IF c \in moved THEN old[c] = before.files[c] /\ current[c] = Absent
                                     ELSE old[c] = Absent /\ current[c] = before.files[c]
    BY DEF SplitFits
  <2>1. OldFits(moved) /\ RestFits
    BY <1>1 DEF Inv, PhaseFits
  <2>2. /\ current[c] # Absent <=> c \in was \ moved
        /\ old[c] # Absent <=> c \in moved
        /\ c \in was <=> before.files[c] # Absent
        /\ moved \subseteq was
    BY <1>1, SwitchFacts DEF SplitIsProven
  <2>3. "database" \in was =>
          (IF "database" \in moved THEN old ELSE current)["database"] = before.files["database"]
    BY DEF SplitIsProven
  <2>4. CASE c \in moved
    BY <2>1, <2>2, <2>3, <2>4 DEF OldFits
  <2>5. CASE c \notin moved /\ c \in was
    BY <2>1, <2>2, <2>3, <2>5 DEF RestFits
  <2>6. CASE c \notin was
    BY <2>2, <2>6
  <2> QED
    BY <2>4, <2>5, <2>6
<1>3. PhaseFits'
  BY <1>1, <1>2 DEF PhaseFits, SplitFits, old, job, directory, switch
<1> QED
  BY <1>1, <1>3, DecideInv DEF Steps, UndoSteps, Inv, TypeOK

(* A component returns to where it was.                                      *)
LEMMA Returns ==
  ASSUME Inv, at \in Steps, NEW c \in Components, ReturnsToCurrent(c)
  PROVE  /\ current' \in Files /\ rollback' \in [Jobs -> Files \cup {NoDirectory}]
         /\ rollback'[job] \in Files /\ current'[c] = old[c] /\ rollback'[job][c] = Absent
         /\ \A j \in Jobs : j # job => rollback'[j] = rollback[j]
         /\ \A d \in Components : d # c => /\ current'[d] = current[d]
                                           /\ rollback'[job][d] = old[d]
<1>1. /\ current' = [current EXCEPT ![c] = old[c]]
      /\ rollback' = [rollback EXCEPT ![job] = [rollback[job] EXCEPT ![c] = Absent]]
  BY DEF ReturnsToCurrent
<1>2. current' \in Files /\ current'[c] = old[c]
      /\ \A d \in Components : d # c => current'[d] = current[d]
  BY <1>1, SwitchFacts DEF Files
<1>3. PICK r : r = [rollback[job] EXCEPT ![c] = Absent]
  OBVIOUS
<1>4. r \in Files /\ r[c] = Absent /\ \A d \in Components : d # c => r[d] = old[d]
  BY <1>3, SwitchFacts, Sentinels DEF Files, old
<1>5. /\ rollback'[job] = r /\ \A j \in Jobs : j # job => rollback'[j] = rollback[j]
      /\ rollback' \in [Jobs -> Files \cup {NoDirectory}]
  BY <1>1, <1>3, <1>4, SwitchFacts
<1> QED
  BY <1>2, <1>4, <1>5

LEMMA MoveBackInv ==
  ASSUME Inv, MoveBack
  PROVE  Inv' /\ Keeps
<1>1. /\ at = "moving_back" /\ at' = "moving_back" /\ at \in Steps /\ moved # {}
      /\ ReturnsToCurrent(Last(moved)) /\ moved' = moved \ {Last(moved)}
      /\ UNCHANGED <<failed, staged, was, damaged, marker, status, service, before,
                     tampered, faults>>
  BY DEF MoveBack, Moves, Goto, Steps, UndoSteps
<1>2. PICK c : c = Last(moved)
  OBVIOUS
<1>3. c \in moved /\ c \in Components /\ moved' = moved \ {c} /\ ReturnsToCurrent(c)
  <2>1. moved \subseteq Components
    BY <1>1, SwitchFacts
  <2> QED
    BY <1>1, <1>2, <2>1, FirstIsIn
<1>4. /\ current' \in Files /\ rollback' \in [Jobs -> Files \cup {NoDirectory}]
      /\ rollback'[job] \in Files /\ current'[c] = old[c] /\ rollback'[job][c] = Absent
      /\ \A j \in Jobs : j # job => rollback'[j] = rollback[j]
      /\ \A d \in Components : d # c => current'[d] = current[d] /\ rollback'[job][d] = old[d]
  BY <1>1, <1>3, Returns
<1>5. TypeOK'
  BY <1>1, <1>3, <1>4 DEF Inv, TypeOK, service
<1>6. StaysInSwitch
  BY <1>1, <1>4, SwitchFacts, Sentinels DEF StaysInSwitch
<1>7. SplitFits'
  <2>1. SplitFits
    BY <1>1 DEF Inv, PhaseFits
  <2>2. before' = before /\ old' = rollback'[job]
    BY <1>1 DEF old, job
  <2>3. ASSUME NEW d \in Components
        PROVE  IF d \in moved' THEN rollback'[job][d] = before.files[d] /\ current'[d] = Absent
                               ELSE rollback'[job][d] = Absent /\ current'[d] = before.files[d]
    <3>1. CASE d = c
      BY <1>3, <1>4, <2>1, <3>1 DEF SplitFits
    <3>2. CASE d # c
      BY <1>3, <1>4, <2>1, <3>2 DEF SplitFits
    <3> QED
      BY <3>1, <3>2
  <2> QED
    BY <2>2, <2>3 DEF SplitFits
<1>8. PhaseFits'
  BY <1>1, <1>7 DEF PhaseFits
<1>9. Keeps
  <2>1. current[c] = Absent
    BY <1>1, <1>3 DEF Inv, PhaseFits, SplitFits
  <2>2. \A d \in Components : rollback[job][d] # Absent =>
           rollback'[job][d] = rollback[job][d] \/ current'[d] = rollback[job][d]
    BY <1>4 DEF old
  <2>3. rollback[job] # NoDirectory /\ rollback'[job] # NoDirectory /\ failed' = failed
    BY <1>1, <1>4, SwitchFacts, Sentinels
  <2>4. \A d \in Components : current[d] # Absent => current'[d] = current[d]
    BY <1>4, <2>1
  <2>5. \A j \in Jobs : rollback[j] # NoDirectory =>
           /\ rollback'[j] # NoDirectory
           /\ \A d \in Components : rollback[j][d] # Absent =>
                rollback'[j][d] = rollback[j][d] \/ current'[d] = rollback[j][d]
    BY <1>4, <2>2, <2>3
  <2> QED
    BY <2>3, <2>4, <2>5, NothingIsLost
<1> QED
  BY <1>1, <1>5, <1>6, <1>8, <1>9, SwitchInv

LEMMA CheckBackInv ==
  ASSUME Inv, CheckMovedBack \/ CheckRestored
  PROVE  Inv'
<1>1. /\ at \in {"moving_back", "restoring_old"} /\ at \in Steps
      /\ at = "moving_back" => moved = {}
      /\ at = "restoring_old" => Present(old) = {}
      /\ at' \in {"clearing_undone", "refused"}
      /\ UNCHANGED <<directory, stage, marker, status, service, switch, tampered, faults>>
  BY DEF CheckMovedBack, CheckRestored, Decides, Goto, Steps, UndoSteps
<1>2. \A c \in Components : current[c] = before.files[c]
  <2>1. CASE at = "moving_back"
    BY <1>1, <2>1 DEF Inv, PhaseFits, SplitFits
  <2>2. CASE at = "restoring_old"
    BY <1>1, <2>2 DEF Inv, PhaseFits, BackFits, Present
  <2> QED
    BY <1>1, <2>1, <2>2
<1>3. current = before.files
  BY <1>1, <1>2, SwitchFacts
<1>4. PhaseFits'
  BY <1>1, <1>3 DEF PhaseFits, directory, switch
<1> QED
  BY <1>1, <1>4, DecideInv DEF Steps, UndoSteps, Inv, TypeOK

LEMMA CheckUndoInv ==
  ASSUME Inv, CheckUndo
  PROVE  Inv' /\ Keeps
<1>1. at = "switch_failed" /\ at \in Steps /\ OldFits(was) /\ NothingElse
  BY DEF CheckUndo, Decides, Moves, Goto, Steps, UndoSteps, Inv, PhaseFits
<1>2. OldIsComplete => OldIsWhole
  BY <1>1, CompleteIsOld
<1>3. CASE Decides("switch_failed", "restoring_old") /\ OldIsComplete /\ Present(current) = {}
  <2>1. BackFits
    BY <1>2, <1>3 DEF BackFits, OldIsWhole, Present
  <2>2. PhaseFits'
    BY <1>3, <2>1 DEF PhaseFits, BackFits, old, job, directory, switch, Decides, Goto
  <2> QED
    BY <1>1, <1>3, <2>2, DecideInv, UntouchedKeeps DEF Steps, UndoSteps, Inv, TypeOK, Decides, Goto
<1>4. CASE /\ Moves("switch_failed", "preserving")
           /\ OldIsComplete /\ Present(current) # {} /\ failed[job] = NoDirectory
           /\ failed' = [failed EXCEPT ![job] = Empty]
           /\ UNCHANGED <<current, rollback, staged, was, moved>>
  <2>1. /\ at' = "preserving" /\ failed' = [failed EXCEPT ![job] = Empty]
        /\ UNCHANGED <<current, rollback, staged, was, moved, damaged, marker, status,
                       service, before, tampered, faults>>
    BY <1>4 DEF Moves, Goto
  <2>2. failed' \in [Jobs -> Files \cup {NoDirectory}] /\ failed'[job] = Empty
    BY <1>1, <2>1, SwitchFacts, EmptyIs
  <2>3. TypeOK'
    BY <2>1, <2>2 DEF Inv, TypeOK, service, UndoSteps
  <2>4. StaysInSwitch
    BY <1>1, <2>1, SwitchFacts DEF StaysInSwitch
  <2>5. /\ OldIsWhole' /\ NothingElse' /\ job' = job
    BY <1>1, <1>2, <1>4, <2>1 DEF OldIsWhole, NothingElse, old, job
  <2>6. PhaseFits'
    BY <2>1, <2>2, <2>5, EmptyIs DEF PhaseFits
  <2>7. Keeps
    <3>1. \A j \in Jobs : failed[j] # NoDirectory => failed'[j] = failed[j]
      BY <1>1, <1>4, <2>1, SwitchFacts
    <3> QED
      BY <2>1, <3>1, NothingIsLost
  <2> QED
    BY <1>1, <2>1, <2>3, <2>4, <2>6, <2>7, SwitchInv DEF Steps, UndoSteps
<1>5. CASE Decides("switch_failed", "refused")
  BY <1>1, <1>5, DecideInv, UntouchedKeeps DEF Steps, UndoSteps, Inv, TypeOK, Decides, Goto
<1> QED
  BY <1>3, <1>4, <1>5 DEF CheckUndo

LEMMA PreserveInv ==
  ASSUME Inv, PreserveCandidate
  PROVE  Inv' /\ Keeps
<1>1. /\ at = "preserving" /\ at' = "preserving" /\ at \in Steps /\ Installed # {}
      /\ failed' = [failed EXCEPT ![job][First(Installed)] = current[First(Installed)]]
      /\ current' = [current EXCEPT ![First(Installed)] = Absent]
      /\ UNCHANGED <<rollback, staged, was, moved, damaged, marker, status, service, before,
                     tampered, faults>>
  BY DEF PreserveCandidate, Moves, Goto, Steps, UndoSteps
<1>2. PICK c : c = First(Installed)
  OBVIOUS
<1>3. c \in Components /\ current[c] # Absent
  <2>1. Installed \subseteq Components
    BY DEF Installed, Present
  <2>2. c \in Installed
    BY <1>1, <1>2, <2>1, FirstIsIn
  <2> QED
    BY <2>2 DEF Installed, Present
<1>4. /\ failed' = [failed EXCEPT ![job] = [failed[job] EXCEPT ![c] = current[c]]]
      /\ current' = [current EXCEPT ![c] = Absent]
  BY <1>1, <1>2
<1>5. /\ OldIsWhole /\ NothingElse /\ failed[job] \in Files
      /\ \A d \in Components : failed[job][d] = Absent \/ current[d] = Absent
  BY <1>1 DEF Inv, PhaseFits
<1>6. current' \in Files /\ current'[c] = Absent
      /\ \A d \in Components : d # c => current'[d] = current[d]
  BY <1>1, <1>3, <1>4, SwitchFacts, Sentinels DEF Files
<1>7. PICK r : r = [failed[job] EXCEPT ![c] = current[c]]
  OBVIOUS
<1>8. r \in Files /\ \A d \in Components : d # c => r[d] = failed[job][d]
  BY <1>1, <1>3, <1>5, <1>7, SwitchFacts DEF Files
<1>9. failed'[job] = r /\ failed' \in [Jobs -> Files \cup {NoDirectory}]
  <2>1. failed' = [failed EXCEPT ![job] = r]
    BY <1>4, <1>7
  <2>2. at \in Steps
    BY <1>1
  <2> QED
    BY <1>8, <2>1, <2>2, SwitchFacts
<1>10. TypeOK'
  BY <1>1, <1>6, <1>9 DEF Inv, TypeOK, service
<1>11. StaysInSwitch
  BY <1>1, SwitchFacts DEF StaysInSwitch
<1>12. OldIsWhole' /\ job' = job
  BY <1>1, <1>5 DEF OldIsWhole, old, job
<1>13. NothingElse'
  BY <1>5, <1>6 DEF NothingElse
<1>14. \A d \in Components : failed'[job][d] = Absent \/ current'[d] = Absent
  <2> SUFFICES ASSUME NEW d \in Components
               PROVE  failed'[job][d] = Absent \/ current'[d] = Absent
    OBVIOUS
  <2>1. CASE d = c
    BY <1>6, <2>1
  <2>2. CASE d # c
    BY <1>5, <1>6, <1>8, <1>9, <2>2
  <2> QED
    BY <2>1, <2>2
<1>15. PhaseFits'
  BY <1>1, <1>8, <1>9, <1>12, <1>13, <1>14 DEF PhaseFits
<1>16. Keeps
  <2>1. failed[job][c] = Absent /\ r[c] = current[c] /\ r # NoDirectory
    BY <1>1, <1>3, <1>5, <1>7, <1>8, Sentinels, SwitchFacts DEF Files
  <2>2. \A j \in Jobs : j # job => failed'[j] = failed[j]
    BY <1>1, <1>4
  <2>3. \A j \in Jobs : failed[j] # NoDirectory =>
           /\ failed'[j] # NoDirectory
           /\ \A d \in Components : failed[j][d] # Absent => failed'[j][d] = failed[j][d]
    BY <1>8, <1>9, <2>1, <2>2
  <2>4. \A d \in Components : current[d] # Absent =>
           current'[d] = current[d] \/ failed'[job][d] = current[d]
    BY <1>6, <1>9, <2>1
  <2>5. rollback' = rollback /\ job \in Jobs /\ failed'[job] # NoDirectory
    BY <1>1, <1>9, <2>1, SwitchFacts
  <2> QED
    BY <2>3, <2>4, <2>5, NothingIsLost
<1> QED
  BY <1>1, <1>10, <1>11, <1>15, <1>16, SwitchInv

LEMMA PreservedInv ==
  ASSUME Inv, CandidatePreserved
  PROVE  Inv'
<1>1. /\ at = "preserving" /\ at' = "restoring_old" /\ at \in Steps /\ Installed = {}
      /\ UNCHANGED <<directory, stage, marker, status, service, switch, tampered, faults>>
  BY DEF CandidatePreserved, Decides, Goto, Steps, UndoSteps
<1>2. BackFits
  BY <1>1 DEF Inv, PhaseFits, OldIsWhole, NothingElse, BackFits, Installed, Present
<1>3. PhaseFits'
  BY <1>1, <1>2 DEF PhaseFits, BackFits, old, job, directory, switch
<1> QED
  BY <1>1, <1>3, DecideInv DEF Steps, UndoSteps, Inv, TypeOK

LEMMA RestoreOldInv ==
  ASSUME Inv, RestoreOld
  PROVE  Inv' /\ Keeps
<1>1. /\ at = "restoring_old" /\ at' = "restoring_old" /\ at \in Steps /\ Present(old) # {}
      /\ ReturnsToCurrent(First(Present(old)))
      /\ UNCHANGED <<failed, staged, was, moved, damaged, marker, status, service, before,
                     tampered, faults>>
  BY DEF RestoreOld, Moves, Goto, Steps, UndoSteps
<1>2. PICK c : c = First(Present(old))
  OBVIOUS
<1>3. c \in Components /\ old[c] # Absent /\ ReturnsToCurrent(c)
  <2>1. Present(old) \subseteq Components
    BY DEF Present
  <2>2. c \in Present(old)
    BY <1>1, <1>2, <2>1, FirstIsIn
  <2> QED
    BY <1>1, <1>2, <2>2 DEF Present
<1>4. /\ current' \in Files /\ rollback' \in [Jobs -> Files \cup {NoDirectory}]
      /\ rollback'[job] \in Files /\ current'[c] = old[c] /\ rollback'[job][c] = Absent
      /\ \A j \in Jobs : j # job => rollback'[j] = rollback[j]
      /\ \A d \in Components : d # c => current'[d] = current[d] /\ rollback'[job][d] = old[d]
  BY <1>1, <1>3, Returns
<1>5. TypeOK'
  BY <1>1, <1>4 DEF Inv, TypeOK, service
<1>6. StaysInSwitch
  BY <1>1, <1>4, SwitchFacts, Sentinels DEF StaysInSwitch
<1>7. BackFits'
  <2>1. BackFits
    BY <1>1 DEF Inv, PhaseFits
  <2>2. before' = before /\ old' = rollback'[job]
    BY <1>1 DEF old, job
  <2>3. ASSUME NEW d \in Components
        PROVE  \/ rollback'[job][d] = before.files[d] /\ current'[d] = Absent
               \/ rollback'[job][d] = Absent /\ current'[d] = before.files[d]
    <3>1. CASE d = c
      BY <1>3, <1>4, <2>1, <3>1 DEF BackFits
    <3>2. CASE d # c
      BY <1>4, <2>1, <3>2 DEF BackFits
    <3> QED
      BY <3>1, <3>2
  <2> QED
    BY <2>2, <2>3 DEF BackFits
<1>8. PhaseFits'
  BY <1>1, <1>7 DEF PhaseFits
<1>9. Keeps
  <2>1. current[c] = Absent
    BY <1>1, <1>3 DEF Inv, PhaseFits, BackFits
  <2>2. \A d \in Components : rollback[job][d] # Absent =>
           rollback'[job][d] = rollback[job][d] \/ current'[d] = rollback[job][d]
    BY <1>4 DEF old
  <2>3. rollback[job] # NoDirectory /\ rollback'[job] # NoDirectory /\ failed' = failed
    BY <1>1, <1>4, SwitchFacts, Sentinels
  <2>4. \A d \in Components : current[d] # Absent => current'[d] = current[d]
    BY <1>4, <2>1
  <2>5. \A j \in Jobs : rollback[j] # NoDirectory =>
           /\ rollback'[j] # NoDirectory
           /\ \A d \in Components : rollback[j][d] # Absent =>
                rollback'[j][d] = rollback[j][d] \/ current'[d] = rollback[j][d]
    BY <1>4, <2>2, <2>3
  <2> QED
    BY <2>3, <2>4, <2>5, NothingIsLost
<1> QED
  BY <1>1, <1>5, <1>6, <1>8, <1>9, SwitchInv

-----------------------------------------------------------------------------
(* What happens to the disk meanwhile.                                      *)
LEMMA TamperInv ==
  ASSUME Inv, Tamper
  PROVE  Inv'
<1>1. /\ at \in {"moving_old", "undoing_moves"} /\ at' = at /\ at \in Steps
      /\ tampered' = TRUE
      /\ UNCHANGED <<rollback, failed, stage, marker, status, service, switch, faults>>
  BY DEF Tamper, Steps, UndoSteps
<1>2. PICK c \in CandidateComponents :
        \/ current' = [current EXCEPT ![c] = IF @ = Absent THEN Foreign ELSE Absent]
        \/ c = "database" /\ current' = [current EXCEPT ![c] = Foreign]
  BY DEF Tamper, CandidateComponents
<1>3. c \in Components
  BY ComponentsAre DEF CandidateComponents
<1>4. /\ current' \in Files /\ \A d \in Components : d # c => current'[d] = current[d]
      /\ \/ current[c] = Absent /\ current'[c] = Foreign
         \/ current'[c] = Absent
         \/ c = "database" /\ current'[c] = Foreign
  BY <1>1, <1>2, <1>3, SwitchFacts, Sentinels DEF Files
<1>5. TypeOK'
  BY <1>1, <1>4 DEF Inv, TypeOK, stage, service, switch
<1>6. StaysInSwitch
  BY <1>1, SwitchFacts DEF StaysInSwitch, switch
<1>7. OldFits(moved)' /\ ("database" \in staged[job])' = ("database" \in staged[job])
  BY <1>1 DEF Inv, PhaseFits, OldFits, old, job, switch, stage
<1>8. RestFits'
  <2>1. \A d \in Components :
           current[d] = (IF d \in was \ moved THEN before.files[d] ELSE Absent)
    BY <1>1 DEF Inv, PhaseFits, RestFits, Tamper
  <2>2. current[c] = Absent => c \notin was \ moved
    BY <1>1, <1>3, <2>1, SwitchFacts
  <2>3. UNCHANGED <<was, moved, before>>
    BY <1>1 DEF switch
  <2>4. ASSUME NEW d \in Components
        PROVE  \/ current'[d] = (IF d \in was \ moved THEN before.files[d] ELSE Absent)
               \/ d \in CandidateComponents /\ current'[d] = Absent
               \/ d \in CandidateComponents \ (was \ moved) /\ current'[d] = Foreign
               \/ d = "database" /\ current'[d] = Foreign
    <3>1. CASE d = c
      BY <1>2, <1>4, <2>2, <3>1
    <3>2. CASE d # c
      BY <1>4, <2>1, <3>2
    <3> QED
      BY <3>1, <3>2
  <2> QED
    BY <1>1, <2>3, <2>4 DEF RestFits
<1>9. PhaseFits'
  BY <1>1, <1>7, <1>8 DEF Inv, PhaseFits
<1> QED
  BY <1>1, <1>5, <1>6, <1>9, SwitchInv

LEMMA DamageInv ==
  ASSUME Inv, NEW j \in Jobs, DamageStage(j)
  PROVE  Inv'
<1>1. /\ damaged' = damaged \cup {j} /\ faults' \in Nat /\ at' = at
      /\ UNCHANGED <<directory, staged, marker, status, service, switch, tampered>>
  BY DEF DamageStage, Fault, Inv, TypeOK
<1>2. TypeOK'
  BY <1>1 DEF Inv, TypeOK, directory, service, switch
<1>3. ServiceFits' /\ DirectoryFits' /\ SwitchFits'
  BY <1>1 DEF Inv, ServiceFits, DirectoryFits, SwitchFits, Interrupted, Whole, Present, job,
              directory, service, switch
<1>4. PhaseFits'
  BY <1>1 DEF Inv, PhaseFits, OldFits, RestFits, SplitFits, BackFits, NothingElse, OldIsWhole,
              Present, old, job, directory, switch
<1> QED
  BY <1>2, <1>3, <1>4 DEF Inv

LEMMA SameInv == Inv /\ UNCHANGED vars => Inv'
<1> SUFFICES ASSUME Inv, UNCHANGED vars PROVE Inv'
  OBVIOUS
<1>1. UNCHANGED <<current, rollback, failed, staged, damaged, marker, at, status, prepared,
                  granted, writing, was, moved, before, tampered, faults>>
  BY DEF vars, directory, stage, service, switch
<1>2. TypeOK'
  BY <1>1 DEF Inv, TypeOK
<1>3. ServiceFits' /\ DirectoryFits' /\ SwitchFits'
  BY <1>1 DEF Inv, ServiceFits, DirectoryFits, SwitchFits, Interrupted, Whole, Present, job
<1>4. PhaseFits'
  BY <1>1 DEF Inv, PhaseFits, OldFits, RestFits, SplitFits, BackFits, NothingElse, OldIsWhole,
              Present, old, job
<1> QED
  BY <1>2, <1>3, <1>4 DEF Inv

-----------------------------------------------------------------------------
LEMMA StepInv == Inv /\ [Next]_vars => Inv'
<1> SUFFICES ASSUME Inv, [Next]_vars PROVE Inv'
  OBVIOUS
<1>1. CASE UNCHANGED vars
  BY <1>1, SameInv
<1>2. CASE Switch
  BY <1>2, StartInv, StartSwitchInv, MoveOldInv, CheckMovedInv, InstallInv, ValidateInv,
     FinishInv DEF Switch
<1>3. CASE Undo
  BY <1>3, CheckSplitInv, MoveBackInv, CheckBackInv, CheckUndoInv, PreserveInv, PreservedInv,
     RestoreOldInv, FinishInv DEF Undo
<1>4. CASE Service
  BY <1>4, ServiceInv DEF Service
<1>5. CASE Failure
  BY <1>5, StartInv, FailsInv, ValidateInv, StopInv, TamperInv, ServiceInv, DamageInv
     DEF Failure
<1>6. CASE UseApplication \/ Launch \/ ExitForRestore \/ Quit
  BY <1>6, UseInv, StartInv, StopInv
<1> QED
  BY <1>1, <1>2, <1>3, <1>4, <1>5, <1>6 DEF Next, Startup

LEMMA AlwaysInv == Spec => []Inv
BY InitInv, StepInv, PTL DEF Spec

(* Whatever failed or crashed, and whatever another program did to the        *)
(* database meanwhile, the application opens the files of one data set, and    *)
(* never on top of an interrupted switch (RestoreConsistent).                *)
THEOREM OpensWholeDirectories == Spec => []RestoreConsistent
<1>1. Inv => RestoreConsistent
  <2> SUFFICES ASSUME Inv PROVE RestoreConsistent
    OBVIOUS
  <2>1. at = "running" => \E set \in DataSets : \A c \in Components : current[c] \in {set, Absent}
    BY DEF Inv, DirectoryFits, Whole
  <2>2. at = "running" /\ marker # NoJob => rollback[marker] = NoDirectory
    BY DEF Inv, DirectoryFits, Interrupted
  <2> QED
    BY <2>1, <2>2 DEF RestoreConsistent, OpensOneDataSet, Present, Inv
<1> QED
  BY <1>1, AlwaysInv, PTL

-----------------------------------------------------------------------------
(* A switch that ends has moved everything, in one direction.                *)
EndsExactly ==
    at' = "running" /\ at # "running" =>
      /\ status' = "rolled_back" => current' = before.files
      /\ status' = "applied" => current'.database = job /\ rollback'[job] = before.files

LEMMA EndsExact ==
  ASSUME Inv, Next, at' = "running", at # "running"
  PROVE  EndsExactly
<1>1. NothingPending \/ FinishApplied \/ FinishRolledBack
  <2>1. \A j \in Jobs : at' = at \/ ~(Preview(j) \/ RequestConfirmation(j) \/ ExpireToken(j)
          \/ Confirm(j) \/ WriteMarker(j) \/ WriteMarkerFails(j) \/ DamageStage(j))
    BY DEF Preview, RequestConfirmation, ExpireToken, Confirm, WriteMarker, WriteMarkerFails,
           DamageStage
  <2>2. ~Service
    BY <2>1 DEF Service
  <2>3. ~Undo \/ FinishRolledBack
    BY DEF Undo, CheckSplit, MoveBack, CheckMovedBack, CheckUndo, PreserveCandidate,
           CandidatePreserved, RestoreOld, CheckRestored, Decides, Moves, Goto
  <2>4. ~Failure
    BY <2>1 DEF Failure, StartFails, MoveFails, SwitchFails, ValidationFails, UndoFails, Crash,
           Tamper, Fails, Stops, Goto
  <2>5. Switch => NothingPending \/ FinishApplied
    BY DEF Switch, RefuseToStart, StartSwitch, MoveOld, CheckMoved, InstallDatabase,
           InstallMaterials, Install, ValidateInstalled, Decides, Moves, Goto
  <2>6. ~(UseApplication \/ Launch \/ ExitForRestore \/ Quit)
    BY DEF UseApplication, Launch, ExitForRestore, Quit, Stops, Goto
  <2> QED
    BY <2>2, <2>3, <2>4, <2>5, <2>6 DEF Next, Startup
<1>2. CASE NothingPending
  <2>1. status' = status /\ status = "none"
    BY <1>2 DEF NothingPending, Decides, Goto, Inv, ServiceFits
  <2> QED
    BY <2>1 DEF EndsExactly
<1>3. CASE FinishApplied
  <2>1. at = "clearing_marker" /\ status' = "applied" /\ UNCHANGED <<directory, switch>>
    BY <1>3 DEF FinishApplied, Settles, Goto
  <2>2. OldIsWhole /\ current["database"] = job
    BY <2>1 DEF Inv, PhaseFits
  <2> QED
    BY <2>1, <2>2 DEF EndsExactly, OldIsWhole, old, directory
<1>4. CASE FinishRolledBack
  <2>1. at = "clearing_undone" /\ status' = "rolled_back" /\ UNCHANGED <<directory, switch>>
    BY <1>4 DEF FinishRolledBack, Settles, Goto
  <2> QED
    BY <2>1 DEF Inv, PhaseFits, EndsExactly, directory
<1> QED
  BY <1>1, <1>2, <1>3, <1>4

(* What the remaining steps of a launch find in the directories stays there. *)
LEMMA LaunchKeeps ==
  ASSUME Inv, Next, at \notin {"running", "off"}, tampered' = tampered
  PROVE  Keeps
<1>1. CASE Startup
  <2>1. CASE Switch
    <3>1. CASE NothingPending \/ RefuseToStart \/ CheckMoved \/ FinishApplied
      BY <3>1, UntouchedKeeps DEF NothingPending, RefuseToStart, CheckMoved, FinishApplied,
                                  Decides, Settles
    <3> QED
      BY <2>1, <3>1, StartSwitchInv, MoveOldInv, InstallInv, ValidateInv DEF Switch
  <2>2. CASE Undo
    <3>1. CASE \/ CheckSplit \/ CheckMovedBack \/ CandidatePreserved \/ CheckRestored
               \/ FinishRolledBack
      BY <3>1, UntouchedKeeps DEF CheckSplit, CheckMovedBack, CandidatePreserved, CheckRestored,
                                  FinishRolledBack, Decides, Settles
    <3> QED
      BY <2>2, <3>1, MoveBackInv, CheckUndoInv, PreserveInv, RestoreOldInv DEF Undo
  <2> QED
    BY <1>1, <2>1, <2>2 DEF Startup
<1>2. CASE Service
  <2>1. UNCHANGED directory
    BY <1>2 DEF Service, Preview, RequestConfirmation, ExpireToken, Confirm, WriteMarker
  <2> QED
    BY <2>1, UntouchedKeeps
<1>3. CASE Failure
  <2>1. CASE ValidationFails
    BY <2>1, ValidateInv
  <2>2. ~Tamper
    BY DEF Tamper, Inv, TypeOK
  <2>3. CASE ~ValidationFails
    <3>1. UNCHANGED directory
      BY <1>3, <2>2, <2>3 DEF Failure, StartFails, MoveFails, SwitchFails, UndoFails, Fails,
                              Crash, Stops, WriteMarkerFails, DamageStage
    <3> QED
      BY <3>1, UntouchedKeeps
  <2> QED
    BY <2>1, <2>3
<1>4. CASE UseApplication \/ Launch \/ ExitForRestore \/ Quit
  <2>1. UNCHANGED directory
    BY <1>4 DEF UseApplication, Launch, ExitForRestore, Quit, Stops
  <2> QED
    BY <2>1, UntouchedKeeps
<1> QED
  BY <1>1, <1>2, <1>3, <1>4 DEF Next

(* However a launch goes on, by whichever call that fails or crash: if the   *)
(* application comes to run and reports the restore as applied, the staged    *)
(* database is in place and the old directory complete beside it; if it       *)
(* reports it undone, the directory is what the switch found; and no step     *)
(* drops or overwrites a file (SwitchIsExact).                               *)
THEOREM SwitchEndsExactly == Spec => SwitchIsExact
<1>1. Inv /\ [Next]_vars => [EndsExactly]_vars
  BY EndsExact DEF EndsExactly
<1>2. Inv /\ [Next]_vars =>
         [at \notin {"running", "off"} /\ tampered' = tampered => Keeps]_vars
  BY LaunchKeeps
<1>3. Spec => OutcomeIsExact
  BY <1>1, AlwaysInv, PTL DEF Spec, OutcomeIsExact, EndsExactly
<1>4. Spec => NothingIsDropped
  BY <1>2, AlwaysInv, PTL DEF Spec, NothingIsDropped, Keeps
<1> QED
  BY <1>3, <1>4 DEF SwitchIsExact
=============================================================================
