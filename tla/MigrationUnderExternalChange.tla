--------------------- MODULE MigrationUnderExternalChange ---------------------
(***************************************************************************)
(* DatabaseMigration with something else touching yuwendesk.db: a sync or   *)
(* backup tool, or the user, replaces or removes the file between launches, *)
(* after the lock was taken (the hook afterLockAcquired of migration.ts) or *)
(* before the original is hashed again for the switch.  A change between    *)
(* that hash and the rename that follows it is not modelled: nothing in the *)
(* code can notice it.                                                      *)
(***************************************************************************)
EXTENDS DatabaseMigration

(* The change counts as one of the faults of the behaviour; its content is  *)
(* one the program never writes.                                            *)
ExternalChange ==
    /\ Fault
    /\ at \in {"off", "verifying_source", "checking_original"}
    /\ \E v \in Versions :
          current' \in {Absent,
                        [Fresh(SchemaOf[v], GenerationOf[v]) EXCEPT
                            !.data = MaxWrites + faults + 1]}
    /\ current' # current
    /\ UNCHANGED <<files, journal, lock, version, at, memory, latest, used>>

ExternalNext == Next \/ ExternalChange
ExternalSpec == Init /\ [][ExternalNext]_vars

(* A database that appeared from outside is put aside like any other: no    *)
(* step of the program overwrites or drops it.                              *)
ForeignEvidenceIsOnlyMoved ==
    [][at \notin {"opening", "serving"} /\ ~ExternalChange =>
           Evidence \subseteq Evidence']_vars

(* With migration evidence on disk an empty database is never created, even *)
(* when yuwendesk.db is missing (SqliteStore.load under                     *)
(* startupProtectionReason).                                                *)
NeverCreatesOverEvidence ==
    [][current = Absent /\ current' # Absent /\ at = "opening" =>
           /\ journal = NoJournal
           /\ \A j \in Jobs : files[j].rollback = Absent]_vars

(* A switch is only ever undone into the file it started from: what is      *)
(* journaled as rolled back is the source itself.                           *)
RolledBackIsSource ==
    [][journal # NoJournal /\ journal.phase \in Unfinished
           /\ journal'.phase = "rolled_back" => current = journal.source]_vars

(* What is on disk decides, whoever put it there.                            *)
EvidenceDecides == NeverCreatesOverEvidence /\ RolledBackIsSource
=============================================================================
