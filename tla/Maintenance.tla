----------------------------- MODULE Maintenance -----------------------------
(***************************************************************************)
(* Who asks for a backup, and who deletes one: ProtectionService             *)
(* (protection/service.ts), which serves the page, the table                 *)
(* maintenance_idempotency that makes a repeated request harmless, the       *)
(* confirmations of deletions, and BackupCoordinator (protection/backup.ts), *)
(* which makes one backup a day after a write and gives up after repeated    *)
(* failures.  The backups themselves are those of ManagedBackups; a week of   *)
(* this model has one day.                                                  *)
(***************************************************************************)
EXTENDS ManagedBackups

CONSTANTS
    Keys,        \* idempotency keys
    GiveUp,      \* failures after which automatic backups stop: 3
    Unused, NoCall,
    MaxGrants, MaxReplays   \* bounds

(* What a key is used for, how it is recorded, and the call that runs.       *)
Creation == [op |-> "create", id |-> NoBackup]
Deletion(id) == [op |-> "delete", id |-> id]
Contents == {Creation} \cup {Deletion(id) : id \in Ids}
Rows == [of : Contents, status : {"running", "succeeded"}]
Flights == [of : Contents, at : {"queued", "making", "deleting"}]

ASSUME MaintenanceAssumption ==
    /\ GiveUp \in Nat \ {0} /\ {MaxGrants, MaxReplays} \subseteq Nat
    /\ Unused \notin Rows /\ NoCall \notin Flights

VARIABLES
    row,       \* maintenance_idempotency: what each key was used for
    flight,    \* memory, inFlight: the call that runs under a key
    grants,    \* memory, deleteTokens: backups whose deletion may be confirmed
    auto,      \* memory: BackupCoordinator
    failures,  \* maintenance_state.repeated_failure_count
    confirmed, \* history: backups that the user confirmed to delete
    acted,     \* history: the effects that a key has had
    streak,    \* history: automatic backups that failed since the last success
    count      \* for the bounds, and records of a failure that were lost

service == <<row, flight, grants>>
coordinator == <<auto, failures, streak>>
records == <<confirmed, acted, count>>
maintenanceVars == <<service, coordinator, records>>

MaintenanceInit ==
    /\ Init
    /\ row = [k \in Keys |-> Unused] /\ flight = [k \in Keys |-> NoCall] /\ grants = {}
    /\ auto = [at |-> "idle", day |-> 0, completed |-> 0] /\ failures = 0
    /\ confirmed = {} /\ acted = [k \in Keys |-> 0] /\ streak = 0
    /\ count = [grants |-> 0, replays |-> 0, unrecorded |-> 0]

(* Backups that wait for the lock; ids are drawn when they get it. *)
Waiting == Cardinality({k \in Keys : flight[k] # NoCall /\ flight[k].at = "queued"})
           + (IF auto.at = "queued" THEN 1 ELSE 0)
Room == numbered + Waiting < MaxBackups

-----------------------------------------------------------------------------
(* once(): a key that is known answers what it answered, or refuses.         *)

(* Mutant: only the calls of this process are remembered. *)
FreshInMemory(k) == flight[k] = NoCall

Fresh(k) == flight[k] = NoCall /\ row[k] = Unused

Reserve(k, of) == row' = [row EXCEPT ![k] = [of |-> of, status |-> "running"]]
InFlight(k, call) == flight' = [flight EXCEPT ![k] = call]

(* The result is saved when the call returns; if that fails, or the call      *)
(* does, the key stays reserved.                                             *)
Settle(k, saved) ==
    /\ InFlight(k, NoCall)
    /\ row' = IF saved THEN [row EXCEPT ![k].status = "succeeded"] ELSE row
Acts(k) == acted' = [acted EXCEPT ![k] = @ + 1]

(* recordMaintenanceSuccess. *)
BackupOk == failures' = 0 /\ streak' = 0

AskCreate(k) ==
    /\ Fresh(k) /\ Room /\ Reserve(k, Creation)
    /\ InFlight(k, [of |-> Creation, at |-> "queued"])
    /\ UNCHANGED <<vars, grants, coordinator, records>>

(* A repeated request that succeeded is answered again, and counted again as  *)
(* a successful backup.                                                      *)
ReplayCreate(k) ==
    /\ row[k] = [of |-> Creation, status |-> "succeeded"] /\ BackupOk
    /\ count.replays < MaxReplays /\ count' = [count EXCEPT !.replays = @ + 1]
    /\ UNCHANGED <<vars, service, auto, confirmed, acted>>

StartCreate(k) ==
    /\ flight[k] = [of |-> Creation, at |-> "queued"] /\ StartLocal
    /\ InFlight(k, [of |-> Creation, at |-> "making"])
    /\ UNCHANGED <<row, grants, coordinator, records>>

EndCreate(k) ==
    /\ flight[k] = [of |-> Creation, at |-> "making"] /\ EndLocal
    /\ LET made == making.step = "made" IN
         /\ \E saved \in {made, FALSE} :
              /\ Settle(k, saved)
              /\ IF saved THEN BackupOk ELSE UNCHANGED <<failures, streak>>
         /\ IF made THEN Acts(k) ELSE UNCHANGED acted
    /\ UNCHANGED <<grants, auto, confirmed, count>>

(* delete, "prepare": the user has confirmed the dialog. *)
GrantDelete(id) ==
    /\ backup[id].dir \in {"ready", "broken"} /\ id \notin grants
    /\ count.grants < MaxGrants /\ count' = [count EXCEPT !.grants = @ + 1]
    /\ grants' = grants \cup {id} /\ confirmed' = confirmed \cup {id}
    /\ UNCHANGED <<vars, row, flight, coordinator, acted>>

LapseGrant(id) ==
    /\ id \in grants /\ grants' = grants \ {id}
    /\ UNCHANGED <<vars, row, flight, coordinator, records>>

Confirms(token, id) == token \in grants /\ token = id

(* delete, "confirm": a token that does not fit is refused, and its key is    *)
(* used up; one that fits is consumed before anything is removed.            *)
AskDelete(k, id, token) ==
    /\ Fresh(k) /\ Reserve(k, Deletion(id))
    /\ IF Confirms(token, id)
       THEN grants' = grants \ {token} /\ InFlight(k, [of |-> Deletion(id), at |-> "deleting"])
       ELSE UNCHANGED <<grants, flight>>
    /\ UNCHANGED <<vars, coordinator, records>>

(* deleteManaged: what is not there any more is answered as not deleted. *)
DoDelete(k, id) ==
    /\ flight[k] = [of |-> Deletion(id), at |-> "deleting"]
    /\ IF backup[id].dir \in {"ready", "broken"}
       THEN /\ DeleteManaged(id)
            /\ \E saved \in {backup'[id].dir = "none", FALSE} : Settle(k, saved)
            /\ IF backup'[id].dir = "none" THEN Acts(k) ELSE UNCHANGED acted
       ELSE \E saved \in BOOLEAN : Settle(k, saved) /\ UNCHANGED <<vars, acted>>
    /\ UNCHANGED <<grants, coordinator, confirmed, count>>

-----------------------------------------------------------------------------
(* BackupCoordinator.                                                       *)

AutoGoes(at) == auto' = [auto EXCEPT !.at = at]

MayTry == failures < GiveUp

(* noteSuccessfulWrite, after any write of the application. *)
NoteWrite ==
    /\ auto.completed # week /\ auto.at = "idle" /\ MayTry
    /\ auto' = [auto EXCEPT !.at = "listing", !.day = week]
    /\ UNCHANGED <<vars, service, failures, streak, records>>

AutoDone == auto' = [auto EXCEPT !.at = "idle", !.completed = auto.day] /\ BackupOk

AutoList ==
    /\ auto.at = "listing"
    /\ \/ (\E id \in Ready : backup[id].on = auto.day) /\ AutoDone
       \/ /\ ~\E id \in Ready : backup[id].on = auto.day
          /\ Room /\ AutoGoes("queued") /\ UNCHANGED <<failures, streak>>
    /\ UNCHANGED <<vars, service, records>>

AutoStart ==
    /\ auto.at = "queued" /\ StartLocal /\ AutoGoes("making")
    /\ UNCHANGED <<service, failures, streak, records>>

(* The record of a failure may fail as well; it is advisory. *)
AutoEnd ==
    /\ auto.at = "making" /\ EndLocal
    /\ IF making.step = "made" THEN AutoDone /\ UNCHANGED count
       ELSE /\ AutoGoes("idle") /\ streak' = streak + 1
            /\ \/ failures' = failures + 1 /\ UNCHANGED count
               \/ UNCHANGED failures /\ count' = [count EXCEPT !.unrecorded = @ + 1]
    /\ UNCHANGED <<service, confirmed, acted>>

(* What the process knew is gone; the tables stay. *)
MaintenanceCrash ==
    /\ Crash
    /\ flight' = [k \in Keys |-> NoCall] /\ grants' = {}
    /\ auto' = [at |-> "idle", day |-> 0, completed |-> 0]
    /\ UNCHANGED <<row, failures, streak, records>>

-----------------------------------------------------------------------------
Service ==
    \/ \E k \in Keys :
         \/ AskCreate(k) \/ ReplayCreate(k) \/ StartCreate(k) \/ EndCreate(k)
         \/ \E id \in Ids : DoDelete(k, id) \/ \E token \in Ids : AskDelete(k, id, token)
    \/ \E id \in Ids : GrantDelete(id) \/ LapseGrant(id)
Coordinator == NoteWrite \/ AutoList \/ AutoStart \/ AutoEnd
Backdrop ==
    (MakeBackup \/ NextWeek \/ \E m \in Materials : TakeBack(m)) /\ UNCHANGED maintenanceVars

MaintenanceNext == Service \/ Coordinator \/ Backdrop \/ MaintenanceCrash

allVars == <<vars, maintenanceVars>>

(* The calls that make a backup end; nothing is assumed of the rest. *)
MaintenanceSpec ==
    /\ MaintenanceInit /\ [][MaintenanceNext]_allVars
    /\ WF_allVars(MakeBackup /\ UNCHANGED maintenanceVars)
    /\ WF_allVars(AutoEnd \/ \E k \in Keys : EndCreate(k))

-----------------------------------------------------------------------------
Makers == {k \in Keys : flight[k] = [of |-> Creation, at |-> "making"]}

(* Without a successful backup in between, automatic ones stop after GiveUp   *)
(* failures, also when the application is started again in between; a failure *)
(* whose record was lost does not count.                                     *)
AutomaticGivesUp == streak <= GiveUp + count.unrecorded

(* The lock has one owner, a call in flight has its reservation, and a key    *)
(* takes effect once at most, through crashes, restarts and results that      *)
(* could not be saved; a saved result of a creation had its effect.           *)
MaintenanceConsistent ==
    /\ TypeOK /\ AutomaticGivesUp
    /\ Cardinality(Makers) + (IF auto.at = "making" THEN 1 ELSE 0) = IF lock = "free" THEN 0 ELSE 1
    /\ \A k \in Keys :
         /\ flight[k] # NoCall => row[k] = [of |-> flight[k].of, status |-> "running"]
         /\ acted[k] <= 1
         /\ row[k] = [of |-> Creation, status |-> "succeeded"] => acted[k] = 1

(* A complete backup vanishes because the user confirmed the deletion of this *)
(* very one, or by a rotation while KeepDaily newer ones exist and, if it is   *)
(* a weekly one, KeepWeekly newer weekly ones: not by a backup that fails, a   *)
(* crash or a token for another one.  (What the user deletes while a rotation  *)
(* is under way may have counted as newer.)                                   *)
OnlyOldBackupsVanish ==
    [][\A id \in Ready \ Ready' : id \notin confirmed =>
         /\ Cardinality(Newer(id)) + userDeletes >= KeepDaily
         /\ id \in Weekly => Cardinality(Newer(id) \cap Weekly) + userDeletes >= KeepWeekly]_allVars

(* The lock that every other operation on backups waits for is given back,     *)
(* whoever took it and however the making of the backup ends.                *)
LockIsReleased == (lock # "free") ~> (lock = "free")
=============================================================================
