---------------------------- MODULE SourceDeletion ----------------------------
(***************************************************************************)
(* The permanent deletion of a source (protection/sourcePrivacy.ts): the     *)
(* confirmation that names the managed backups which hold it, the deletion   *)
(* in the database, that of the backups, the restore point made afterwards,  *)
(* and the workflow that is resumed at the next launch.  It extends the      *)
(* backups it works on.                                                     *)
(*                                                                         *)
(* The restore point is named after the key of the deletion, so that a       *)
(* repetition finds it.  The renderer draws one key for every source and     *)
(* uses it again (App.tsx, privacyKey): here the key, and the name, is the   *)
(* source itself.                                                           *)
(***************************************************************************)
EXTENDS ManagedBackups

CONSTANTS
    Requests,    \* deletions that may run at the same time
    Launcher,    \* reconcilePending
    NoGrant, NoTombstone, NoResult

ASSUME KeyAssumption == OperationIds = Documents
ASSUME WorkerAssumption ==
    Launcher \notin Requests /\ {"free", "local"} \cap (Requests \cup {Launcher}) = {}

(* What the user is asked for, what stands for a source that was deleted,   *)
(* and what succeeded under its key.                                        *)
Policies == {"keep_managed", "delete_managed_and_create_post_delete"}
Keeps == "keep_managed"
Statuses == {"database_deleted", "managed_backups_processed", "completed"}

Grants == [scope : SUBSET Ids, policy : Policies, consumed : BOOLEAN]
Tombstones == [policy : Policies, scope : SUBSET Ids, status : Statuses,
               deleted : SUBSET Ids, remaining : SUBSET Ids, post : BOOLEAN]
Results == [document : Documents, scope : SUBSET Ids, policy : Policies]

ASSUME SentinelAssumption ==
    NoGrant \notin Grants /\ NoTombstone \notin Tombstones /\ NoResult \notin Results

VARIABLES
    grant,       \* memory: the last confirmation for every source
    work,        \* memory: the deletions under way
    tombstone,   \* source_tombstone with the state of its workflow
    result,      \* maintenance_idempotency: the request that succeeded under a key
    app,         \* "launching" until every workflow has been resumed, then "open"
    queue        \* memory: the workflows still to be resumed

own == <<grant, work, tombstone, result, app, queue>>
store == <<vars, own>>

-----------------------------------------------------------------------------
Workers == Requests \cup {Launcher}
Resting == [step |-> "rest"]
NoGrants == [d \in Documents |-> NoGrant]
Deleted == {d \in Documents : tombstone[d] # NoTombstone}
Pending == {d \in Deleted : tombstone[d].status # "completed"}

DeletionInit ==
    /\ Init
    /\ grant = NoGrants /\ work = [w \in Workers |-> Resting]
    /\ tombstone = [d \in Documents |-> NoTombstone]
    /\ result = [d \in Documents |-> NoResult]
    /\ app = "open" /\ queue = {}

(* Mutant: backups that cannot be inspected are taken to be clear. *)
ContainingListed(d) == {id \in Ready : d \in backup[id].documents}

(* findManagedBackupsContainingSourceUnlocked: by their manifests, and all  *)
(* that cannot be inspected.                                                *)
Containing(d) == {id \in Ready : d \in backup[id].documents} \cup Broken

-----------------------------------------------------------------------------
(* prepareDelete: the scope is read under the lock.  Nothing looks at the    *)
(* answer of the two dialogs before the request that carries the token, so   *)
(* it is given here; a confirmation that is refused, or that lapses, is one  *)
(* that no request uses, and a later one takes its place.  One that has not  *)
(* lapsed is given again as it is, scope included, which changes nothing.    *)
(* The user interface has one such request under way at a time, and its list *)
(* of sources stays as it was after an error.                                *)
Offered == held \cup {d \in Documents : grant[d] # NoGrant}

Prepare(d, policy) ==
    /\ app = "open" /\ lock = "free" /\ d \in Offered
    /\ \A w \in Requests : work[w] = Resting
    /\ grant' = [grant EXCEPT ![d] = [scope |-> Containing(d), policy |-> policy,
                                      consumed |-> FALSE]]
    /\ UNCHANGED <<vars, work, tombstone, result, app, queue>>

-----------------------------------------------------------------------------
(* delete, up to the transaction.                                           *)

At(w, step) == lock = w /\ work[w].step = step
Set(w, record) == work' = [work EXCEPT ![w] = record]

Finish(w) == Set(w, Resting) /\ lock' = "free"
Asked(record) ==
    [document |-> record.document, scope |-> record.scope, policy |-> record.policy]

(* The token is looked at before the lock is awaited, and not again. *)
Delete(w, d) ==
    /\ app = "open" /\ work[w] = Resting /\ grant[d] # NoGrant /\ ~grant[d].consumed
    /\ Set(w, [step |-> "queued", status |-> "database_deleted", document |-> d,
               scope |-> grant[d].scope, policy |-> grant[d].policy,
               deleted |-> {}, remaining |-> grant[d].scope, post |-> FALSE, todo |-> {}])
    /\ UNCHANGED <<vars, grant, tombstone, result, app, queue>>

TakeLock(w) ==
    /\ lock = "free" /\ work[w] # Resting /\ work[w].step = "queued"
    /\ lock' = w /\ work' = [work EXCEPT ![w].step = "scope"]
    /\ UNCHANGED <<data, backups, bounds, faults, grant, tombstone, result, app, queue>>

(* What follows the deletion in the database, and a resumption of it. *)
Continued(record) ==
    CASE record.policy = Keeps ->
           [record EXCEPT !.step = "rescan", !.status = "completed"]
      [] record.policy # Keeps /\ record.status = "database_deleted" ->
           [record EXCEPT !.step = "remove", !.todo = record.scope, !.deleted = {}]
      [] record.policy # Keeps /\ record.status # "database_deleted" /\ ~record.post ->
           [record EXCEPT !.step = "post"]
      [] OTHER -> [record EXCEPT !.step = "rescan", !.status = "completed"]

(* Mutant: the backups of now are not compared with those of the dialog. *)
ScopeIgnored(record) == TRUE

ScopeHolds(record) == record.scope = Containing(record.document)

IsDeletable(record) == result[record.document] = NoResult /\ record.document \in held

(* deleteSourcePermanently, one transaction: bundles that quote the source  *)
(* are taken back with it.                                                  *)
DeleteDocument(w) ==
    LET record == work[w] IN
    /\ At(w, "scope") /\ ScopeHolds(record) /\ IsDeletable(record)
    /\ held' = held \ {record.document}
    /\ materials' \in SUBSET materials
    /\ tombstone' = [tombstone EXCEPT ![record.document] =
         [policy |-> record.policy, scope |-> record.scope,
          status |-> "database_deleted", deleted |-> {}, remaining |-> record.scope,
          post |-> FALSE]]
    /\ result' = [result EXCEPT ![record.document] = Asked(record)]
    /\ grant' = [grant EXCEPT ![record.document].consumed = TRUE]
    /\ Set(w, Continued(record))
    /\ UNCHANGED <<backups, lock, bounds, faults, app, queue>>

(* The same request, sent again under its key. *)
Replay(w) ==
    LET record == work[w] IN
    /\ At(w, "scope") /\ ScopeHolds(record) /\ result[record.document] = Asked(record)
    /\ grant' = [grant EXCEPT ![record.document].consumed = TRUE]
    /\ Set(w, Continued(record))
    /\ UNCHANGED <<vars, tombstone, result, app, queue>>

(* The scope has changed, the source is gone, the key was used for something *)
(* else, the source has another revision by now (revisions are not           *)
(* modelled), or the transaction fails.  Only a scan that fails leaves the   *)
(* token usable.                                                            *)
Refuse(w) ==
    /\ At(w, "scope") /\ Finish(w)
    /\ \/ grant' = [grant EXCEPT ![work[w].document].consumed = TRUE] /\ NoFault
       \/ UNCHANGED grant /\ Fault
    /\ UNCHANGED <<data, backups, bounds, tombstone, result, app, queue>>

-----------------------------------------------------------------------------
(* The managed backups.                                                     *)

RemoveScoped(w, id) ==
    /\ At(w, "remove") /\ id \in work[w].todo
    /\ \/ /\ Vanish(id) /\ NoFault
          /\ work' = [work EXCEPT ![w].todo = @ \ {id}, ![w].deleted = @ \cup {id}]
       \/ VanishFails(id) /\ work' = [work EXCEPT ![w].todo = @ \ {id}]
    /\ UNCHANGED <<data, making, lock, numbered, bounds, grant, tombstone, result, app, queue>>

EndRemoval(w) ==
    /\ At(w, "remove") /\ work[w].todo = {}
    /\ work' = [work EXCEPT ![w].step = "post", ![w].status = "managed_backups_processed",
                            ![w].remaining = work[w].scope \ work[w].deleted]
    /\ UNCHANGED <<vars, grant, tombstone, result, app, queue>>

(* The restore point without the source.  One that an earlier attempt       *)
(* published is taken, if it is complete; if not, none can be made.         *)
PostMade(w) == work' = [work EXCEPT ![w].step = "rescan", ![w].post = TRUE, ![w].status = "completed"]

PostMissing(w) == work' = [work EXCEPT ![w].step = "rescan"]

FindPost(w) ==
    /\ At(w, "post") /\ work[w].document \in Ready \cup Broken
    /\ IF work[w].document \in Ready THEN PostMade(w) ELSE PostMissing(w)
    /\ UNCHANGED <<vars, grant, tombstone, result, app, queue>>

StartPost(w) ==
    /\ At(w, "post") /\ work[w].document \notin Ready \cup Broken
    /\ Start(work[w].document) /\ work' = [work EXCEPT ![w].step = "making"]
    /\ UNCHANGED <<data, lock, numbered, bounds, faults, grant, tombstone, result, app, queue>>

EndPost(w) ==
    /\ At(w, "making") /\ Ended /\ making' = Idle
    /\ IF making.step = "made" THEN PostMade(w) ELSE PostMissing(w)
    /\ UNCHANGED <<data, backup, older, lock, numbered, bounds, faults, grant, tombstone,
                   result, app, queue>>

-----------------------------------------------------------------------------
(* What remains is looked at once more, and the workflow recorded.          *)

Rescanned(record) ==
    LET remaining == record.remaining \cup Containing(record.document)
    IN [record EXCEPT !.remaining = remaining, !.deleted = @ \ remaining]

Downgraded(record) ==
    [record EXCEPT !.status = IF @ = "completed" THEN "managed_backups_processed" ELSE @]

(* A request that cannot look claims nothing; a resumption keeps what it has. *)
Unscanned(w, record) ==
    IF w = Launcher THEN Downgraded(record)
    ELSE [Downgraded(record) EXCEPT !.remaining = @ \cup record.scope, !.deleted = {}]

Record(w) ==
    /\ At(w, "rescan") /\ Finish(w)
    /\ \E record \in {Rescanned(work[w]), Unscanned(w, work[w])} :
         /\ IF record = Rescanned(work[w]) THEN NoFault ELSE Fault
         /\ tombstone' = [tombstone EXCEPT ![record.document] =
              [@ EXCEPT !.status = record.status, !.deleted = record.deleted,
                        !.remaining = record.remaining, !.post = record.post]]
    /\ UNCHANGED <<data, backups, bounds, grant, result, app, queue>>

(* The row cannot be written: the request answers with an error. *)
RecordFails(w) ==
    /\ w # Launcher /\ At(w, "rescan") /\ Finish(w) /\ Fault
    /\ UNCHANGED <<data, backups, bounds, grant, tombstone, result, app, queue>>

-----------------------------------------------------------------------------
(* The process.                                                             *)

(* reconcilePending reads the workflows once and resumes them in turn. *)
Resume(d) ==
    /\ app = "launching" /\ lock = "free" /\ work[Launcher] = Resting /\ d \in queue
    /\ queue' = queue \ {d} /\ lock' = Launcher
    /\ LET row == tombstone[d] IN
       Set(Launcher, Continued(
         [step |-> "queued", document |-> d, scope |-> row.scope, policy |-> row.policy,
          status |-> row.status, deleted |-> row.deleted,
          remaining |-> row.remaining, post |-> row.post, todo |-> {}]))
    /\ UNCHANGED <<data, backups, bounds, faults, grant, tombstone, result, app>>

Open ==
    /\ app = "launching" /\ lock = "free" /\ queue = {} /\ app' = "open"
    /\ UNCHANGED <<vars, grant, work, tombstone, result, queue>>

(* Mutant: a workflow whose backups were processed is taken to be complete. *)
StartAgainPartly ==
    /\ Forget
    /\ grant' = NoGrants /\ work' = [w \in Workers |-> Resting]
    /\ app' = "launching" /\ queue' = {d \in Pending : tombstone[d].status = "database_deleted"}
    /\ UNCHANGED <<data, numbered, week, userDeletes, tombstone, result>>

StartAgain ==
    /\ Forget
    /\ grant' = NoGrants /\ work' = [w \in Workers |-> Resting]
    /\ app' = "launching" /\ queue' = Pending
    /\ UNCHANGED <<data, numbered, week, userDeletes, tombstone, result>>

Quit ==
    /\ app = "open" /\ lock = "free" /\ \A w \in Workers : work[w] = Resting
    /\ StartAgain /\ UNCHANGED <<backup, older, crashes, faults>>

DeletionCrash ==
    /\ crashes < MaxCrashes /\ crashes' = crashes + 1 /\ StartAgain
    /\ Interrupted(making.doomed \cup UNION {work[w].todo : w \in {v \in Workers : At(v, "remove")}})
    /\ UNCHANGED faults

(* A workflow that cannot be recorded while the application starts ends it. *)
LaunchFails ==
    /\ At(Launcher, "rescan") /\ Fault /\ StartAgain
    /\ UNCHANGED <<backup, older, crashes>>

-----------------------------------------------------------------------------
BackupStep == (MakeBackup \/ EndLocal) /\ UNCHANGED own
Surroundings == app = "open" /\ (StartLocal \/ Environment) /\ UNCHANGED own

Work(w) ==
    \/ TakeLock(w) \/ DeleteDocument(w) \/ Replay(w) \/ Refuse(w)
    \/ \E id \in Ids : RemoveScoped(w, id)
    \/ EndRemoval(w) \/ FindPost(w) \/ StartPost(w) \/ EndPost(w)
    \/ Record(w) \/ RecordFails(w)

User ==
    \/ \E d \in Documents, policy \in Policies : Prepare(d, policy)
    \/ \E w \in Requests, d \in Documents : Delete(w, d)

Launch == Open \/ \E d \in Documents : Resume(d)

DeletionNext ==
    \/ BackupStep \/ Surroundings \/ User \/ Launch
    \/ \E w \in Workers : Work(w)
    \/ Quit \/ DeletionCrash \/ LaunchFails

(* The process goes on with what it has begun, and a user who again and     *)
(* again has no request under way quits at last, and starts it again.       *)
DeletionFairness ==
    /\ WF_store(BackupStep) /\ WF_store(Launch) /\ SF_store(Quit)
    /\ \A w \in Workers : WF_store(Work(w))

DeletionSpec == DeletionInit /\ [][DeletionNext]_store /\ DeletionFairness

-----------------------------------------------------------------------------
(* Every variable has the shape its column, map or directory has. *)
DeletionTypeOK ==
    /\ TypeOK
    /\ lock \in {"free", "local"} \cup Workers
    /\ \A w \in Workers : work[w] = Resting \/ work[w].step = "queued" \/ lock = w
    /\ \A d \in Deleted : tombstone[d] \in Tombstones
    /\ \A d \in Documents : grant[d] \in Grants \cup {NoGrant} /\ result[d] \in Results \cup {NoResult}
    /\ lock \in Workers => work[lock] # Resting
    /\ app \in {"launching", "open"} /\ queue \subseteq Deleted

(* Directories that really hold a source, whatever their state. *)
Holding(d) == {id \in Ready \cup Broken : d \in backup[id].documents}

(* However backups were made between the dialog, the lock and the deletion: *)
(* every managed backup that holds a deleted source was named to the user.  *)
ScopeCoversBackups == \A d \in Deleted : Holding(d) \subseteq tombstone[d].scope

(* What a workflow says is true of the disk whatever failed meanwhile: no    *)
(* backup that it calls deleted holds the source, and once it is completed   *)
(* every backup that still does is called remaining.                        *)
WorkflowReportsTruth ==
    \A d \in Deleted :
        /\ tombstone[d].deleted \cap Holding(d) = {}
        /\ tombstone[d].status = "completed" => Holding(d) \subseteq tombstone[d].remaining

(* A deletion that removes backups leaves a complete one: unless the user   *)
(* deleted it, or a workflow is still to be resumed.                        *)
LeavesARestorePoint ==
    (\E d \in Deleted : tombstone[d].policy # Keeps) /\ Pending = {} /\ userDeletes = 0
        => Ready # {}

(* Every workflow ends once nothing fails any more.  The one exception: the *)
(* directory of its own restore point exists and is damaged.                *)
WorkflowEnds ==
    \A d \in Documents : d \in Pending ~> (d \notin Pending \/ d \in Broken)

(* The scope that the user agreed to covers what exists, and a way back       *)
(* remains.                                                                 *)
DeletionConsistent == DeletionTypeOK /\ ScopeCoversBackups /\ LeavesARestorePoint
=============================================================================
