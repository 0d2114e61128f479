------------------------------ MODULE Publication ------------------------------
(***************************************************************************)
(* The published materials of one lesson plan: accepted changes             *)
(* (change/service.ts), exports of the current revision (ipc.ts), the       *)
(* directory of every bundle (materials/publish.ts), the rows that refer to *)
(* it and the privacy operations that take them back (db/sqliteStore.ts).   *)
(*                                                                         *)
(* SQLite decides what is published; files are written before it and        *)
(* removed after it.  A change or an export awaits its documents, its files *)
(* and the rename of their directory, and anything may happen in between.   *)
(* A privacy operation runs without an await, but the process may end       *)
(* between any two of its writes.                                           *)
(***************************************************************************)
EXTENDS Naturals, FiniteSets, LessonSchedule

CONSTANTS
    Lessons,      \* the lessons that a plan may begin with
    Changes,      \* what a teacher may ask for
    Keys,         \* idempotency keys of changes
    Handlers,     \* changes and exports that may run at the same time
    Purges,       \* keys of reclassifications and deletions of the source
    Deletions,    \* those that delete it
    NoReplay, NoPurge,
    MaxFailures,  \* the failures after which a change is given up: 3
    MaxBundles,   \* bound: bundles that are ever started
    MaxFaults,    \* bound: failing writes, renames and removals
    MaxRestarts   \* bound

ASSUME LessonAssumption == \A lesson \in Lessons : IsLesson(lesson)
ASSUME ChangeAssumption == \A change \in Changes : IsChange(change)
ASSUME DeletionAssumption == Deletions \subseteq Purges
ASSUME BoundAssumption ==
    /\ {MaxFailures, MaxBundles, MaxFaults, MaxRestarts} \subseteq Nat /\ MaxFailures > 0

(* A privacy operation on the files of the bundles that were there. *)
Operations == [op : Purges, step : {"moving", "restoring", "finalizing"},
               files : SUBSET (1..MaxBundles + 1)]

ASSUME SentinelAssumption == NoReplay \notin Changes /\ NoPurge \notin Operations

VARIABLES
    plan,        \* lesson_revision: every revision of the plan, the last is current
    bundle,      \* material_bundle and the directory of every bundle ever started
    replays,     \* lesson_change_idempotency
    session,     \* the preparation session that exported the plan
    handler,     \* memory: the changes and exports that wait
    purge,       \* memory: the privacy operation under way
    quarantine,  \* privacy_file_quarantine: operation and bundle of every row
    purged,      \* maintenance_idempotency: the privacy operations that succeeded
    strayed,     \* history: a file could not be moved back out of quarantine
    restarts, faults

vars == <<plan, bundle, replays, session, handler, purge, quarantine, purged, strayed,
          restarts, faults>>

-----------------------------------------------------------------------------
Idle == [kind |-> "idle"]
Busy == {h \in Handlers : handler[h] # Idle}
Started == 1..Len(bundle)
NewBundle == [row |-> "none", revision |-> 0, key |-> NoReplay, dir |-> "none"]
Registered == {b \in Started : bundle[b].row = "kept"}
NeverTried == [status |-> "none", failures |-> 0, request |-> NoReplay, bundle |-> 0]

(* The plan and the bundle of its first export, by a session that follows it. *)
Init ==
    /\ \E lesson \in Lessons :
         plan = <<[base |-> 0, readable |-> TRUE, change |-> NoReplay, lesson |-> lesson]>>
    /\ bundle = <<[row |-> "kept", revision |-> 1, key |-> NoReplay, dir |-> "published"]>>
    /\ replays = [k \in Keys |-> NeverTried]
    /\ session = [status |-> "EXPORTED", revision |-> 1, bundle |-> 1]
    /\ handler = [h \in Handlers |-> Idle]
    /\ purge = NoPurge /\ quarantine = {} /\ purged = {}
    /\ strayed = FALSE /\ restarts = 0 /\ faults = 0

Current == Len(plan)
Running == purge = NoPurge
Fault == faults < MaxFaults /\ faults' = faults + 1
NoFault == UNCHANGED faults
SetDir(b, where) == bundle' = [bundle EXCEPT ![b].dir = where]

-----------------------------------------------------------------------------
(* The session.                                                             *)

(* preparation.context.save, and a rebuild, which gives it another plan. *)
SaveContext ==
    /\ Running /\ session.status # "other plan"
    /\ session' = [session EXCEPT !.status = "PLAN_REVIEW", !.bundle = 0]
    /\ session' # session
    /\ UNCHANGED <<plan, bundle, replays, handler, purge, quarantine, purged, strayed,
                   restarts, faults>>

Rebuild ==
    /\ Running /\ session.status # "other plan"
    /\ session' = [status |-> "other plan", revision |-> 0, bundle |-> 0]
    /\ UNCHANGED <<plan, bundle, replays, handler, purge, quarantine, purged, strayed,
                   restarts, faults>>

(* syncPreparationAfterPublishedChange of a change's result. *)
Synced(base, revision, b) ==
    IF /\ revision = Len(plan') /\ bundle'[b].row = "kept"
       /\ session.status = "EXPORTED" /\ session.revision = base
    THEN [session EXCEPT !.revision = revision, !.bundle = b]
    ELSE session

Sync(base, revision, b) == session' = Synced(base, revision, b)

-----------------------------------------------------------------------------
(* change.apply, up to its first await.                                     *)

Request(base, change) == [base |-> base, change |-> change]

(* changeApply of ipc.ts: a session that follows the base must have exported. *)
MayBypassPreparation(base) == session.revision = base => session.status = "EXPORTED"

Begin(h, record) ==
    /\ Len(bundle) < MaxBundles
    /\ bundle' = Append(bundle, [NewBundle EXCEPT !.revision = record.base, !.key = record.key])
    /\ handler' = [handler EXCEPT ![h] = record]

(* Mutant: a change that does not fit is made as far as it goes. *)
PassesUnblocked(base, change) == PassesReview(Candidate(plan[base].lesson, change))

(* The change can be made, and the review has nothing to fix in the result.  *)
Passes(base, change) ==
    /\ ~Blocks(plan[base].lesson, change)
    /\ PassesReview(Candidate(plan[base].lesson, change))

(* The base, once redacted, is no plan: the preview throws, and that counts. *)
Apply(h, key, base, change) ==
    /\ Running /\ handler[h] = Idle /\ MayBypassPreparation(base)
    /\ replays[key].request \in {NoReplay, Request(base, change)}
    /\ replays[key].status \in {"none", "failed"}
    /\ Begin(h, [kind |-> "change", key |-> key, base |-> base, change |-> change,
                 bundle |-> Len(bundle) + 1, counts |-> ~plan[base].readable,
                 step |-> IF plan[base].readable /\ Passes(base, change) THEN "building"
                          ELSE "removing"])
    /\ UNCHANGED <<plan, replays, session, purge, quarantine, purged, strayed,
                   restarts, faults>>

(* A change that already succeeded answers with its stored result, and the  *)
(* session follows it again.                                                *)
Replay(key) ==
    LET stored == replays[key] IN
    /\ Running /\ stored.status = "succeeded" /\ MayBypassPreparation(stored.request.base)
    /\ UNCHANGED <<plan, bundle>>
    /\ Sync(stored.request.base, bundle[stored.bundle].revision, stored.bundle)
    /\ UNCHANGED <<replays, handler, purge, quarantine, purged, strayed,
                   restarts, faults>>

(* materials.generate, and the first export of a session. *)
Generate(h) ==
    /\ Running /\ handler[h] = Idle /\ plan[Current].readable
    /\ Begin(h, [kind |-> "export", key |-> NoReplay, base |-> Current, change |-> NoReplay,
                 bundle |-> Len(bundle) + 1, counts |-> FALSE, step |-> "building"])
    /\ UNCHANGED <<plan, replays, session, purge, quarantine, purged, strayed,
                   restarts, faults>>

-----------------------------------------------------------------------------
(* The files.                                                               *)

At(h, step) == Running /\ handler[h] # Idle /\ handler[h].step = step
Goes(h, step) == handler' = [handler EXCEPT ![h].step = step]
Rest(h) == handler' = [handler EXCEPT ![h] = Idle]

(* An error is caught: the directory is removed first, and a failure that   *)
(* counts is recorded afterwards.                                           *)
Catch(h, counts) ==
    handler' = [handler EXCEPT ![h].step = "removing",
                               ![h].counts = counts /\ handler[h].kind = "change"]

(* The documents do not pass their review. *)
Refuse(h) ==
    /\ At(h, "building") /\ Catch(h, FALSE)
    /\ UNCHANGED <<plan, bundle, replays, session, purge, quarantine, purged, strayed,
                   restarts, faults>>

Stage(h) ==
    /\ At(h, "building")
    /\ SetDir(handler[h].bundle, "staging")
    /\ \/ NoFault /\ Goes(h, "staged")
       \/ Fault /\ Catch(h, TRUE)
    /\ UNCHANGED <<plan, replays, session, purge, quarantine, purged, strayed, restarts>>

Promote(h) ==
    /\ At(h, "staged")
    /\ \/ NoFault /\ SetDir(handler[h].bundle, "published") /\ Goes(h, "published")
       \/ Fault /\ UNCHANGED bundle /\ Catch(h, TRUE)
    /\ UNCHANGED <<plan, replays, session, purge, quarantine, purged, strayed, restarts>>

(* Mutant: a failure is recorded over whatever the key has come to. *)
RecordFailureOver(h) ==
    LET w == handler[h] IN
    replays' = [replays EXCEPT ![w.key] =
                  [status |-> "failed", failures |-> 1, bundle |-> 0,
                   request |-> Request(w.base, w.change)]]

RecordFailure(h) ==
    LET w == handler[h]
        stored == replays[w.key]
        failures == stored.failures + 1
    IN  replays' = IF stored.request \in {NoReplay, Request(w.base, w.change)}
                      /\ stored.status \in {"none", "failed"}
                   THEN [replays EXCEPT ![w.key] =
                           [status |-> IF failures >= MaxFailures THEN "failed_final"
                                       ELSE "failed",
                            failures |-> failures, bundle |-> 0,
                            request |-> Request(w.base, w.change)]]
                   ELSE replays

(* Neither a failing removal nor a failing record hides the first error. *)
Remove(h) ==
    /\ At(h, "removing")
    /\ \/ NoFault /\ SetDir(handler[h].bundle, "none")
          /\ IF handler[h].counts THEN RecordFailure(h) ELSE UNCHANGED replays
       \/ Fault /\ UNCHANGED bundle
          /\ IF handler[h].counts THEN RecordFailure(h) ELSE UNCHANGED replays
       \/ Fault /\ SetDir(handler[h].bundle, "none") /\ UNCHANGED replays
    /\ Rest(h)
    /\ UNCHANGED <<plan, session, purge, quarantine, purged, strayed, restarts>>

-----------------------------------------------------------------------------
(* commitLessonChange and commitMaterialBundle: one transaction.            *)

MakesRevision(w) == w.change # NoReplay /\ Semantic(w.change)
Target(w) == IF MakesRevision(w) THEN Current + 1 ELSE w.base
Revision(w) == [base |-> w.base, readable |-> TRUE, change |-> w.change,
                lesson |-> Candidate(plan[w.base].lesson, w.change)]
Register(w) ==
    bundle' = [bundle EXCEPT ![w.bundle].row = "kept", ![w.bundle].revision = Target(w)]

CommitExport(h) ==
    LET w == handler[h] IN
    /\ At(h, "published") /\ w.kind = "export" /\ w.base = Current
    /\ Register(w) /\ Rest(h)
    /\ UNCHANGED <<plan, replays, session, purge, quarantine, purged, strayed,
                   restarts, faults>>

(* Mutant: the revision that the change was made for is not compared. *)
IsAcceptableLate(w) ==
    /\ replays[w.key].request \in {NoReplay, Request(w.base, w.change)}
    /\ replays[w.key].status \in {"none", "failed"}

(* The key has not succeeded meanwhile, and no other change was accepted.   *)
IsAcceptable(w) ==
    /\ replays[w.key].request \in {NoReplay, Request(w.base, w.change)}
    /\ replays[w.key].status \in {"none", "failed"}
    /\ w.base = Current

(* The session follows as soon as the change is accepted, unless that write *)
(* fails.                                                                   *)
CommitChange(h) ==
    LET w == handler[h] IN
    /\ At(h, "published") /\ w.kind = "change" /\ IsAcceptable(w)
    /\ plan' = IF MakesRevision(w) THEN Append(plan, Revision(w)) ELSE plan
    /\ Register(w) /\ Rest(h)
    /\ replays' = [replays EXCEPT ![w.key] =
                     [status |-> "succeeded", failures |-> @.failures, bundle |-> w.bundle,
                      request |-> Request(w.base, w.change)]]
    /\ \/ NoFault /\ Sync(w.base, Target(w), w.bundle)
       \/ Fault /\ UNCHANGED session
    /\ UNCHANGED <<purge, quarantine, purged, strayed, restarts>>

(* The same request was accepted under the same key: its result is the      *)
(* answer, and the directory of this one stays.                             *)
CommitReplays(h) ==
    LET w == handler[h]
        stored == replays[w.key] IN
    /\ At(h, "published") /\ w.kind = "change"
    /\ stored.status = "succeeded" /\ stored.request = Request(w.base, w.change)
    /\ Rest(h) /\ UNCHANGED <<plan, bundle>>
    /\ Sync(w.base, bundle[stored.bundle].revision, stored.bundle)
    /\ UNCHANGED <<replays, purge, quarantine, purged, strayed,
                   restarts, faults>>

CommitConflicts(h) ==
    LET w == handler[h] IN
    /\ At(h, "published")
    /\ IF w.kind = "export" THEN w.base # Current
       ELSE /\ ~IsAcceptable(w)
            /\ ~(/\ replays[w.key].status = "succeeded"
                 /\ replays[w.key].request = Request(w.base, w.change))
    /\ Catch(h, FALSE)
    /\ UNCHANGED <<plan, bundle, replays, session, purge, quarantine, purged, strayed,
                   restarts, faults>>

CommitFails(h) ==
    /\ At(h, "published") /\ Fault /\ Catch(h, TRUE)
    /\ UNCHANGED <<plan, bundle, replays, session, purge, quarantine, purged, strayed, restarts>>

-----------------------------------------------------------------------------
(* reclassifySource and deleteSourcePermanently, for a source that the plan *)
(* quotes.  Every revision is made from the one before and quotes it too.   *)

Dependent == \E r \in DOMAIN plan : plan[r].readable

(* The source is protected once, and no more once it is deleted. *)
MayStart(p) == purged \cap Deletions = {} /\ (p \in Deletions \/ purged = {})

(* quarantineDerivedFiles writes down what it is about to move. *)
StartPurge(p) ==
    LET files == IF Dependent THEN {b \in Registered : bundle[b].dir = "published"} ELSE {} IN
    /\ Running /\ MayStart(p)
    /\ purge' = [op |-> p, step |-> "moving", files |-> files]
    /\ quarantine' = quarantine \cup {[op |-> p, bundle |-> b] : b \in files}
    /\ UNCHANGED <<plan, bundle, replays, session, handler, purged, strayed, restarts, faults>>

In(step) == purge # NoPurge /\ purge.step = step
Left(where) == {b \in purge.files : bundle[b].dir = where}
PurgeGoes(step) == purge' = [purge EXCEPT !.step = step]

Quarantine(b) ==
    /\ In("moving") /\ b \in Left("published")
    /\ \/ NoFault /\ SetDir(b, "quarantine") /\ UNCHANGED purge
       \/ Fault /\ UNCHANGED bundle /\ PurgeGoes("restoring")
    /\ UNCHANGED <<plan, replays, session, handler, quarantine, purged, strayed, restarts>>

(* purgeDependentPrivacyData *)
Redacted == [r \in DOMAIN plan |-> [plan[r] EXCEPT !.readable = FALSE]]
Unregistered ==
    [b \in Started |-> IF bundle[b].row = "kept" THEN [bundle[b] EXCEPT !.row = "purged"]
                       ELSE bundle[b]]
Forgotten ==
    [k \in Keys |-> IF replays[k].status = "succeeded" THEN NeverTried ELSE replays[k]]

(* preparation_source keeps a version that a session selects from being     *)
(* deleted: for sure while the session follows this plan.                   *)
MayDelete == session.status = "other plan"

(* The transaction, which includes the key of the operation. *)
CommitPurge ==
    /\ In("moving") /\ Left("published") = {}
    /\ purge.op \in Deletions => MayDelete
    /\ PurgeGoes("finalizing") /\ purged' = purged \cup {purge.op}
    /\ IF Dependent
       THEN plan' = Redacted /\ bundle' = Unregistered /\ replays' = Forgotten
       ELSE UNCHANGED <<plan, bundle, replays>>
    /\ UNCHANGED <<session, handler, quarantine, strayed, restarts, faults>>

PurgeRefused ==
    /\ In("moving") /\ Left("published") = {}
    /\ \/ purge.op \in Deletions /\ NoFault
       \/ Fault
    /\ PurgeGoes("restoring")
    /\ UNCHANGED <<plan, bundle, replays, session, handler, quarantine, purged, strayed,
                   restarts>>

OfOperation(p) == {row \in quarantine : row.op = p}

(* restoreDerivedFiles: every entry moves back, then the rows go. *)
Restore(b) ==
    /\ In("restoring") /\ b \in Left("quarantine")
    /\ \/ NoFault /\ SetDir(b, "published") /\ UNCHANGED <<purge, strayed>>
       \/ Fault /\ UNCHANGED bundle /\ purge' = NoPurge /\ strayed' = TRUE
    /\ UNCHANGED <<plan, replays, session, handler, quarantine, purged, restarts>>

EndRestore ==
    /\ In("restoring") /\ Left("quarantine") = {}
    /\ purge' = NoPurge /\ quarantine' = quarantine \ OfOperation(purge.op)
    /\ UNCHANGED <<plan, bundle, replays, session, handler, purged, strayed, restarts, faults>>

(* finalizeDerivedFiles *)
Finalize(b) ==
    /\ In("finalizing") /\ b \in Left("quarantine")
    /\ \/ NoFault /\ SetDir(b, "none") /\ UNCHANGED purge
       \/ Fault /\ UNCHANGED bundle /\ purge' = NoPurge
    /\ UNCHANGED <<plan, replays, session, handler, quarantine, purged, strayed, restarts>>

EndPurge ==
    /\ In("finalizing") /\ Left("quarantine") = {}
    /\ purge' = NoPurge /\ quarantine' = quarantine \ OfOperation(purge.op)
    /\ UNCHANGED <<plan, bundle, replays, session, handler, purged, strayed, restarts, faults>>

-----------------------------------------------------------------------------
(* The process ends anywhere; the next one loads the store.                 *)

(* Mutant: whatever is in quarantine moves back. *)
ReconciledBack(b) ==
    IF \E row \in quarantine : row.bundle = b THEN "published" ELSE "none"

(* reconcilePrivacyFileQuarantine: what a finished operation took goes, what *)
(* an unfinished one took moves back, what has no row goes.                 *)
Reconciled(b) ==
    IF \E row \in quarantine : row.bundle = b /\ row.op \notin purged
    THEN "published" ELSE "none"

Restart ==
    /\ restarts < MaxRestarts /\ restarts' = restarts + 1
    /\ bundle' = [b \in Started |-> IF bundle[b].dir = "quarantine"
                                    THEN [bundle[b] EXCEPT !.dir = Reconciled(b)]
                                    ELSE bundle[b]]
    /\ quarantine' = {} /\ purge' = NoPurge
    /\ handler' = [h \in Handlers |-> Idle]
    /\ UNCHANGED <<plan, replays, session, purged, strayed, faults>>

Next ==
    \/ SaveContext \/ Rebuild \/ Restart
    \/ \E h \in Handlers :
          \/ \E key \in Keys, base \in DOMAIN plan, change \in Changes :
                Apply(h, key, base, change)
          \/ Generate(h) \/ Refuse(h) \/ Stage(h) \/ Promote(h) \/ Remove(h)
          \/ CommitExport(h) \/ CommitChange(h) \/ CommitReplays(h)
          \/ CommitConflicts(h) \/ CommitFails(h)
    \/ \E key \in Keys : Replay(key)
    \/ \E p \in Purges : StartPurge(p)
    \/ \E b \in Started : Quarantine(b) \/ Restore(b) \/ Finalize(b)
    \/ CommitPurge \/ PurgeRefused \/ EndRestore \/ EndPurge

Spec == Init /\ [][Next]_vars

-----------------------------------------------------------------------------
TypeOK ==
    /\ \A r \in DOMAIN plan : plan[r].base \in 0..Len(plan) /\ plan[r].readable \in BOOLEAN
    /\ \A b \in Started : /\ bundle[b].row \in {"none", "kept", "purged"}
                          /\ bundle[b].revision \in DOMAIN plan
                          /\ bundle[b].dir \in {"none", "staging", "published", "quarantine"}
    /\ \A k \in Keys : replays[k].failures \in 0..MaxFailures
                       /\ replays[k].status = "succeeded" => replays[k].bundle \in Registered
    /\ session.status \in {"EXPORTED", "PLAN_REVIEW", "other plan"}
    /\ \A h \in Busy : handler[h].bundle \in Started
    /\ purged \subseteq Purges /\ strayed \in BOOLEAN
    /\ \A row \in quarantine : row.op \in Purges /\ row.bundle \in Started
    /\ faults \in 0..MaxFaults /\ restarts \in 0..MaxRestarts

(* Every change was made for the revision that it replaced: none that was   *)
(* accepted meanwhile is lost.                                              *)
HistoryIsLinear == \A r \in DOMAIN plan : plan[r].base = r - 1

(* Every revision is what its change was to make of its base, and passes the *)
(* review: what is essential keeps its time through any sequence of changes. *)
RevisionsKeepTheRules ==
    \A r \in DOMAIN plan : plan[r].base > 0 =>
        IsMade(plan[plan[r].base].lesson, plan[r].change, plan[r].lesson)

(* A key, sent again or sent twice at once, publishes one bundle.           *)
KeyPublishesOnce ==
    \A b, c \in Registered : bundle[b].key = bundle[c].key /\ b # c => bundle[b].key = NoReplay

(* A registered bundle has its files, or a privacy operation that has not   *)
(* succeeded holds them and has written down where they belong.             *)
HasFiles(b) ==
    \/ bundle[b].dir = "published"
    \/ /\ bundle[b].dir = "quarantine"
       /\ \E row \in quarantine : row.bundle = b /\ row.op \notin purged

(* The files of a bundle that was taken back are not among the materials;   *)
(* what a failed removal leaves of them is in quarantine, where the next    *)
(* launch removes it.                                                       *)
HasNoFiles(b) ==
    /\ bundle[b].dir \in {"none", "quarantine"}
    /\ bundle[b].dir = "quarantine" /\ Running => faults > 0

(* Whatever crashes, files and rows agree, provided that every move back    *)
(* succeeded.                                                               *)
FilesFollowRows ==
    ~strayed => /\ \A b \in Registered : HasFiles(b)
                /\ \A b \in Started : bundle[b].row = "purged" => HasNoFiles(b)

(* The session that exported the plan shows the revision that is current    *)
(* and a bundle of it, unless a crash or a failed write came between.       *)
SessionFollowsPlan ==
    session.status = "EXPORTED" /\ faults = 0 /\ restarts = 0 =>
        /\ session.revision = Current
        /\ bundle[session.bundle].revision = session.revision

(* What a key has come to is final: a late failure of the same request      *)
(* takes back no success, and a change that was given up is not applied.    *)
OutcomeIsFinal ==
    [][\A k \in Keys :
          /\ replays[k].status = "failed_final" => replays'[k] = replays[k]
          /\ replays[k].status = "succeeded" =>
                replays'[k] = replays[k] \/ purged' # purged
          /\ replays'[k].failures < replays[k].failures => purged' # purged]_vars

(* Revisions, bundles, keys and the session agree: no accepted change is     *)
(* lost or does more than it says, no key publishes twice, and the session   *)
(* shows what is current.                                                    *)
PublicationConsistent ==
    /\ TypeOK /\ HistoryIsLinear /\ RevisionsKeepTheRules /\ KeyPublishesOnce
    /\ SessionFollowsPlan
=============================================================================
