------------------------------ MODULE Preparation ------------------------------
(***************************************************************************)
(* Preparing one lesson: PreparationService (preparation/service.ts) and    *)
(* the session, its context, plans and bundles in db/sqliteStore.ts.        *)
(*                                                                         *)
(* A handler is atomic up to its await.  A build of a model-assisted        *)
(* session waits for the model, an export waits for the files; everything   *)
(* else may happen meanwhile, and the waiting handler keeps what it read.   *)
(* A request is sent with an idempotency key and may be sent again.  The    *)
(* session selects one source; plans and bundles are named by the order in  *)
(* which they are saved, 0 names none.                                      *)
(***************************************************************************)
EXTENDS Naturals, Sequences, FiniteSets

CONSTANTS
    Sources,      \* source versions
    NoSource,
    Keys,         \* idempotency keys of builds and exports
    Handlers,     \* builds and exports that may wait at the same time
    NoReplay,     \* nothing is stored under a key
    MaxRevision,  \* bound: no request starts at a higher session revision
    MaxContext,   \* bound: revisions of the teaching context
    MaxSaved,     \* bound: plans, and bundles, that are ever saved
    MaxRestarts,  \* bound
    MaxFaults     \* bound: failing writes

ASSUME BoundAssumption ==
    {MaxRevision, MaxSaved, MaxRestarts, MaxFaults} \subseteq Nat /\ MaxContext \in Nat \ {0}
ASSUME HandlerAssumption == IsFiniteSet(Handlers)

(* What is stored when a build or an export starts. *)
StartRecords ==
    [kind : {"build", "export"}, revision : Nat, plan : Nat, selection : Sources \cup {NoSource}]

ASSUME SentinelAssumption == NoSource \notin Sources /\ NoReplay \notin StartRecords

VARIABLES
    context,   \* teaching_context.revision
    source,    \* status of every source version
    session,   \* preparation_session and preparation_source
    plans,     \* lesson_revision: every plan ever saved
    bundles,   \* material_bundle: every bundle ever registered
    replays,   \* maintenance_idempotency: what is stored under each key
    handler,   \* memory: the builds and exports that wait
    restarts, faults

vars == <<context, source, session, plans, bundles, replays, handler, restarts, faults>>

-----------------------------------------------------------------------------
Statuses == {"CONTEXT_DRAFT", "SOURCES_SELECTED", "BUILDING", "PLAN_REVIEW",
             "READY_TO_EXPORT", "EXPORTING", "EXPORTED"}
Confirmed == {"READY_TO_EXPORT", "EXPORTING", "EXPORTED"}

CanTransition(from, to) ==
    to \in CASE from = "CONTEXT_DRAFT"    -> {"SOURCES_SELECTED"}
             [] from = "SOURCES_SELECTED" -> {"BUILDING"}
             [] from = "BUILDING"         -> {"PLAN_REVIEW", "SOURCES_SELECTED"}
             [] from = "PLAN_REVIEW"      -> {"READY_TO_EXPORT", "BUILDING"}
             [] from = "READY_TO_EXPORT"  -> {"EXPORTING", "PLAN_REVIEW", "BUILDING"}
             [] from = "EXPORTING"        -> {"EXPORTED", "READY_TO_EXPORT"}
             [] from = "EXPORTED"         -> {"PLAN_REVIEW", "BUILDING"}

Purged == {"protected", "deleted"}
Idle == [kind |-> "idle"]
Unused == [start |-> NoReplay, complete |-> FALSE, rollback |-> FALSE]
Waiting == {h \in Handlers : handler[h] # Idle}
Bounded == session.revision < MaxRevision

Init ==
    /\ context = 1
    /\ source = [s \in Sources |-> "active"]
    /\ session \in [status : {"CONTEXT_DRAFT"}, revision : {1},
                    mode : {"local_authored", "model_assisted"}, selection : {NoSource},
                    plan : {0}, report : {0}, bundle : {0}, error : {"none"}]
    /\ plans = <<>> /\ bundles = <<>>
    /\ replays = [k \in Keys |-> Unused]
    /\ handler = [h \in Handlers |-> Idle]
    /\ restarts = 0 /\ faults = 0

(* An update of the session's row always counts up its revision. *)
Revised(next) == [next EXCEPT !.revision = session.revision + 1]

-----------------------------------------------------------------------------
(* preparation.context.save: plans of this context become stale.            *)
Stale ==
    Revised([session EXCEPT !.status = "PLAN_REVIEW", !.report = 0, !.bundle = 0,
                            !.error = "stale"])

SaveContext ==
    /\ context < MaxContext /\ Bounded
    /\ context' = context + 1
    /\ session' = IF session.plan # 0 THEN Stale ELSE session
    /\ UNCHANGED <<source, plans, bundles, replays, handler, restarts, faults>>

(* preparation.sources.set, at any status.  The version must be current and *)
(* readable; whether its document is retired is not looked at.              *)
Selectable(s) == source[s] \in {"active", "retired"}

ReplaceSources(s) ==
    /\ Bounded /\ Selectable(s)
    /\ session' = Revised([session EXCEPT !.status = "SOURCES_SELECTED", !.selection = s,
                             !.plan = 0, !.report = 0, !.bundle = 0, !.error = "none"])
    /\ UNCHANGED <<context, source, plans, bundles, replays, handler, restarts, faults>>

(* Sources change without regard to the sessions that selected them. *)
RetireSource(s) ==
    /\ source[s] = "active" /\ source' = [source EXCEPT ![s] = "retired"]
    /\ UNCHANGED <<context, session, plans, bundles, replays, handler, restarts, faults>>

ImportNewVersion(s) ==
    /\ source[s] \in {"active", "retired"} /\ source' = [source EXCEPT ![s] = "superseded"]
    /\ UNCHANGED <<context, session, plans, bundles, replays, handler, restarts, faults>>

(* dependentPrivacyData and purgeDependentPrivacyData: what is saved now.   *)
PurgePlan(s, plan) ==
    IF plan.source = s THEN [plan EXCEPT !.valid = FALSE, !.reviewed = FALSE] ELSE plan
PurgeDependents(s) ==
    /\ plans' = [p \in DOMAIN plans |-> PurgePlan(s, plans[p])]
    /\ bundles' = [b \in DOMAIN bundles |->
                     IF plans[bundles[b].plan].source = s
                     THEN [bundles[b] EXCEPT !.kept = FALSE] ELSE bundles[b]]

ReclassifySource(s) ==
    /\ source[s] \notin Purged /\ source' = [source EXCEPT ![s] = "protected"]
    /\ PurgeDependents(s)
    /\ UNCHANGED <<context, session, replays, handler, restarts, faults>>

(* preparation_source references source_version: a version that the session *)
(* selects cannot be deleted.                                               *)
DeleteSource(s) ==
    /\ source[s] # "deleted" /\ session.selection # s
    /\ source' = [source EXCEPT ![s] = "deleted"]
    /\ PurgeDependents(s)
    /\ UNCHANGED <<context, session, replays, handler, restarts, faults>>

-----------------------------------------------------------------------------
(* A request starts by the transition to BUILDING or EXPORTING, stored      *)
(* under its key.  Sent again, it finds that transition and goes on from    *)
(* what was stored, whatever the session has become.                        *)
Transient == [build |-> "BUILDING", export |-> "EXPORTING"]
Fallback == [build |-> "SOURCES_SELECTED", export |-> "READY_TO_EXPORT"]

StartRecord(kind) ==
    [kind |-> kind, revision |-> session.revision + 1, plan |-> session.plan,
     selection |-> session.selection]
StartedSession(kind) ==
    Revised([session EXCEPT !.status = Transient[kind], !.error = "none"])

(* Mutant: a stored transition is not looked up. *)
IsNewEachTime(kind, key) == Bounded /\ CanTransition(session.status, Transient[kind])

IsNew(kind, key) ==
    /\ Bounded /\ replays[key] = Unused
    /\ CanTransition(session.status, Transient[kind])

(* currentAfterReplay, and its counterpart in export. *)
HasResult(start) ==
    /\ session.revision > start.revision
    /\ IF start.kind = "build"
       THEN session.plan # 0 /\ session.status \in Confirmed \cup {"PLAN_REVIEW"}
       ELSE session.status = "EXPORTED"

IsReplay(kind, key) ==
    LET start == replays[key].start
    IN  start # NoReplay /\ start.kind = kind /\ ~HasResult(start)

Room(kind, saved) ==
    Len(saved) + Cardinality({h \in Waiting : handler[h].kind = kind}) < MaxSaved

Store(key, session_, stored) ==
    /\ session' = session_
    /\ replays' = [replays EXCEPT ![key] = stored]

(* rollbackBuild, and the catch clause of export: they act on the session   *)
(* as it is now.  A key rolls back once: its second rollback would differ   *)
(* from the stored one and is refused.                                      *)
Fail(kind, key, now, stored) ==
    IF now.status = Transient[kind] /\ ~stored.rollback
    THEN Store(key,
               [now EXCEPT !.status = Fallback[kind], !.error = "failed", !.revision = @ + 1],
               [stored EXCEPT !.rollback = TRUE])
    ELSE Store(key, now, stored)

(* Mutant: the revision is read again, as it is for a rollback. *)
MayCompleteLater(start, now, stored) == now.status = Transient[start.kind] /\ ~stored.complete

(* The transition that ends the work, from the revision it started with. *)
MayComplete(start, now, stored) == now.revision = start.revision /\ ~stored.complete

Complete(start, key, next, now, stored) ==
    IF MayComplete(start, now, stored) /\ CanTransition(now.status, next.status)
    THEN Store(key, [next EXCEPT !.revision = @ + 1], [stored EXCEPT !.complete = TRUE])
    ELSE Fail(start.kind, key, now, stored)

-----------------------------------------------------------------------------
(* verifiedSources *)
Verified(s) == s # NoSource /\ source[s] = "active"

(* saveLessonRevision comes first, and stays if the transition is refused.  *)
(* What the review will say of a plan depends on the plan alone.            *)
SavePlan(quoted, basis, attached, sound) ==
    plans' = Append(plans, [source |-> quoted, context |-> basis, attached |-> attached,
                            valid |-> TRUE, sound |-> sound, reviewed |-> FALSE])

AttachPlan(start, key, quoted, basis, now, stored) ==
    \E sound \in BOOLEAN :
        /\ SavePlan(quoted, basis, context, sound)
        /\ Complete(start, key, [now EXCEPT !.status = "PLAN_REVIEW", !.plan = Len(plans) + 1,
                                            !.report = 0, !.bundle = 0, !.error = "none"],
                    now, stored)

(* The build of a local session never waits. *)
BuildLocally(start, key, now, stored) ==
    /\ session.mode = "local_authored" /\ Verified(start.selection)
    /\ AttachPlan(start, key, start.selection, context, now, stored)
    /\ UNCHANGED <<handler, faults>>

(* A source that changed, an empty task, a plan that is not valid. *)
BuildRefused(start, key, now, stored) ==
    /\ session.mode = "local_authored" \/ ~Verified(start.selection)
    /\ Fail("build", key, now, stored)
    /\ UNCHANGED <<plans, handler, faults>>

(* The database refuses the transition, and then the rollback. *)
BuildUnwritable(key, now, stored) ==
    /\ session.mode = "local_authored" /\ faults < MaxFaults /\ faults' = faults + 1
    /\ Store(key, now, stored)
    /\ UNCHANGED <<plans, handler>>

AskModel(h, start, key, now, stored) ==
    /\ session.mode = "model_assisted" /\ Verified(start.selection)
    /\ handler' = [handler EXCEPT ![h] = [kind |-> "build", key |-> key, start |-> start,
                                          quoted |-> start.selection, context |-> context]]
    /\ Store(key, now, stored)
    /\ UNCHANGED <<plans, faults>>

BuildFrom(h, start, key, now, stored) ==
    /\ Room("build", plans)
    /\ \/ BuildLocally(start, key, now, stored)
       \/ BuildRefused(start, key, now, stored)
       \/ BuildUnwritable(key, now, stored)
       \/ AskModel(h, start, key, now, stored)
    /\ UNCHANGED <<context, source, bundles, restarts>>

Build(h, key) ==
    /\ handler[h] = Idle /\ IsNew("build", key)
    /\ BuildFrom(h, StartRecord("build"), key, StartedSession("build"),
                 [Unused EXCEPT !.start = StartRecord("build")])

BuildAgain(h, key) ==
    /\ handler[h] = Idle /\ IsReplay("build", key)
    /\ BuildFrom(h, replays[key].start, key, session, replays[key])

Rest(h) == handler' = [handler EXCEPT ![h] = Idle]

ModelAnswers(h) ==
    LET w == handler[h] IN
    /\ w # Idle /\ w.kind = "build"
    /\ AttachPlan(w.start, w.key, w.quoted, w.context, session, replays[w.key])
    /\ Rest(h) /\ UNCHANGED <<context, source, bundles, restarts, faults>>

HandlerFails(h) ==
    LET w == handler[h] IN
    /\ w # Idle
    /\ Fail(w.kind, w.key, session, replays[w.key])
    /\ Rest(h) /\ UNCHANGED <<context, source, plans, bundles, restarts, faults>>

-----------------------------------------------------------------------------
(* preparation.review: the session keeps its revision. *)
Review ==
    /\ session.status = "PLAN_REVIEW" /\ session.plan # 0
    /\ plans[session.plan].valid /\ ~plans[session.plan].reviewed
    /\ plans' = [plans EXCEPT ![session.plan].reviewed = TRUE]
    /\ UNCHANGED <<context, source, session, bundles, replays, handler, restarts, faults>>

(* Mutant: any report will do. *)
AnyReport(p) == plans[p].reviewed

ReadyReport(p) == plans[p].reviewed /\ plans[p].sound

Confirm ==
    /\ session.status = "PLAN_REVIEW" /\ session.error # "stale" /\ session.plan # 0
    /\ ReadyReport(session.plan)
    /\ session' = Revised([session EXCEPT !.status = "READY_TO_EXPORT",
                                          !.report = session.plan, !.error = "none"])
    /\ UNCHANGED <<context, source, plans, bundles, replays, handler, restarts, faults>>

(* exportPreparedMaterials reads the plan at once and waits for its files. *)
ExportFrom(h, start, key, now, stored) ==
    /\ Room("export", bundles)
    /\ handler' = [handler EXCEPT ![h] = [kind |-> "export", key |-> key, start |-> start,
                                          quoted |-> plans[start.plan].source,
                                          readable |-> plans[start.plan].valid]]
    /\ Store(key, now, stored)
    /\ UNCHANGED <<context, source, plans, bundles, restarts, faults>>

Export(h, key) ==
    /\ handler[h] = Idle /\ IsNew("export", key)
    /\ ExportFrom(h, StartRecord("export"), key, StartedSession("export"),
                  [Unused EXCEPT !.start = StartRecord("export")])

ExportAgain(h, key) ==
    /\ handler[h] = Idle /\ IsReplay("export", key)
    /\ ExportFrom(h, replays[key].start, key, session, replays[key])

(* commitMaterialBundle, with the report of the bundle. *)
RegisterBundle(p) ==
    /\ bundles' = Append(bundles, [plan |-> p, kept |-> TRUE])
    /\ plans' = [plans EXCEPT ![p].reviewed = TRUE]

FilesReady(h) ==
    LET w == handler[h] IN
    /\ w # Idle /\ w.kind = "export" /\ w.readable
    /\ RegisterBundle(w.start.plan)
    /\ Complete(w.start, w.key,
                [session EXCEPT !.status = "EXPORTED", !.bundle = Len(bundles) + 1,
                                !.report = w.start.plan, !.error = "none"],
                session, replays[w.key])
    /\ Rest(h) /\ UNCHANGED <<context, source, restarts, faults>>

(* Mutant: the sources of a confirmed plan are not looked at again. *)
MayPresentConfirmed ==
    /\ session.status \in {"READY_TO_EXPORT", "EXPORTED"}
    /\ session.plan # 0 /\ session.report = session.plan
    /\ plans[session.plan].valid /\ ReadyReport(session.plan)

(* PresentationService.open: what the classroom may be shown.  It looks at the *)
(* sources that the session selects, not at those the plan was made from.    *)
MayPresent ==
    /\ session.status \in {"READY_TO_EXPORT", "EXPORTED"}
    /\ session.plan # 0 /\ session.report = session.plan
    /\ plans[session.plan].valid /\ ReadyReport(session.plan)
    /\ Verified(session.selection)

(* A handler writes its plan or bundle, and then the session. *)
FirstWriteOnly(h) ==
    LET w == handler[h] IN
    IF w.kind = "build"
    THEN \E sound \in BOOLEAN :
             SavePlan(w.quoted, w.context, context, sound) /\ UNCHANGED bundles
    ELSE w.readable /\ RegisterBundle(w.start.plan)

(* The transition cannot be written, nor the rollback. *)
HandlerCannotWrite(h) ==
    /\ handler[h] # Idle /\ faults < MaxFaults /\ faults' = faults + 1
    /\ UNCHANGED <<plans, bundles>> \/ FirstWriteOnly(h)
    /\ Rest(h) /\ UNCHANGED <<context, source, session, replays, restarts>>

-----------------------------------------------------------------------------
(* reconcileInterruptedStatus *)
Reconciled ==
    CASE session.status = "BUILDING" ->
             Revised([session EXCEPT !.status = Fallback.build, !.error = "interrupted"])
      [] session.status = "EXPORTING" ->
             Revised([session EXCEPT !.status = Fallback.export, !.error = "interrupted"])
      [] OTHER -> session

Restart ==
    /\ restarts < MaxRestarts /\ restarts' = restarts + 1
    /\ UNCHANGED <<plans, bundles>> \/ \E h \in Waiting : FirstWriteOnly(h)
    /\ session' = Reconciled
    /\ handler' = [h \in Handlers |-> Idle]
    /\ UNCHANGED <<context, source, replays, faults>>

Next ==
    \/ SaveContext \/ Review \/ Confirm \/ Restart
    \/ \E s \in Sources :
          \/ ReplaceSources(s) \/ RetireSource(s) \/ ImportNewVersion(s)
          \/ ReclassifySource(s) \/ DeleteSource(s)
    \/ \E h \in Handlers :
          \/ \E key \in Keys : Build(h, key) \/ BuildAgain(h, key)
                               \/ Export(h, key) \/ ExportAgain(h, key)
          \/ ModelAnswers(h) \/ FilesReady(h) \/ HandlerFails(h) \/ HandlerCannotWrite(h)

(* A call of the model ends (ModelCalls!EveryCallEnds), and so do writes of *)
(* files.                                                                   *)
Fairness ==
    \A h \in Handlers : WF_vars(ModelAnswers(h) \/ FilesReady(h) \/ HandlerFails(h))

Spec == Init /\ [][Next]_vars /\ Fairness

-----------------------------------------------------------------------------
(* What a session names exists, and its report is one of its own plan.      *)
TypeOK ==
    /\ context \in 1..MaxContext
    /\ source \in [Sources -> {"active", "retired", "superseded"} \cup Purged]
    /\ session.status \in Statuses
    /\ session.selection \in Sources \cup {NoSource}
    /\ session.plan \in 0..Len(plans) /\ session.bundle \in 0..Len(bundles)
    /\ session.report \in {0, session.plan}
    /\ session.error \in {"none", "stale", "failed", "interrupted"}
    /\ Len(plans) <= MaxSaved /\ Len(bundles) <= MaxSaved
    /\ \A h \in Waiting : replays[handler[h].key].start = handler[h].start
    /\ restarts \in 0..MaxRestarts /\ faults \in 0..MaxFaults

(* A build that outlives the sources it quotes never becomes the plan of    *)
(* the session: the plan quotes what the session selects now.               *)
PlanFitsSelection == session.plan # 0 => plans[session.plan].source = session.selection

(* Whatever is or may be exported was found ready by a review, under the    *)
(* context that still holds: a later change takes the session back to its   *)
(* review.  The bundle that an exported session names is one of that plan.  *)
PublishedIsReviewed ==
    /\ session.status \in Confirmed =>
          /\ session.plan # 0 /\ session.report = session.plan
          /\ plans[session.plan].sound /\ plans[session.plan].attached = context
    /\ session.status = "EXPORTED" =>
          session.bundle # 0 /\ bundles[session.bundle].plan = session.plan

(* Unless a write failed, BUILDING and EXPORTING belong to a handler that   *)
(* still waits: no restart, rollback or retry leaves them behind, and they  *)
(* last no longer than a call of the model or the writing of the files.     *)
TransientHasHandler ==
    \A kind \in DOMAIN Transient :
        session.status = Transient[kind] /\ faults = 0 =>
            \E h \in Waiting : handler[h].kind = kind

(* A key sent again never starts its work a second time: what it stored is  *)
(* kept, and BUILDING or EXPORTING is only entered under a new key.         *)
RetryStartsNothing ==
    [][/\ \A k \in Keys : replays[k].start # NoReplay => replays'[k].start = replays[k].start
       /\ \A kind \in DOMAIN Transient :
             session'.status = Transient[kind] /\ session.status # Transient[kind] =>
                 \E k \in Keys : replays[k] = Unused /\ replays'[k] # Unused]_vars

(* The classroom is never shown a plan that quotes a source which is purged,  *)
(* replaced or retired, nor one that was made for a context that has changed  *)
(* since, however late the build or the export of it came to an end.         *)
ClassroomIsCurrent ==
    MayPresent => /\ source[plans[session.plan].source] = "active"
                  /\ plans[session.plan].attached = context

(* The session fits its plan, its selection, the handlers that wait, and what *)
(* the classroom is shown.                                                   *)
SessionConsistent ==
    TypeOK /\ PlanFitsSelection /\ TransientHasHandler /\ ClassroomIsCurrent
=============================================================================
