-------------------------- MODULE PreparationProofs --------------------------
(***************************************************************************)
(* For every number of sources, keys, handlers, plans and restarts: the      *)
(* session fits its plan and its selection, what is published was reviewed,  *)
(* and a key that is sent again starts nothing.                             *)
(***************************************************************************)
EXTENDS Preparation, FiniteSetTheorems, TLAPS

-----------------------------------------------------------------------------
(* The inductive invariant.                                                 *)
Kinds == {"build", "export"}
Selections == Sources \cup {NoSource}
PlanRecords ==
    [source : Selections, context : Nat, attached : Nat,
     valid : BOOLEAN, sound : BOOLEAN, reviewed : BOOLEAN]
BundleRecords == [plan : Nat, kept : BOOLEAN]

SavedOK == plans \in Seq(PlanRecords) /\ bundles \in Seq(BundleRecords)

(* A session x fits the plans and the bundles. *)
Shaped(x) ==
    x = [status |-> x.status, revision |-> x.revision, mode |-> x.mode,
         selection |-> x.selection, plan |-> x.plan, report |-> x.report,
         bundle |-> x.bundle, error |-> x.error]

SessionTyped(x) ==
    /\ Shaped(x) /\ x.status \in Statuses /\ x.revision \in Nat /\ x.selection \in Selections
    /\ x.error \in {"none", "stale", "failed", "interrupted"}
    /\ x.report \in {0, x.plan}

SessionFits(x, ps, bs, now) ==
    /\ SessionTyped(x) /\ x.plan \in 0..Len(ps) /\ x.bundle \in 0..Len(bs)
    /\ x.plan # 0 => ps[x.plan].source = x.selection
    /\ x.status \in Confirmed =>
         /\ x.plan # 0 /\ x.report = x.plan /\ ps[x.plan].sound /\ ps[x.plan].attached = now
    /\ x.status = "EXPORTED" => x.bundle # 0 /\ bs[x.bundle].plan = x.plan
    /\ x.status = "PLAN_REVIEW" /\ x.plan # 0 /\ x.error # "stale" => ps[x.plan].attached = now

(* What a key stored, once the session is x: while its revision is that of   *)
(* the start, its selection and plan are, too.                              *)
StartFits(start, x) ==
    /\ start \in StartRecords /\ start.revision <= x.revision
    /\ start.revision = x.revision => start.selection = x.selection /\ start.plan = x.plan

StoredTyped(r) ==
    /\ r = [start |-> r.start, complete |-> r.complete, rollback |-> r.rollback]
    /\ r.complete \in BOOLEAN /\ r.rollback \in BOOLEAN

ReplaysFit ==
    /\ replays = [k \in Keys |-> replays[k]]
    /\ \A k \in Keys : \/ replays[k] = Unused
                       \/ StoredTyped(replays[k]) /\ StartFits(replays[k].start, session)

HandlersFit ==
    /\ handler = [h \in Handlers |-> handler[h]]
    /\ \A h \in Waiting : LET w == handler[h] IN
         /\ w.kind \in Kinds /\ w.key \in Keys /\ replays[w.key] # Unused
         /\ w.start = replays[w.key].start /\ w.start.kind = w.kind
         /\ w.kind = "build" => w.quoted = w.start.selection /\ w.context \in Nat

(* BUILDING and EXPORTING belong to a handler that will end them: it started *)
(* at this revision, under a key that has not been rolled back.             *)
TransientIsOwned ==
    \A kind \in Kinds : session.status = Transient[kind] /\ faults = 0 =>
      \E h \in Waiting : /\ handler[h].kind = kind
                         /\ handler[h].start.revision = session.revision
                         /\ ~replays[handler[h].key].rollback

Count(kind) == Cardinality({h \in Waiting : handler[h].kind = kind})
Capacity ==
    Len(plans) + Count("build") <= MaxSaved /\ Len(bundles) + Count("export") <= MaxSaved

Scalars ==
    /\ context \in 1..MaxContext
    /\ source \in [Sources -> {"active", "retired", "superseded"} \cup Purged]
    /\ restarts \in 0..MaxRestarts /\ faults \in 0..MaxFaults

Inv ==
    /\ Scalars /\ SavedOK /\ SessionFits(session, plans, bundles, context)
    /\ ReplaysFit /\ HandlersFit /\ TransientIsOwned /\ Capacity

-----------------------------------------------------------------------------
LEMMA Bounds ==
  /\ MaxRevision \in Nat /\ MaxSaved \in Nat /\ MaxRestarts \in Nat /\ MaxFaults \in Nat
  /\ MaxContext \in Nat /\ MaxContext >= 1
BY BoundAssumption

LEMMA TransientIs ==
  /\ Transient["build"] = "BUILDING" /\ Transient["export"] = "EXPORTING"
  /\ Fallback["build"] = "SOURCES_SELECTED" /\ Fallback["export"] = "READY_TO_EXPORT"
  /\ Fallback.build = "SOURCES_SELECTED" /\ Fallback.export = "READY_TO_EXPORT"
  /\ DOMAIN Transient = Kinds
BY DEF Transient, Fallback, Kinds

(* What the table of transitions forbids. *)
LEMMA TransitionFrom ==
  ASSUME NEW from \in Statuses
  PROVE  /\ CanTransition(from, "EXPORTED") => from = "EXPORTING"
         /\ CanTransition(from, "EXPORTING") => from = "READY_TO_EXPORT"
         /\ CanTransition(from, "BUILDING") => from \notin {"BUILDING", "EXPORTING"}
BY DEF CanTransition, Statuses

LEMMA UnusedIs == Unused.start = NoReplay /\ Unused.rollback = FALSE /\ Unused.complete = FALSE
BY DEF Unused

(* The session follows plans that keep what they are about, and bundles.     *)
PlansKept(ps) ==
    /\ ps \in Seq(PlanRecords) /\ Len(plans) <= Len(ps)
    /\ \A i \in 1..Len(plans) : /\ ps[i].source = plans[i].source
                                /\ ps[i].sound = plans[i].sound
                                /\ ps[i].attached = plans[i].attached
BundlesKept(bs) ==
    /\ bs \in Seq(BundleRecords) /\ Len(bundles) <= Len(bs)
    /\ \A i \in 1..Len(bundles) : bs[i].plan = bundles[i].plan

LEMMA SessionFollows ==
  ASSUME SavedOK, NEW x, SessionFits(x, plans, bundles, context), NEW ps, PlansKept(ps),
         NEW bs, BundlesKept(bs)
  PROVE  SessionFits(x, ps, bs, context)
<1>1. /\ Len(plans) \in Nat /\ Len(bundles) \in Nat /\ Len(ps) \in Nat /\ Len(bs) \in Nat
  BY DEF SavedOK, PlansKept, BundlesKept
<1>2. x.plan \in 0..Len(ps) /\ x.bundle \in 0..Len(bs)
  BY <1>1 DEF SessionFits, PlansKept, BundlesKept
<1>3. x.plan # 0 => x.plan \in 1..Len(plans)
  BY <1>1 DEF SessionFits
<1>4. x.bundle # 0 => x.bundle \in 1..Len(bundles)
  BY <1>1 DEF SessionFits
<1> QED
  BY <1>2, <1>3, <1>4 DEF SessionFits, PlansKept, BundlesKept

LEMMA StartFollows ==
  ASSUME NEW start, NEW x, StartFits(start, x), x.revision \in Nat, NEW y, y.revision \in Nat,
         y = x \/ y.revision > x.revision
  PROVE  StartFits(start, y)
BY DEF StartFits, StartRecords

-----------------------------------------------------------------------------
LEMMA InitInv == Init => Inv
<1> SUFFICES ASSUME Init PROVE Inv
  OBVIOUS
<1>1. Waiting = {}
  BY DEF Init, Waiting
<1>2. PICK mode : session = [status |-> "CONTEXT_DRAFT", revision |-> 1, mode |-> mode,
         selection |-> NoSource, plan |-> 0, report |-> 0, bundle |-> 0, error |-> "none"]
  <2>1. /\ session.status = "CONTEXT_DRAFT" /\ session.revision = 1 /\ session.selection = NoSource
        /\ session.plan = 0 /\ session.report = 0 /\ session.bundle = 0 /\ session.error = "none"
        /\ session = [status |-> session.status, revision |-> session.revision,
                      mode |-> session.mode, selection |-> session.selection,
                      plan |-> session.plan, report |-> session.report,
                      bundle |-> session.bundle, error |-> session.error]
    BY DEF Init
  <2> QED
    BY <2>1
<1>3. Scalars
  BY Bounds DEF Init, Scalars
<1>4. SavedOK /\ Len(plans) = 0 /\ Len(bundles) = 0
  BY DEF Init, SavedOK
<1>5. SessionFits(session, plans, bundles, context)
  BY <1>2, <1>4 DEF SessionFits, SessionTyped, Shaped, Statuses, Confirmed, Selections
<1>6. ReplaysFit
  BY DEF Init, ReplaysFit
<1>7. HandlersFit /\ TransientIsOwned
  BY <1>1, <1>2, TransientIs DEF Init, HandlersFit, TransientIsOwned, Kinds
<1>8. Capacity
  <2>1. \A kind : Count(kind) = 0
    BY <1>1, FS_EmptySet DEF Count
  <2> QED
    BY <1>4, <2>1, Bounds DEF Capacity
<1> QED
  BY <1>3, <1>4, <1>5, <1>6, <1>7, <1>8 DEF Inv

-----------------------------------------------------------------------------
(* Plans and bundles are added, reviewed and purged; what a session relies   *)
(* on stays.                                                                *)
LEMMA SavedSame ==
  ASSUME SavedOK
  PROVE  /\ plans' = plans => PlansKept(plans')
         /\ bundles' = bundles => BundlesKept(bundles')
BY DEF SavedOK, PlansKept, BundlesKept

LEMMA PlanSaved ==
  ASSUME SavedOK, NEW quoted \in Selections, NEW basis \in Nat, NEW attached \in Nat,
         NEW sound \in BOOLEAN, SavePlan(quoted, basis, attached, sound)
  PROVE  /\ PlansKept(plans') /\ Len(plans') = Len(plans) + 1
         /\ plans'[Len(plans) + 1].source = quoted
         /\ plans'[Len(plans) + 1].attached = attached
<1> DEFINE r == [source |-> quoted, context |-> basis, attached |-> attached,
                 valid |-> TRUE, sound |-> sound, reviewed |-> FALSE]
<1>1. r \in PlanRecords /\ r.source = quoted /\ r.attached = attached
  BY DEF PlanRecords
<1>2. plans' = Append(plans, r)
  BY DEF SavePlan
<1> HIDE DEF r
<1>3. /\ plans \in Seq(PlanRecords) /\ Len(plans) \in Nat
  BY DEF SavedOK
<1>4. /\ plans' \in Seq(PlanRecords) /\ Len(plans') = Len(plans) + 1
      /\ plans'[Len(plans) + 1] = r /\ \A i \in 1..Len(plans) : plans'[i] = plans[i]
  BY <1>1, <1>2, <1>3
<1> QED
  BY <1>1, <1>3, <1>4 DEF PlansKept

LEMMA IsSequence ==
  ASSUME NEW S, NEW n \in Nat, NEW q, q = [i \in 1..n |-> q[i]], \A i \in 1..n : q[i] \in S
  PROVE  q \in Seq(S) /\ Len(q) = n
<1>1. q \in [1..n -> S]
  OBVIOUS
<1>2. q \in Seq(S)
  BY <1>1
<1>3. DOMAIN q = 1..n
  OBVIOUS
<1> QED
  BY <1>2, <1>3

LEMMA PlanMarked ==
  ASSUME SavedOK, NEW p, plans' = [plans EXCEPT ![p].reviewed = TRUE]
  PROVE  PlansKept(plans') /\ Len(plans') = Len(plans)
<1> DEFINE one(i) == [plans[i] EXCEPT !.reviewed = TRUE]
<1>1. plans \in Seq(PlanRecords) /\ Len(plans) \in Nat /\ DOMAIN plans = 1..Len(plans)
  BY DEF SavedOK
<1>2. \A i \in 1..Len(plans) : /\ plans[i] \in PlanRecords
                               /\ one(i) \in PlanRecords /\ one(i).source = plans[i].source
                               /\ one(i).sound = plans[i].sound
                               /\ one(i).attached = plans[i].attached
  <2> SUFFICES ASSUME NEW i \in 1..Len(plans)
               PROVE  /\ plans[i] \in PlanRecords
                      /\ one(i) \in PlanRecords /\ one(i).source = plans[i].source
                      /\ one(i).sound = plans[i].sound /\ one(i).attached = plans[i].attached
    OBVIOUS
  <2>1. plans[i] \in PlanRecords
    BY <1>1
  <2> QED
    BY <2>1 DEF PlanRecords
<1>3. /\ DOMAIN plans' = 1..Len(plans)
      /\ \A i \in 1..Len(plans) : plans'[i] = plans[i] \/ plans'[i] = one(i)
  <2>1. plans' = [plans EXCEPT ![p] = [plans[p] EXCEPT !.reviewed = TRUE]]
    OBVIOUS
  <2>2. DOMAIN plans' = 1..Len(plans)
    BY <1>1, <2>1
  <2>3. ASSUME NEW i \in 1..Len(plans) PROVE plans'[i] = plans[i] \/ plans'[i] = one(i)
    <3>1. CASE i = p
      BY <1>1, <2>1, <3>1
    <3>2. CASE i # p
      BY <1>1, <2>1, <3>2
    <3> QED
      BY <3>1, <3>2
  <2> QED
    BY <2>2, <2>3
<1>4. plans' = [i \in 1..Len(plans) |-> plans'[i]]
  BY <1>3
<1> HIDE DEF one
<1>5. \A i \in 1..Len(plans) : plans'[i] \in PlanRecords
  BY <1>2, <1>3
<1>6. plans' \in Seq(PlanRecords) /\ Len(plans') = Len(plans)
  <2>1. PICK ps : ps = plans'
    OBVIOUS
  <2>2. ps = [i \in 1..Len(plans) |-> ps[i]] /\ \A i \in 1..Len(plans) : ps[i] \in PlanRecords
    BY <1>4, <1>5, <2>1
  <2>3. ps \in Seq(PlanRecords) /\ Len(ps) = Len(plans)
    BY <1>1, <2>2, IsSequence
  <2> QED
    BY <2>1, <2>3
<1> QED
  BY <1>1, <1>2, <1>3, <1>6 DEF PlansKept

LEMMA BundleRegistered ==
  ASSUME SavedOK, NEW p \in Nat, RegisterBundle(p)
  PROVE  /\ PlansKept(plans') /\ Len(plans') = Len(plans)
         /\ BundlesKept(bundles') /\ Len(bundles') = Len(bundles) + 1
         /\ bundles'[Len(bundles) + 1].plan = p
<1> DEFINE r == [plan |-> p, kept |-> TRUE]
<1>1. r \in BundleRecords /\ r.plan = p
  BY DEF BundleRecords
<1>2. bundles' = Append(bundles, r) /\ plans' = [plans EXCEPT ![p].reviewed = TRUE]
  BY DEF RegisterBundle
<1> HIDE DEF r
<1>3. bundles \in Seq(BundleRecords) /\ Len(bundles) \in Nat
  BY DEF SavedOK
<1>4. /\ bundles' \in Seq(BundleRecords) /\ Len(bundles') = Len(bundles) + 1
      /\ bundles'[Len(bundles) + 1] = r /\ \A i \in 1..Len(bundles) : bundles'[i] = bundles[i]
  BY <1>1, <1>2, <1>3
<1>5. BundlesKept(bundles')
  BY <1>3, <1>4 DEF BundlesKept
<1> QED
  BY <1>1, <1>2, <1>4, <1>5, PlanMarked

LEMMA PlanReviewed ==
  ASSUME SavedOK, Review
  PROVE  PlansKept(plans') /\ Len(plans') = Len(plans)
BY PlanMarked DEF Review

LEMMA SavedPurged ==
  ASSUME SavedOK, NEW s, PurgeDependents(s)
  PROVE  /\ PlansKept(plans') /\ Len(plans') = Len(plans)
         /\ BundlesKept(bundles') /\ Len(bundles') = Len(bundles)
<1>1. /\ plans \in Seq(PlanRecords) /\ Len(plans) \in Nat /\ DOMAIN plans = 1..Len(plans)
      /\ bundles \in Seq(BundleRecords) /\ Len(bundles) \in Nat
      /\ DOMAIN bundles = 1..Len(bundles)
  BY DEF SavedOK
<1>2. \A i \in 1..Len(plans) : LET one == PurgePlan(s, plans[i]) IN
         /\ one \in PlanRecords /\ one.source = plans[i].source
         /\ one.sound = plans[i].sound /\ one.attached = plans[i].attached
  <2> SUFFICES ASSUME NEW i \in 1..Len(plans)
               PROVE  LET one == PurgePlan(s, plans[i]) IN
                        /\ one \in PlanRecords /\ one.source = plans[i].source
                        /\ one.sound = plans[i].sound /\ one.attached = plans[i].attached
    OBVIOUS
  <2>1. plans[i] \in PlanRecords
    BY <1>1
  <2> QED
    BY <2>1 DEF PurgePlan, PlanRecords
<1>3. plans' = [i \in 1..Len(plans) |-> PurgePlan(s, plans[i])]
  BY <1>1 DEF PurgeDependents
<1>4. /\ plans' \in Seq(PlanRecords) /\ Len(plans') = Len(plans)
      /\ \A i \in 1..Len(plans) : plans'[i] = PurgePlan(s, plans[i])
  BY <1>1, <1>2, <1>3
<1>5. PlansKept(plans')
  BY <1>1, <1>2, <1>4 DEF PlansKept
<1> DEFINE other(i) == IF plans[bundles[i].plan].source = s
                       THEN [bundles[i] EXCEPT !.kept = FALSE] ELSE bundles[i]
<1>6. \A i \in 1..Len(bundles) : other(i) \in BundleRecords /\ other(i).plan = bundles[i].plan
  <2> SUFFICES ASSUME NEW i \in 1..Len(bundles)
               PROVE  other(i) \in BundleRecords /\ other(i).plan = bundles[i].plan
    OBVIOUS
  <2>1. bundles[i] \in BundleRecords
    BY <1>1
  <2> QED
    BY <2>1 DEF BundleRecords
<1>7. bundles' = [i \in 1..Len(bundles) |-> other(i)]
  BY <1>1 DEF PurgeDependents
<1> HIDE DEF other
<1>8. /\ bundles' \in Seq(BundleRecords) /\ Len(bundles') = Len(bundles)
      /\ \A i \in 1..Len(bundles) : bundles'[i] = other(i)
  BY <1>1, <1>6, <1>7
<1>9. BundlesKept(bundles')
  BY <1>1, <1>6, <1>8 DEF BundlesKept
<1> QED
  BY <1>4, <1>5, <1>8, <1>9

-----------------------------------------------------------------------------
(* How work ends: the session is what it was, unless it was this work that    *)
(* it waited for, or it has left BUILDING and EXPORTING.                     *)
Changed(r, c, b) == [r EXCEPT !.complete = c, !.rollback = b]

Ended(kind, key, now, stored) ==
    \/ /\ session' = now /\ replays' = [replays EXCEPT ![key] = stored]
       /\ now.status = Transient[kind] => stored.rollback
    \/ /\ session'.revision = now.revision + 1 /\ session'.status \notin {"BUILDING", "EXPORTING"}
       /\ \E c, b \in BOOLEAN : replays' = [replays EXCEPT ![key] = Changed(stored, c, b)]

LEMMA FailEnds ==
  ASSUME NEW kind \in Kinds, NEW key, NEW now, NEW stored, NEW ps, NEW bs, NEW ctx,
         SessionFits(now, ps, bs, ctx), StoredTyped(stored), Fail(kind, key, now, stored)
  PROVE  SessionFits(session', ps, bs, ctx) /\ Ended(kind, key, now, stored)
<1>1. CASE ~(now.status = Transient[kind] /\ ~stored.rollback)
  <2>1. session' = now /\ replays' = [replays EXCEPT ![key] = stored]
    BY <1>1 DEF Fail, Store
  <2> QED
    BY <1>1, <2>1 DEF Ended
<1>2. CASE now.status = Transient[kind] /\ ~stored.rollback
  <2>1. /\ session' = [now EXCEPT !.status = Fallback[kind], !.error = "failed", !.revision = @ + 1]
        /\ replays' = [replays EXCEPT ![key] = [stored EXCEPT !.rollback = TRUE]]
    BY <1>2 DEF Fail, Store
  <2>2. Shaped(now) /\ now.revision \in Nat
    BY DEF SessionFits, SessionTyped
  <2>3. /\ Shaped(session') /\ session'.status = Fallback[kind] /\ session'.error = "failed"
        /\ session'.revision = now.revision + 1 /\ session'.selection = now.selection
        /\ session'.plan = now.plan /\ session'.report = now.report
        /\ session'.bundle = now.bundle
    BY <2>1, <2>2 DEF Shaped
  <2>4. Fallback[kind] \in {"SOURCES_SELECTED", "READY_TO_EXPORT"}
        /\ (Fallback[kind] = "READY_TO_EXPORT" => now.status = "EXPORTING")
    BY <1>2, TransientIs DEF Kinds
  <2>5. SessionFits(session', ps, bs, ctx)
    BY <2>2, <2>3, <2>4 DEF SessionFits, SessionTyped, Statuses, Confirmed
  <2>6. [stored EXCEPT !.rollback = TRUE] = Changed(stored, stored.complete, TRUE)
    BY DEF Changed, StoredTyped
  <2>7. Ended(kind, key, now, stored)
    BY <2>1, <2>3, <2>4, <2>6 DEF Ended, StoredTyped
  <2> QED
    BY <2>5, <2>7
<1> QED
  BY <1>1, <1>2

(* The transition that ends the work, when what it leads to fits.            *)
LEMMA CompleteEnds ==
  ASSUME NEW start, NEW key, NEW next, NEW now, NEW stored, NEW ps, NEW bs, NEW ctx,
         start.kind \in Kinds, SessionFits(now, ps, bs, ctx), StoredTyped(stored),
         Complete(start, key, next, now, stored),
         next.revision = now.revision, next.status \notin {"BUILDING", "EXPORTING"},
         /\ now.revision = start.revision
         /\ CanTransition(now.status, next.status)
         => SessionFits(next, ps, bs, ctx)
  PROVE  SessionFits(session', ps, bs, ctx) /\ Ended(start.kind, key, now, stored)
<1>1. CASE MayComplete(start, now, stored) /\ CanTransition(now.status, next.status)
  <2>1. /\ session' = [next EXCEPT !.revision = @ + 1]
        /\ replays' = [replays EXCEPT ![key] = [stored EXCEPT !.complete = TRUE]]
    BY <1>1 DEF Complete, Store
  <2>2. SessionFits(next, ps, bs, ctx) /\ Shaped(next) /\ next.revision \in Nat
    BY <1>1 DEF MayComplete, SessionFits, SessionTyped
  <2>3. /\ Shaped(session') /\ session'.status = next.status /\ session'.error = next.error
        /\ session'.revision = now.revision + 1 /\ session'.selection = next.selection
        /\ session'.plan = next.plan /\ session'.report = next.report
        /\ session'.bundle = next.bundle
    BY <2>1, <2>2 DEF Shaped
  <2>4. SessionFits(session', ps, bs, ctx)
    BY <2>2, <2>3 DEF SessionFits, SessionTyped
  <2>5. [stored EXCEPT !.complete = TRUE] = Changed(stored, TRUE, stored.rollback)
    BY DEF Changed, StoredTyped
  <2>6. Ended(start.kind, key, now, stored)
    BY <2>1, <2>3, <2>5 DEF Ended, StoredTyped
  <2> QED
    BY <2>4, <2>6
<1>2. CASE ~(MayComplete(start, now, stored) /\ CanTransition(now.status, next.status))
  <2>1. Fail(start.kind, key, now, stored)
    BY <1>2 DEF Complete
  <2> QED
    BY <2>1, FailEnds
<1> QED
  BY <1>1, <1>2

(* A plan that is attached quotes the selection, and is of this context.     *)
LEMMA AttachEnds ==
  ASSUME SavedOK, context \in Nat, NEW start, NEW key, NEW now, NEW stored, NEW basis \in Nat,
         StartFits(start, now), start.kind = "build", StoredTyped(stored),
         SessionFits(now, plans, bundles, context),
         AttachPlan(start, key, start.selection, basis, now, stored)
  PROVE  /\ PlansKept(plans') /\ Len(plans') = Len(plans) + 1
         /\ SessionFits(session', plans', bundles, context)
         /\ Ended("build", key, now, stored)
<1> DEFINE next == [now EXCEPT !.status = "PLAN_REVIEW", !.plan = Len(plans) + 1,
                               !.report = 0, !.bundle = 0, !.error = "none"]
<1>1. PICK sound \in BOOLEAN : /\ SavePlan(start.selection, basis, context, sound)
                               /\ Complete(start, key, next, now, stored)
  BY Zenon DEF AttachPlan
<1>2. start.selection \in Selections
  BY DEF StartFits, StartRecords, Selections
<1>3. /\ PlansKept(plans') /\ Len(plans') = Len(plans) + 1
      /\ plans'[Len(plans) + 1].source = start.selection
      /\ plans'[Len(plans) + 1].attached = context
  BY <1>1, <1>2, PlanSaved
<1>4. Len(plans) \in Nat /\ Len(bundles) \in Nat /\ BundlesKept(bundles)
  BY DEF SavedOK, BundlesKept
<1>5. SessionFits(now, plans', bundles, context)
  <2>1. PICK ps : ps = plans'
    OBVIOUS
  <2> QED
    BY <1>3, <1>4, <2>1, SessionFollows
<1>6. Shaped(now) /\ SessionTyped(now)
  BY DEF SessionFits, SessionTyped
<1>7. /\ Shaped(next) /\ next.status = "PLAN_REVIEW" /\ next.plan = Len(plans) + 1
      /\ next.report = 0 /\ next.bundle = 0 /\ next.error = "none"
      /\ next.selection = now.selection /\ next.revision = now.revision
  <2>1. PICK x : x = next
    OBVIOUS
  <2>2. /\ Shaped(x) /\ x.status = "PLAN_REVIEW" /\ x.plan = Len(plans) + 1
        /\ x.report = 0 /\ x.bundle = 0 /\ x.error = "none"
        /\ x.selection = now.selection /\ x.revision = now.revision
    BY <1>6, <2>1 DEF Shaped
  <2> QED
    BY <2>1, <2>2
<1> HIDE DEF next
<1>8. ASSUME now.revision = start.revision PROVE SessionFits(next, plans', bundles, context)
  <2>1. start.selection = now.selection
    BY <1>8 DEF StartFits
  <2> QED
    BY <1>3, <1>4, <1>6, <1>7, <2>1 DEF SessionFits, SessionTyped, Statuses, Confirmed
<1>9. SessionFits(session', plans', bundles, context) /\ Ended(start.kind, key, now, stored)
  BY <1>1, <1>5, <1>7, <1>8, CompleteEnds DEF Kinds
<1> QED
  BY <1>3, <1>9

(* A bundle that ends an export is one of the plan of the session.           *)
LEMMA ExportEnds ==
  ASSUME SavedOK, NEW start, NEW key, NEW stored, RegisterBundle(start.plan),
         StartFits(start, session), start.kind = "export", StoredTyped(stored),
         SessionFits(session, plans, bundles, context),
         Complete(start, key, [session EXCEPT !.status = "EXPORTED", !.bundle = Len(bundles) + 1,
                                              !.report = start.plan, !.error = "none"],
                  session, stored)
  PROVE  /\ PlansKept(plans') /\ Len(plans') = Len(plans)
         /\ BundlesKept(bundles') /\ Len(bundles') = Len(bundles) + 1
         /\ SessionFits(session', plans', bundles', context)
         /\ Ended("export", key, session, stored)
<1> DEFINE next == [session EXCEPT !.status = "EXPORTED", !.bundle = Len(bundles) + 1,
                                   !.report = start.plan, !.error = "none"]
<1>1. Complete(start, key, next, session, stored)
  OBVIOUS
<1>2. start.plan \in Nat
  BY DEF StartFits, StartRecords
<1>3. /\ PlansKept(plans') /\ Len(plans') = Len(plans)
      /\ BundlesKept(bundles') /\ Len(bundles') = Len(bundles) + 1
      /\ bundles'[Len(bundles) + 1].plan = start.plan
  BY <1>2, BundleRegistered
<1>4. Len(plans) \in Nat /\ Len(bundles) \in Nat
  BY DEF SavedOK
<1>5. SessionFits(session, plans', bundles', context)
  <2>1. PICK ps, bs : ps = plans' /\ bs = bundles'
    OBVIOUS
  <2> QED
    BY <1>3, <2>1, SessionFollows
<1>6. Shaped(session) /\ SessionTyped(session) /\ session.status \in Statuses
  BY DEF SessionFits, SessionTyped
<1>7. /\ Shaped(next) /\ next.status = "EXPORTED" /\ next.plan = session.plan
      /\ next.report = start.plan /\ next.bundle = Len(bundles) + 1 /\ next.error = "none"
      /\ next.selection = session.selection /\ next.revision = session.revision
  <2>1. PICK x : x = next
    OBVIOUS
  <2>2. /\ Shaped(x) /\ x.status = "EXPORTED" /\ x.plan = session.plan
        /\ x.report = start.plan /\ x.bundle = Len(bundles) + 1 /\ x.error = "none"
        /\ x.selection = session.selection /\ x.revision = session.revision
    BY <1>6, <2>1 DEF Shaped
  <2> QED
    BY <2>1, <2>2
<1> HIDE DEF next
<1>8. ASSUME session.revision = start.revision, CanTransition(session.status, next.status)
      PROVE SessionFits(next, plans', bundles', context)
  <2>1. start.plan = session.plan /\ session.status = "EXPORTING"
    BY <1>6, <1>7, <1>8, TransitionFrom DEF StartFits
  <2> QED
    BY <1>3, <1>4, <1>5, <1>6, <1>7, <2>1 DEF SessionFits, SessionTyped, Statuses, Confirmed
<1>9. /\ SessionFits(session', plans', bundles', context)
      /\ Ended(start.kind, key, session, stored)
  BY <1>1, <1>5, <1>7, <1>8, CompleteEnds DEF Kinds
<1> QED
  BY <1>3, <1>9

-----------------------------------------------------------------------------
(* What a build or an export goes on from: it is new, or its key has stored  *)
(* how it started.                                                          *)
Fitting(kind, key, now, stored) ==
    /\ StoredTyped(stored) /\ StartFits(stored.start, now) /\ stored.start.kind = kind
    /\ SessionFits(now, plans, bundles, context)
    /\ \/ /\ now = session /\ stored = replays[key] /\ replays[key] # Unused
       \/ /\ now.revision = session.revision + 1 /\ replays[key] = Unused
          /\ now.status = Transient[kind] /\ now.revision = stored.start.revision
          /\ ~stored.rollback

LEMMA NewFits ==
  ASSUME SessionFits(session, plans, bundles, context), SavedOK, NEW kind \in Kinds,
         NEW key \in Keys, IsNew(kind, key)
  PROVE  Fitting(kind, key, StartedSession(kind), [Unused EXCEPT !.start = StartRecord(kind)])
<1> DEFINE now == StartedSession(kind)
           start == StartRecord(kind)
           stored == [Unused EXCEPT !.start = start]
<1>1. /\ Shaped(session) /\ SessionTyped(session) /\ session.status \in Statuses
      /\ session.revision \in Nat /\ session.selection \in Selections
      /\ session.plan \in 0..Len(plans) /\ Len(plans) \in Nat
  BY DEF SessionFits, SessionTyped, SavedOK
<1>2. /\ Shaped(now) /\ now.status = Transient[kind] /\ now.error = "none"
      /\ now.revision = session.revision + 1 /\ now.selection = session.selection
      /\ now.plan = session.plan /\ now.report = session.report /\ now.bundle = session.bundle
  <2>1. PICK x : x = now
    OBVIOUS
  <2>2. x = [session EXCEPT !.status = Transient[kind], !.error = "none",
                            !.revision = session.revision + 1]
    BY <2>1 DEF StartedSession, Revised
  <2>3. /\ Shaped(x) /\ x.status = Transient[kind] /\ x.error = "none"
        /\ x.revision = session.revision + 1 /\ x.selection = session.selection
        /\ x.plan = session.plan /\ x.report = session.report /\ x.bundle = session.bundle
    BY <1>1, <2>2 DEF Shaped
  <2> QED
    BY <2>1, <2>3
<1>3. /\ start.kind = kind /\ start.revision = session.revision + 1
      /\ start.plan = session.plan /\ start.selection = session.selection
      /\ start \in StartRecords
  BY <1>1 DEF StartRecord, StartRecords, Kinds, Selections
<1>4. StoredTyped(stored) /\ stored.start = start /\ stored.rollback = FALSE
  <2> HIDE DEF start
  <2>1. PICK r : r = stored
    OBVIOUS
  <2>2. StoredTyped(r) /\ r.start = start /\ r.rollback = FALSE
    BY <2>1 DEF StoredTyped, Unused
  <2> QED
    BY <2>1, <2>2
<1>5. replays[key] = Unused /\ CanTransition(session.status, Transient[kind])
  BY DEF IsNew
<1> HIDE DEF now, start, stored
<1>6. StartFits(stored.start, now)
  BY <1>1, <1>2, <1>3, <1>4 DEF StartFits
<1>7. SessionFits(now, plans, bundles, context)
  <2>1. CASE kind = "build"
    BY <1>1, <1>2, <2>1, TransientIs DEF SessionFits, SessionTyped, Statuses, Confirmed
  <2>2. CASE kind = "export"
    <3>1. now.status = "EXPORTING" /\ session.status = "READY_TO_EXPORT"
      BY <1>1, <1>2, <1>5, <2>2, TransientIs, TransitionFrom
    <3> QED
      BY <1>1, <1>2, <3>1 DEF SessionFits, SessionTyped, Statuses, Confirmed
  <2> QED
    BY <2>1, <2>2 DEF Kinds
<1>8. Fitting(kind, key, now, stored)
  BY <1>2, <1>3, <1>4, <1>5, <1>6, <1>7 DEF Fitting
<1> QED
  BY <1>8 DEF now, start, stored

LEMMA AgainFits ==
  ASSUME Inv, NEW kind \in Kinds, NEW key \in Keys, IsReplay(kind, key)
  PROVE  Fitting(kind, key, session, replays[key])
<1>1. replays[key].start # NoReplay /\ replays[key].start.kind = kind
  BY DEF IsReplay
<1>2. replays[key] # Unused
  BY <1>1, UnusedIs
<1> QED
  BY <1>1, <1>2 DEF Fitting, Inv, ReplaysFit

LEMMA HandlerFits ==
  ASSUME Inv, NEW h \in Handlers, handler[h] # Idle
  PROVE  /\ handler[h].kind \in Kinds /\ handler[h].key \in Keys
         /\ handler[h].start = replays[handler[h].key].start
         /\ Fitting(handler[h].kind, handler[h].key, session, replays[handler[h].key])
         /\ handler[h].kind = "build" =>
              handler[h].quoted = handler[h].start.selection /\ handler[h].context \in Nat
<1>1. h \in Waiting
  BY DEF Waiting
<1>2. /\ handler[h].kind \in Kinds /\ handler[h].key \in Keys
      /\ handler[h].start = replays[handler[h].key].start
      /\ replays[handler[h].key] # Unused /\ handler[h].start.kind = handler[h].kind
      /\ handler[h].kind = "build" =>
              handler[h].quoted = handler[h].start.selection /\ handler[h].context \in Nat
  BY <1>1 DEF Inv, HandlersFit
<1> QED
  BY <1>2 DEF Fitting, Inv, ReplaysFit

-----------------------------------------------------------------------------
(* How many handlers of each kind wait.                                      *)
AllOf(f, kind) == {h \in Handlers : f[h] # Idle /\ f[h].kind = kind}
CountIn(f, kind) == Cardinality(AllOf(f, kind))

LEMMA CountIs ==
  \A kind : Count(kind) = CountIn(handler, kind) /\ Count(kind)' = CountIn(handler', kind)
<1> TAKE kind
<1>1. {h \in Waiting : handler[h].kind = kind} = AllOf(handler, kind)
  BY DEF Waiting, AllOf
<1>2. {h \in Waiting : handler[h].kind = kind}' = AllOf(handler', kind)
  BY DEF Waiting, AllOf
<1> QED
  BY <1>1, <1>2 DEF Count, CountIn

LEMMA AllOfFinite ==
  ASSUME NEW f, NEW kind
  PROVE  IsFiniteSet(AllOf(f, kind)) /\ CountIn(f, kind) \in Nat
<1>1. AllOf(f, kind) \subseteq Handlers
  BY DEF AllOf
<1> QED
  BY <1>1, HandlerAssumption, FS_Subset, FS_CardinalityType DEF CountIn

LEMMA CountRests ==
  ASSUME NEW f, f = [i \in Handlers |-> f[i]], NEW h \in Handlers, f[h] # Idle,
         NEW g, g = [f EXCEPT ![h] = Idle], NEW kind
  PROVE  /\ CountIn(g, kind) <= CountIn(f, kind)
         /\ f[h].kind = kind => CountIn(g, kind) = CountIn(f, kind) - 1
<1>1. AllOf(g, kind) = AllOf(f, kind) \ {h}
  BY DEF AllOf
<1>2. f[h].kind = kind <=> h \in AllOf(f, kind)
  BY DEF AllOf
<1>3. IsFiniteSet(AllOf(f, kind)) /\ CountIn(f, kind) \in Nat
  BY AllOfFinite
<1>4. CASE h \in AllOf(f, kind)
  <2>1. Cardinality(AllOf(f, kind) \ {h}) = Cardinality(AllOf(f, kind)) - 1
    BY <1>3, <1>4, FS_RemoveElement
  <2>2. CountIn(g, kind) = CountIn(f, kind) - 1
    BY <1>1, <2>1 DEF CountIn
  <2> QED
    BY <1>3, <2>2
<1>5. CASE h \notin AllOf(f, kind)
  <2>1. AllOf(g, kind) = AllOf(f, kind)
    BY <1>1, <1>5
  <2> QED
    BY <1>2, <1>3, <1>5, <2>1 DEF CountIn
<1> QED
  BY <1>4, <1>5

LEMMA CountWaits ==
  ASSUME NEW f, f = [i \in Handlers |-> f[i]], NEW h \in Handlers, f[h] = Idle,
         NEW w, NEW g, g = [f EXCEPT ![h] = w], NEW kind
  PROVE  /\ CountIn(g, kind) <= CountIn(f, kind) + 1
         /\ w.kind # kind => CountIn(g, kind) = CountIn(f, kind)
<1>1. \/ AllOf(g, kind) = AllOf(f, kind)
      \/ w.kind = kind /\ AllOf(g, kind) = AllOf(f, kind) \cup {h}
  BY DEF AllOf
<1>2. h \notin AllOf(f, kind)
  BY DEF AllOf
<1>3. IsFiniteSet(AllOf(f, kind)) /\ CountIn(f, kind) \in Nat
  BY AllOfFinite
<1>4. Cardinality(AllOf(f, kind) \cup {h}) = Cardinality(AllOf(f, kind)) + 1
  BY <1>2, <1>3, FS_AddElement
<1>5. \/ CountIn(g, kind) = CountIn(f, kind)
      \/ w.kind = kind /\ CountIn(g, kind) = CountIn(f, kind) + 1
  BY <1>1, <1>4 DEF CountIn
<1> QED
  BY <1>3, <1>5

LEMMA CountEnds ==
  ASSUME NEW f, NEW h \in Handlers, f[h] # Idle
  PROVE  /\ CountIn(f, f[h].kind) >= 1
         /\ \A kind : CountIn([i \in Handlers |-> Idle], kind) = 0
<1>1. h \in AllOf(f, f[h].kind) /\ IsFiniteSet(AllOf(f, f[h].kind))
  BY AllOfFinite DEF AllOf
<1>2. CountIn(f, f[h].kind) \in Nat /\ CountIn(f, f[h].kind) # 0
  BY <1>1, AllOfFinite, FS_EmptySet DEF CountIn
<1>3. ASSUME NEW kind PROVE CountIn([i \in Handlers |-> Idle], kind) = 0
  <2>1. AllOf([i \in Handlers |-> Idle], kind) = {}
    BY DEF AllOf
  <2> QED
    BY <2>1, FS_EmptySet DEF CountIn
<1> QED
  BY <1>2, <1>3

-----------------------------------------------------------------------------
(* What the keys store and what the handlers keep, after any step of them.   *)
Left(key, now, stored) ==
    /\ \E r : /\ StoredTyped(r) /\ r.start = stored.start
              /\ replays' = [replays EXCEPT ![key] = r]
    /\ session'.revision \in Nat
    /\ \/ session' = now
       \/ session'.revision > now.revision /\ session'.status \notin {"BUILDING", "EXPORTING"}

Taken(kind, key, stored, w) ==
    /\ w.kind = kind /\ w.key = key /\ w.start = stored.start
    /\ kind = "build" => w.quoted = w.start.selection /\ w.context \in Nat

HandlersMove(kind, key, stored) ==
    /\ handler' = [h \in Handlers |-> handler'[h]]
    /\ \A h \in Handlers : \/ handler'[h] = handler[h] \/ handler'[h] = Idle
                           \/ Taken(kind, key, stored, handler'[h])

LEMMA ReplaysStay ==
  ASSUME Inv, NEW kind, NEW key \in Keys, NEW now, NEW stored,
         Fitting(kind, key, now, stored), Left(key, now, stored)
  PROVE  /\ ReplaysFit' /\ replays'[key] # Unused /\ replays'[key].start = stored.start
         /\ \A k \in Keys : k # key => replays'[k] = replays[k]
         /\ \A k \in Keys : replays[k] # Unused =>
                replays'[k] # Unused /\ replays'[k].start = replays[k].start
<1>1. replays = [k \in Keys |-> replays[k]]
      /\ \A k \in Keys : replays[k] = Unused \/ ( /\ StoredTyped(replays[k])
                                                 /\ StartFits(replays[k].start, session))
  BY DEF Inv, ReplaysFit
<1>2. PICK r : /\ StoredTyped(r) /\ r.start = stored.start
               /\ replays' = [replays EXCEPT ![key] = r]
  BY DEF Left
<1>3. /\ replays' = [k \in Keys |-> replays'[k]] /\ replays'[key] = r
      /\ \A k \in Keys : k # key => replays'[k] = replays[k]
  BY <1>1, <1>2
<1>4. /\ StartFits(stored.start, now) /\ now.revision \in Nat
      /\ session.revision \in Nat
      /\ now = session \/ now.revision = session.revision + 1
  BY DEF Fitting, Inv, SessionFits, SessionTyped
<1>5. /\ session'.revision \in Nat
      /\ session' = now \/ session'.revision > now.revision
      /\ session' = session \/ session'.revision > session.revision
  BY <1>4 DEF Left
<1>6. \A start : StartFits(start, session) => StartFits(start, session')
  BY <1>4, <1>5, StartFollows
<1>7. StartFits(stored.start, session')
  BY <1>4, <1>5, StartFollows
<1>8. replays'[key] # Unused
  BY <1>2, <1>3, <1>4, UnusedIs, SentinelAssumption DEF StartFits
<1>9. ReplaysFit'
  <2>1. ASSUME NEW k \in Keys
        PROVE  \/ replays'[k] = Unused
               \/ StoredTyped(replays'[k]) /\ StartFits(replays'[k].start, session')
    <3>1. CASE k = key
      BY <1>2, <1>3, <1>7, <3>1
    <3>2. CASE k # key
      BY <1>1, <1>3, <1>6, <3>2
    <3> QED
      BY <3>1, <3>2
  <2> QED
    BY <1>3, <2>1 DEF ReplaysFit, StoredTyped, StartFits, Unused
<1>10. ASSUME NEW k \in Keys, replays[k] # Unused
       PROVE  replays'[k] # Unused /\ replays'[k].start = replays[k].start
  <2>1. CASE k = key
    BY <1>2, <1>3, <1>8, <1>10, <2>1 DEF Fitting
  <2>2. CASE k # key
    BY <1>3, <1>10, <2>2
  <2> QED
    BY <2>1, <2>2
<1> QED
  BY <1>2, <1>3, <1>8, <1>9, <1>10

LEMMA HandlersStay ==
  ASSUME Inv, NEW kind \in Kinds, NEW key \in Keys, NEW now, NEW stored,
         Fitting(kind, key, now, stored), Left(key, now, stored),
         HandlersMove(kind, key, stored)
  PROVE  HandlersFit'
<1>1. /\ replays'[key] # Unused /\ replays'[key].start = stored.start
      /\ \A k \in Keys : replays[k] # Unused =>
              replays'[k] # Unused /\ replays'[k].start = replays[k].start
  BY ReplaysStay
<1>2. stored.start.kind = kind
  BY DEF Fitting
<1> DEFINE Good(w) ==
         /\ w.kind \in Kinds /\ w.key \in Keys /\ replays'[w.key] # Unused
         /\ w.start = replays'[w.key].start /\ w.start.kind = w.kind
         /\ w.kind = "build" => w.quoted = w.start.selection /\ w.context \in Nat
<1>3. ASSUME NEW h \in Handlers, handler'[h] # Idle PROVE Good(handler'[h])
  <2>1. CASE handler'[h] = handler[h]
    <3>1. h \in Waiting
      BY <1>3, <2>1 DEF Waiting
    <3> QED
      BY <1>1, <2>1, <3>1 DEF Inv, HandlersFit
  <2>2. CASE Taken(kind, key, stored, handler'[h])
    BY <1>1, <1>2, <2>2 DEF Taken
  <2> QED
    BY <1>3, <2>1, <2>2 DEF HandlersMove
<1>4. Waiting' = {h \in Handlers : handler'[h] # Idle}
  BY DEF Waiting
<1>5. handler' = [h \in Handlers |-> handler'[h]]
  BY DEF HandlersMove
<1> QED
  BY <1>3, <1>4, <1>5 DEF HandlersFit

LEMMA EndedLeft ==
  ASSUME NEW kind, NEW key, NEW now, NEW stored, Fitting(kind, key, now, stored),
         Ended(kind, key, now, stored), session'.revision \in Nat
  PROVE  Left(key, now, stored)
<1>1. StoredTyped(stored) /\ now.revision \in Nat
  BY DEF Fitting, SessionFits, SessionTyped
<1>2. CASE session' = now /\ replays' = [replays EXCEPT ![key] = stored]
  BY <1>1, <1>2 DEF Left
<1>3. CASE /\ session'.revision = now.revision + 1
           /\ session'.status \notin {"BUILDING", "EXPORTING"}
           /\ \E c, b \in BOOLEAN : replays' = [replays EXCEPT ![key] = Changed(stored, c, b)]
  <2>1. PICK c \in BOOLEAN, b \in BOOLEAN :
          replays' = [replays EXCEPT ![key] = Changed(stored, c, b)]
    BY <1>3
  <2>2. PICK r : r = Changed(stored, c, b)
    OBVIOUS
  <2>3. StoredTyped(r) /\ r.start = stored.start
    BY <1>1, <2>2 DEF Changed, StoredTyped
  <2> QED
    <3>1. replays' = [replays EXCEPT ![key] = r]
      BY <2>1, <2>2
    <3>2. session'.revision > now.revision /\ session'.status \notin {"BUILDING", "EXPORTING"}
      BY <1>1, <1>3
    <3> QED
      BY <2>3, <3>1, <3>2 DEF Left
<1> QED
  BY <1>2, <1>3 DEF Ended

(* Who owns BUILDING and EXPORTING: a handler that ends leaves them, or it   *)
(* was not theirs.                                                          *)
LEMMA OwnedWhenEnded ==
  ASSUME Inv, NEW kind \in Kinds, NEW key \in Keys, NEW now, NEW stored,
         Fitting(kind, key, now, stored), Ended(kind, key, now, stored), faults' = faults,
         \A h \in Handlers : \/ handler'[h] = handler[h]
                             \/ handler[h].kind = kind /\ handler[h].key = key /\ now = session
  PROVE  TransientIsOwned'
<1> SUFFICES ASSUME NEW k \in Kinds, session'.status = Transient[k], faults' = 0
             PROVE  \E h \in Waiting' : /\ handler'[h].kind = k
                                      /\ handler'[h].start.revision = session'.revision
                                      /\ ~replays'[handler'[h].key].rollback
  BY DEF TransientIsOwned
<1>1. session'.status \in {"BUILDING", "EXPORTING"}
  BY TransientIs DEF Kinds
<1>2. /\ session' = now /\ replays' = [replays EXCEPT ![key] = stored]
      /\ now.status = Transient[kind] => stored.rollback
  BY <1>1 DEF Ended
<1>3. now = session /\ stored = replays[key]
  BY <1>2 DEF Fitting
<1>4. PICK h \in Waiting : /\ handler[h].kind = k
                           /\ handler[h].start.revision = session.revision
                           /\ ~replays[handler[h].key].rollback
  BY <1>2, <1>3 DEF Inv, TransientIsOwned
<1>5. h \in Handlers /\ handler[h] # Idle
  BY DEF Waiting
<1>6. handler'[h] = handler[h]
  <2>1. ~(handler[h].kind = kind /\ handler[h].key = key)
    BY <1>2, <1>3, <1>4
  <2> QED
    BY <1>5, <2>1
<1>7. replays' = replays
  BY <1>2, <1>3 DEF Inv, ReplaysFit
<1>8. h \in Waiting'
  BY <1>5, <1>6 DEF Waiting
<1> QED
  BY <1>2, <1>3, <1>4, <1>6, <1>7, <1>8

LEMMA OwnedWhenWaiting ==
  ASSUME Inv, NEW kind \in Kinds, NEW key \in Keys, NEW now, NEW stored, NEW h \in Handlers,
         Fitting(kind, key, now, stored), Store(key, now, stored), handler[h] = Idle, NEW w,
         Taken(kind, key, stored, w), handler' = [handler EXCEPT ![h] = w], faults' = faults
  PROVE  TransientIsOwned'
<1> SUFFICES ASSUME NEW k \in Kinds, session'.status = Transient[k], faults' = 0
             PROVE  \E i \in Waiting' : /\ handler'[i].kind = k
                                      /\ handler'[i].start.revision = session'.revision
                                      /\ ~replays'[handler'[i].key].rollback
  BY DEF TransientIsOwned
<1>1. /\ handler = [i \in Handlers |-> handler[i]] /\ replays = [i \in Keys |-> replays[i]]
  BY DEF Inv, HandlersFit, ReplaysFit
<1>2. session' = now /\ replays' = [replays EXCEPT ![key] = stored]
  BY DEF Store
<1>3. handler'[h] = w /\ \A i \in Handlers : i # h => handler'[i] = handler[i]
  BY <1>1
<1>4. CASE now = session /\ stored = replays[key]
  <2>1. PICK i \in Waiting : /\ handler[i].kind = k
                             /\ handler[i].start.revision = session.revision
                             /\ ~replays[handler[i].key].rollback
    BY <1>2, <1>4 DEF Inv, TransientIsOwned
  <2>2. i \in Handlers /\ handler[i] # Idle
    BY DEF Waiting
  <2>3. handler'[i] = handler[i]
    BY <1>3, <2>2
  <2>4. i \in Waiting'
    BY <2>2, <2>3 DEF Waiting
  <2>5. replays' = replays
    BY <1>1, <1>2, <1>4
  <2> QED
    BY <1>2, <1>4, <2>1, <2>3, <2>4, <2>5
<1>5. CASE /\ now.status = Transient[kind] /\ now.revision = stored.start.revision
           /\ ~stored.rollback
  <2>1. k = kind
    BY <1>2, <1>5, TransientIs DEF Kinds
  <2>2. w # Idle
    BY DEF Taken, Idle, Kinds
  <2>3. h \in Waiting'
    BY <1>3, <2>2 DEF Waiting
  <2>4. replays'[key] = stored
    BY <1>1, <1>2
  <2> QED
    BY <1>2, <1>3, <1>5, <2>1, <2>3, <2>4 DEF Taken
<1> QED
  BY <1>4, <1>5 DEF Fitting

-----------------------------------------------------------------------------
(* A step of a build or an export, and any other.                            *)
Moves ==
    \/ \E kind \in Kinds, key \in Keys : \E now, stored :
            Fitting(kind, key, now, stored) /\ Left(key, now, stored)
    \/ /\ replays' = replays
       /\ session' = session \/ session'.status \notin {"BUILDING", "EXPORTING"}

LEMMA WorkInv ==
  ASSUME Inv, NEW kind \in Kinds, NEW key \in Keys, NEW now, NEW stored,
         Fitting(kind, key, now, stored), Left(key, now, stored),
         HandlersMove(kind, key, stored), Scalars', PlansKept(plans'), BundlesKept(bundles'),
         SessionFits(session', plans', bundles', context'), TransientIsOwned', Capacity'
  PROVE  Inv' /\ Moves
<1>1. ReplaysFit' /\ HandlersFit'
  BY ReplaysStay, HandlersStay
<1>2. SavedOK'
  BY DEF SavedOK, PlansKept, BundlesKept
<1> QED
  BY <1>1, <1>2 DEF Inv, Moves

(* What an action of the builds and exports leaves.                          *)
LEMMA Facts ==
  ASSUME Inv
  PROVE  /\ SavedOK /\ SessionFits(session, plans, bundles, context)
         /\ Len(plans) \in Nat /\ Len(bundles) \in Nat /\ context \in Nat
         /\ plans \in Seq(PlanRecords) /\ bundles \in Seq(BundleRecords)
         /\ handler = [h \in Handlers |-> handler[h]]
         /\ replays = [k \in Keys |-> replays[k]]
         /\ faults \in 0..MaxFaults /\ restarts \in 0..MaxRestarts
         /\ CountIn(handler, "build") \in Nat /\ CountIn(handler, "export") \in Nat
         /\ Len(plans) + CountIn(handler, "build") <= MaxSaved
         /\ Len(bundles) + CountIn(handler, "export") <= MaxSaved
BY CountIs, AllOfFinite DEF Inv, SavedOK, Scalars, HandlersFit, ReplaysFit, Capacity

LEMMA RoomIs ==
  ASSUME NEW kind, NEW saved, Room(kind, saved)
  PROVE  Len(saved) + CountIn(handler, kind) < MaxSaved
BY CountIs DEF Room, Count

LEMMA CapacityIs ==
  ASSUME Len(plans') + CountIn(handler', "build") <= MaxSaved,
         Len(bundles') + CountIn(handler', "export") <= MaxSaved
  PROVE  Capacity'
BY CountIs DEF Capacity

LEMMA ScalarsStay ==
  ASSUME Inv, context' = context, source' = source, restarts' = restarts,
         \/ faults' = faults
         \/ faults < MaxFaults /\ faults' = faults + 1
  PROVE  Scalars'
BY Bounds DEF Inv, Scalars

(* A handler that rests, or that was not needed.                             *)
LEMMA RestMoves ==
  ASSUME Inv, NEW h \in Handlers, handler[h] # Idle, Rest(h), NEW kind, NEW key, NEW stored
  PROVE  /\ HandlersMove(kind, key, stored)
         /\ CountIn(handler', "build") <= CountIn(handler, "build")
         /\ CountIn(handler', "export") <= CountIn(handler, "export")
         /\ CountIn(handler', handler[h].kind) = CountIn(handler, handler[h].kind) - 1
         /\ \A i \in Handlers : i # h => handler'[i] = handler[i]
<1>1. handler = [i \in Handlers |-> handler[i]] /\ handler' = [handler EXCEPT ![h] = Idle]
  BY Facts DEF Rest
<1>2. PICK g : g = handler'
  OBVIOUS
<1>3. /\ \A k : /\ CountIn(g, k) <= CountIn(handler, k)
                /\ handler[h].kind = k => CountIn(g, k) = CountIn(handler, k) - 1
  BY <1>1, <1>2, CountRests
<1>4. HandlersMove(kind, key, stored)
  BY <1>1 DEF HandlersMove
<1> QED
  BY <1>1, <1>2, <1>3, <1>4

LEMMA BuildSteps ==
  ASSUME Inv, NEW h \in Handlers, handler[h] = Idle, NEW key \in Keys, NEW now, NEW stored,
         Fitting("build", key, now, stored), BuildFrom(h, stored.start, key, now, stored)
  PROVE  Inv' /\ Moves
<1> DEFINE start == stored.start
<1>1. /\ StoredTyped(stored) /\ StartFits(start, now) /\ start.kind = "build"
      /\ SessionFits(now, plans, bundles, context)
  BY DEF Fitting
<1> HIDE DEF start
<1>2. /\ Len(plans) + CountIn(handler, "build") < MaxSaved
      /\ UNCHANGED <<context, source, bundles, restarts>>
  BY RoomIs DEF BuildFrom
<1>3. "build" \in Kinds
  BY DEF Kinds
<1>4. BundlesKept(bundles') /\ Len(bundles') = Len(bundles)
  BY <1>2, Facts, SavedSame
<1>5. ASSUME handler' = handler PROVE HandlersMove("build", key, stored)
  BY <1>5, Facts DEF HandlersMove
<1>6. CASE BuildLocally(start, key, now, stored)
  <2>1. /\ AttachPlan(start, key, start.selection, context, now, stored)
        /\ handler' = handler /\ faults' = faults
    BY <1>6 DEF BuildLocally
  <2>2. /\ PlansKept(plans') /\ Len(plans') = Len(plans) + 1
        /\ SessionFits(session', plans', bundles, context)
        /\ Ended("build", key, now, stored)
    BY <1>1, <2>1, Facts, AttachEnds
  <2>4. Left(key, now, stored)
    BY <2>2, EndedLeft DEF SessionFits, SessionTyped
  <2>5. TransientIsOwned'
    <3>1. \A i \in Handlers : handler'[i] = handler[i]
      BY <2>1
    <3> QED
      BY <1>3, <2>1, <2>2, <3>1, OwnedWhenEnded
  <2>6. Capacity'
    BY <1>2, <1>4, <2>1, <2>2, Facts, Bounds, CapacityIs
  <2>7. Scalars'
    BY <1>2, <2>1, ScalarsStay
  <2> QED
    BY <1>2, <1>3, <1>4, <1>5, <2>1, <2>2, <2>4, <2>5, <2>6, <2>7, WorkInv
<1>7. CASE BuildRefused(start, key, now, stored)
  <2>1. Fail("build", key, now, stored) /\ plans' = plans /\ handler' = handler
        /\ faults' = faults
    BY <1>7 DEF BuildRefused
  <2>2. SessionFits(session', plans, bundles, context) /\ Ended("build", key, now, stored)
    BY <1>1, <1>3, <2>1, FailEnds
  <2>3. Left(key, now, stored)
    BY <2>2, EndedLeft DEF SessionFits, SessionTyped
  <2>4. TransientIsOwned'
    <3>1. \A i \in Handlers : handler'[i] = handler[i]
      BY <2>1
    <3> QED
      BY <1>3, <2>1, <2>2, <3>1, OwnedWhenEnded
  <2>5. Capacity' /\ PlansKept(plans')
    BY <1>2, <1>4, <2>1, Facts, CapacityIs, SavedSame
  <2>6. Scalars'
    BY <1>2, <2>1, ScalarsStay
  <2> QED
    BY <1>2, <1>3, <1>4, <1>5, <2>1, <2>2, <2>3, <2>4, <2>5, <2>6, WorkInv
<1>8. CASE BuildUnwritable(key, now, stored)
  <2>1. /\ session' = now /\ replays' = [replays EXCEPT ![key] = stored]
        /\ faults < MaxFaults /\ faults' = faults + 1 /\ plans' = plans /\ handler' = handler
    BY <1>8 DEF BuildUnwritable, Store
  <2>2. Left(key, now, stored)
    BY <1>1, <2>1 DEF Left, SessionFits, SessionTyped
  <2>3. TransientIsOwned'
    BY <2>1, Facts, Bounds DEF TransientIsOwned
  <2>4. Capacity' /\ PlansKept(plans')
    BY <1>2, <1>4, <2>1, Facts, CapacityIs, SavedSame
  <2>5. Scalars'
    BY <1>2, <2>1, ScalarsStay
  <2> QED
    BY <1>1, <1>2, <1>3, <1>4, <1>5, <2>1, <2>2, <2>3, <2>4, <2>5, WorkInv
<1>9. CASE AskModel(h, start, key, now, stored)
  <2> DEFINE w == [kind |-> "build", key |-> key, start |-> start,
                   quoted |-> start.selection, context |-> context]
  <2>1. /\ handler' = [handler EXCEPT ![h] = w] /\ Store(key, now, stored)
        /\ plans' = plans /\ faults' = faults
    BY <1>9 DEF AskModel
  <2>2. Taken("build", key, stored, w) /\ w.kind = "build"
    BY Facts DEF Taken, start
  <2> HIDE DEF w
  <2>3. session' = now /\ replays' = [replays EXCEPT ![key] = stored]
    BY <2>1 DEF Store
  <2>4. Left(key, now, stored)
    BY <1>1, <2>3 DEF Left, SessionFits, SessionTyped
  <2>5. TransientIsOwned'
    BY <1>3, <2>1, <2>2, OwnedWhenWaiting
  <2>6. HandlersMove("build", key, stored)
    BY <2>1, <2>2, Facts DEF HandlersMove
  <2>7. /\ CountIn(handler', "build") <= CountIn(handler, "build") + 1
        /\ CountIn(handler', "export") = CountIn(handler, "export")
    <3>1. PICK g : g = handler'
      OBVIOUS
    <3>2. g = [handler EXCEPT ![h] = w] /\ handler = [i \in Handlers |-> handler[i]]
      BY <2>1, <3>1, Facts
    <3>3. /\ CountIn(g, "build") <= CountIn(handler, "build") + 1
          /\ CountIn(g, "export") = CountIn(handler, "export")
      BY <2>2, <3>2, CountWaits
    <3> QED
      BY <3>1, <3>3
  <2>8. Capacity' /\ PlansKept(plans')
    <3>1. CountIn(handler', "build") \in Nat
      <4>1. PICK g : g = handler'
        OBVIOUS
      <4> QED
        BY <4>1, AllOfFinite
    <3> QED
      BY <1>2, <1>4, <2>1, <2>7, <3>1, Facts, Bounds, CapacityIs, SavedSame
  <2>9. Scalars'
    BY <1>2, <2>1, ScalarsStay
  <2> QED
    BY <1>1, <1>2, <1>3, <1>4, <2>1, <2>3, <2>4, <2>5, <2>6, <2>8, <2>9, WorkInv
<1> QED
  BY <1>6, <1>7, <1>8, <1>9 DEF BuildFrom, start

LEMMA ExportSteps ==
  ASSUME Inv, NEW h \in Handlers, handler[h] = Idle, NEW key \in Keys, NEW now, NEW stored,
         Fitting("export", key, now, stored), ExportFrom(h, stored.start, key, now, stored)
  PROVE  Inv' /\ Moves
<1> DEFINE w == [kind |-> "export", key |-> key, start |-> stored.start,
                 quoted |-> plans[stored.start.plan].source,
                 readable |-> plans[stored.start.plan].valid]
<1>1. /\ Len(bundles) + CountIn(handler, "export") < MaxSaved /\ Store(key, now, stored)
      /\ handler' = [handler EXCEPT ![h] = w]
      /\ UNCHANGED <<context, source, plans, bundles, restarts, faults>>
  BY RoomIs DEF ExportFrom
<1>2. Taken("export", key, stored, w) /\ w.kind = "export"
  BY DEF Taken
<1> HIDE DEF w
<1>3. SessionFits(now, plans, bundles, context) /\ "export" \in Kinds
  BY DEF Fitting, Kinds
<1>4. session' = now /\ replays' = [replays EXCEPT ![key] = stored]
  BY <1>1 DEF Store
<1>5. Left(key, now, stored)
  <2>1. StoredTyped(stored) /\ now.revision \in Nat
    BY <1>3 DEF Fitting, SessionFits, SessionTyped
  <2> QED
    BY <1>4, <2>1 DEF Left
<1>6. TransientIsOwned'
  BY <1>1, <1>2, <1>3, OwnedWhenWaiting
<1>7. HandlersMove("export", key, stored)
  BY <1>1, <1>2, Facts DEF HandlersMove
<1>8. /\ CountIn(handler', "export") <= CountIn(handler, "export") + 1
      /\ CountIn(handler', "build") = CountIn(handler, "build")
      /\ CountIn(handler', "export") \in Nat
  <2>1. PICK g : g = handler'
    OBVIOUS
  <2>2. g = [handler EXCEPT ![h] = w] /\ handler = [i \in Handlers |-> handler[i]]
    BY <1>1, <2>1, Facts
  <2>3. /\ CountIn(g, "export") <= CountIn(handler, "export") + 1
        /\ CountIn(g, "build") = CountIn(handler, "build") /\ CountIn(g, "export") \in Nat
    BY <1>2, <2>2, CountWaits, AllOfFinite
  <2> QED
    BY <2>1, <2>3
<1>9. PlansKept(plans') /\ BundlesKept(bundles')
  BY <1>1, Facts, SavedSame
<1>10. Capacity'
  BY <1>1, <1>8, Facts, Bounds, CapacityIs
<1>11. Scalars'
  BY <1>1, ScalarsStay
<1>12. SessionFits(session', plans', bundles', context')
  BY <1>1, <1>3, <1>4
<1> QED
  BY <1>3, <1>5, <1>6, <1>7, <1>9, <1>10, <1>11, <1>12, WorkInv

LEMMA RestCapacity ==
  ASSUME Inv, NEW h \in Handlers, handler[h] # Idle, Rest(h),
         PlansKept(plans'), BundlesKept(bundles'),
         \/ handler[h].kind = "build" /\ Len(plans') <= Len(plans) + 1
                                      /\ Len(bundles') = Len(bundles)
         \/ handler[h].kind = "export" /\ Len(bundles') <= Len(bundles) + 1
                                       /\ Len(plans') = Len(plans)
  PROVE  Capacity'
<1>0. /\ CountIn(handler', "build") <= CountIn(handler, "build")
      /\ CountIn(handler', "export") <= CountIn(handler, "export")
      /\ Len(plans) \in Nat /\ Len(bundles) \in Nat /\ MaxSaved \in Nat
      /\ CountIn(handler, "build") \in Nat /\ CountIn(handler, "export") \in Nat
      /\ Len(plans) + CountIn(handler, "build") <= MaxSaved
      /\ Len(bundles) + CountIn(handler, "export") <= MaxSaved
  BY RestMoves, Facts, Bounds
<1>1. /\ Len(plans') \in Nat /\ Len(bundles') \in Nat
      /\ CountIn(handler', "build") \in Nat /\ CountIn(handler', "export") \in Nat
  <2>1. PICK g : g = handler'
    OBVIOUS
  <2>2. CountIn(handler', "build") \in Nat /\ CountIn(handler', "export") \in Nat
    BY <2>1, AllOfFinite
  <2> QED
    BY <2>2 DEF PlansKept, BundlesKept
<1>2. /\ Len(plans') + CountIn(handler', "build") <= MaxSaved
      /\ Len(bundles') + CountIn(handler', "export") <= MaxSaved
  <2>1. CASE handler[h].kind = "build"
    <3>1. CountIn(handler', "build") = CountIn(handler, "build") - 1
      BY RestMoves, <2>1
    <3>2. Len(plans') <= Len(plans) + 1 /\ Len(bundles') = Len(bundles)
      BY <2>1
    <3> QED
      BY <1>0, <1>1, <3>1, <3>2
  <2>2. CASE handler[h].kind = "export"
    <3>1. CountIn(handler', "export") = CountIn(handler, "export") - 1
      BY RestMoves, <2>2
    <3>2. Len(bundles') <= Len(bundles) + 1 /\ Len(plans') = Len(plans)
      BY <2>2
    <3> QED
      BY <1>0, <1>1, <3>1, <3>2
  <2> QED
    BY <2>1, <2>2
<1> QED
  BY <1>2, CapacityIs

(* A handler that ends, from the session as it is now.                       *)
LEMMA HandlerEnds ==
  ASSUME Inv, NEW h \in Handlers, handler[h] # Idle, Rest(h),
         UNCHANGED <<context, source, restarts, faults>>,
         PlansKept(plans'), BundlesKept(bundles'),
         SessionFits(session', plans', bundles', context),
         Ended(handler[h].kind, handler[h].key, session, replays[handler[h].key]),
         \/ handler[h].kind = "build" /\ Len(plans') <= Len(plans) + 1
                                     /\ Len(bundles') = Len(bundles)
         \/ handler[h].kind = "export" /\ Len(bundles') <= Len(bundles) + 1
                                      /\ Len(plans') = Len(plans)
  PROVE  Inv' /\ Moves
<1> DEFINE kind == handler[h].kind
           key == handler[h].key
           stored == replays[key]
<1>1. kind \in Kinds /\ key \in Keys /\ Fitting(kind, key, session, stored)
  BY HandlerFits
<1>2. /\ HandlersMove(kind, key, stored)
      /\ CountIn(handler', "build") <= CountIn(handler, "build")
      /\ CountIn(handler', "export") <= CountIn(handler, "export")
      /\ CountIn(handler', kind) = CountIn(handler, kind) - 1
      /\ \A i \in Handlers : i # h => handler'[i] = handler[i]
  BY RestMoves
<1>3. Left(key, session, stored)
  <2>1. session'.revision \in Nat
    BY DEF SessionFits, SessionTyped
  <2> QED
    BY <1>1, <2>1, EndedLeft
<1>4. TransientIsOwned'
  <2>1. \A i \in Handlers : \/ handler'[i] = handler[i]
                            \/ handler[i].kind = kind /\ handler[i].key = key
    BY <1>2
  <2> QED
    BY <1>1, <2>1, OwnedWhenEnded
<1>5. Capacity'
  BY RestCapacity
<1>6. Scalars'
  BY ScalarsStay
<1>7. SessionFits(session', plans', bundles', context')
  OBVIOUS
<1> HIDE DEF kind, key, stored
<1> QED
  BY <1>1, <1>2, <1>3, <1>4, <1>5, <1>6, <1>7, WorkInv

LEMMA ModelAnswersInv ==
  ASSUME Inv, NEW h \in Handlers, ModelAnswers(h)
  PROVE  Inv' /\ Moves
<1> DEFINE w == handler[h]
<1>1. /\ w # Idle /\ w.kind = "build" /\ Rest(h)
      /\ AttachPlan(w.start, w.key, w.quoted, w.context, session, replays[w.key])
      /\ UNCHANGED <<context, source, bundles, restarts, faults>>
  BY DEF ModelAnswers
<1>2. /\ w.start = replays[w.key].start /\ w.quoted = w.start.selection /\ w.context \in Nat
      /\ Fitting("build", w.key, session, replays[w.key])
  BY <1>1, HandlerFits
<1>3. /\ StartFits(w.start, session) /\ w.start.kind = "build"
      /\ StoredTyped(replays[w.key])
  BY <1>2 DEF Fitting
<1>4. /\ PlansKept(plans') /\ Len(plans') = Len(plans) + 1
      /\ SessionFits(session', plans', bundles, context)
      /\ Ended("build", w.key, session, replays[w.key])
  BY <1>1, <1>2, <1>3, Facts, AttachEnds
<1>5. BundlesKept(bundles') /\ Len(bundles') = Len(bundles)
  BY <1>1, Facts, SavedSame
<1>6. SessionFits(session', plans', bundles', context)
  BY <1>1, <1>4
<1>7. Len(plans') <= Len(plans) + 1
  BY <1>4, Facts
<1> QED
  BY <1>1, <1>4, <1>5, <1>6, <1>7, HandlerEnds

LEMMA FilesReadyInv ==
  ASSUME Inv, NEW h \in Handlers, FilesReady(h)
  PROVE  Inv' /\ Moves
<1> DEFINE w == handler[h]
<1>1. /\ w # Idle /\ w.kind = "export" /\ Rest(h) /\ RegisterBundle(w.start.plan)
      /\ Complete(w.start, w.key,
                [session EXCEPT !.status = "EXPORTED", !.bundle = Len(bundles) + 1,
                                !.report = w.start.plan, !.error = "none"],
                session, replays[w.key])
      /\ UNCHANGED <<context, source, restarts, faults>>
  BY DEF FilesReady
<1>2. /\ w.start = replays[w.key].start /\ Fitting("export", w.key, session, replays[w.key])
  BY <1>1, HandlerFits
<1>3. /\ StartFits(w.start, session) /\ w.start.kind = "export"
      /\ StoredTyped(replays[w.key])
  BY <1>2 DEF Fitting
<1>4. /\ PlansKept(plans') /\ Len(plans') = Len(plans)
      /\ BundlesKept(bundles') /\ Len(bundles') = Len(bundles) + 1
      /\ SessionFits(session', plans', bundles', context)
      /\ Ended("export", w.key, session, replays[w.key])
  BY <1>1, <1>3, Facts, ExportEnds
<1>5. Len(bundles') <= Len(bundles) + 1
  BY <1>4, Facts
<1> QED
  BY <1>1, <1>4, <1>5, HandlerEnds

LEMMA HandlerFailsInv ==
  ASSUME Inv, NEW h \in Handlers, HandlerFails(h)
  PROVE  Inv' /\ Moves
<1> DEFINE w == handler[h]
<1>1. /\ w # Idle /\ Rest(h) /\ Fail(w.kind, w.key, session, replays[w.key])
      /\ UNCHANGED <<context, source, plans, bundles, restarts, faults>>
  BY DEF HandlerFails
<1>2. w.kind \in Kinds /\ Fitting(w.kind, w.key, session, replays[w.key])
  BY <1>1, HandlerFits
<1>3. /\ SessionFits(session', plans, bundles, context)
      /\ Ended(w.kind, w.key, session, replays[w.key])
  BY <1>1, <1>2, Facts, FailEnds DEF Fitting
<1>4. PlansKept(plans') /\ BundlesKept(bundles')
  BY <1>1, Facts, SavedSame
<1>5. SessionFits(session', plans', bundles', context)
  BY <1>1, <1>3
<1>6. /\ Len(plans') = Len(plans) /\ Len(plans') <= Len(plans) + 1
      /\ Len(bundles') = Len(bundles) /\ Len(bundles') <= Len(bundles) + 1
  BY <1>1, Facts
<1> QED
  BY <1>1, <1>2, <1>3, <1>4, <1>5, <1>6, HandlerEnds DEF Kinds

(* The first write of a handler, or none.                                    *)
LEMMA FirstWrite ==
  ASSUME Inv, NEW h \in Handlers, handler[h] # Idle,
         UNCHANGED <<plans, bundles>> \/ FirstWriteOnly(h)
  PROVE  /\ PlansKept(plans') /\ BundlesKept(bundles')
         /\ \/ handler[h].kind = "build" /\ Len(plans') <= Len(plans) + 1
                                         /\ Len(bundles') = Len(bundles)
            \/ handler[h].kind = "export" /\ Len(bundles') <= Len(bundles) + 1
                                          /\ Len(plans') = Len(plans)
<1> DEFINE w == handler[h]
<1>1. /\ w.kind \in Kinds /\ StartFits(w.start, session)
      /\ w.kind = "build" => w.quoted = w.start.selection /\ w.context \in Nat
  BY HandlerFits DEF Fitting
<1>2. CASE UNCHANGED <<plans, bundles>>
  <2>1. PlansKept(plans') /\ BundlesKept(bundles')
    BY <1>2, Facts, SavedSame
  <2>2. /\ Len(plans') = Len(plans) /\ Len(plans') <= Len(plans) + 1
        /\ Len(bundles') = Len(bundles) /\ Len(bundles') <= Len(bundles) + 1
    BY <1>2, Facts
  <2> QED
    BY <1>1, <2>1, <2>2 DEF Kinds
<1>3. CASE w.kind = "build" /\ FirstWriteOnly(h)
  <2>1. PICK sound \in BOOLEAN : /\ SavePlan(w.quoted, w.context, context, sound)
                                 /\ bundles' = bundles
    BY <1>3 DEF FirstWriteOnly
  <2>2. w.quoted \in Selections /\ w.context \in Nat
    BY <1>1, <1>3 DEF StartFits, StartRecords, Selections
  <2>3. PlansKept(plans') /\ Len(plans') = Len(plans) + 1
    BY <2>1, <2>2, Facts, PlanSaved
  <2>4. BundlesKept(bundles') /\ Len(bundles') = Len(bundles)
    BY <2>1, Facts, SavedSame
  <2> QED
    BY <1>3, <2>3, <2>4, Facts
<1>4. CASE w.kind = "export" /\ FirstWriteOnly(h)
  <2>1. RegisterBundle(w.start.plan) /\ w.start.plan \in Nat
    BY <1>1, <1>4 DEF FirstWriteOnly, StartFits, StartRecords
  <2>2. /\ PlansKept(plans') /\ Len(plans') = Len(plans)
        /\ BundlesKept(bundles') /\ Len(bundles') = Len(bundles) + 1
    BY <2>1, Facts, BundleRegistered
  <2> QED
    BY <1>4, <2>2, Facts
<1> QED
  BY <1>1, <1>2, <1>3, <1>4 DEF Kinds

LEMMA HandlerCannotWriteInv ==
  ASSUME Inv, NEW h \in Handlers, HandlerCannotWrite(h)
  PROVE  Inv' /\ Moves
<1> DEFINE w == handler[h]
           stored == replays[w.key]
<1>1. /\ w # Idle /\ Rest(h) /\ faults < MaxFaults /\ faults' = faults + 1
      /\ UNCHANGED <<plans, bundles>> \/ FirstWriteOnly(h)
      /\ UNCHANGED <<context, source, session, replays, restarts>>
  BY DEF HandlerCannotWrite
<1>2. w.kind \in Kinds /\ w.key \in Keys /\ Fitting(w.kind, w.key, session, stored)
  BY <1>1, HandlerFits
<1>3. /\ PlansKept(plans') /\ BundlesKept(bundles')
      /\ \/ w.kind = "build" /\ Len(plans') <= Len(plans) + 1 /\ Len(bundles') = Len(bundles)
         \/ w.kind = "export" /\ Len(bundles') <= Len(bundles) + 1 /\ Len(plans') = Len(plans)
  BY <1>1, FirstWrite
<1>4. Capacity'
  BY <1>1, <1>3, RestCapacity
<1>5. HandlersMove(w.kind, w.key, stored)
  BY <1>1, RestMoves
<1>6. TransientIsOwned'
  BY <1>1, Facts DEF TransientIsOwned
<1>7. Scalars'
  BY <1>1, ScalarsStay
<1>8. SessionFits(session', plans', bundles', context')
  <2>1. PICK ps, bs : ps = plans' /\ bs = bundles'
    OBVIOUS
  <2>2. SessionFits(session, ps, bs, context)
    BY <1>3, <2>1, Facts, SessionFollows
  <2> QED
    BY <1>1, <2>1, <2>2
<1>9. Left(w.key, session, stored)
  <2>1. StoredTyped(stored) /\ session.revision \in Nat /\ session' = session
    BY <1>1, <1>2 DEF Fitting, SessionFits, SessionTyped
  <2>2. replays' = [replays EXCEPT ![w.key] = stored]
    BY <1>1, <1>2, Facts
  <2> QED
    BY <2>1, <2>2 DEF Left
<1> HIDE DEF w, stored
<1> QED
  BY <1>2, <1>3, <1>4, <1>5, <1>6, <1>7, <1>8, <1>9, WorkInv

-----------------------------------------------------------------------------
(* Every other step: the keys and the handlers stay, and a session that       *)
(* changes is neither BUILDING nor EXPORTING.                                *)
Resting ==
    /\ replays' = replays /\ handler' = handler /\ faults' = faults
    /\ PlansKept(plans') /\ Len(plans') = Len(plans)
    /\ BundlesKept(bundles') /\ Len(bundles') = Len(bundles)
    /\ \/ session' = session
       \/ session'.revision > session.revision /\ session'.status \notin {"BUILDING", "EXPORTING"}
    /\ SessionFits(session', plans', bundles', context')
    /\ Scalars'

LEMMA ReplaysFollow ==
  ASSUME Inv, replays' = replays, session'.revision \in Nat,
         session' = session \/ session'.revision > session.revision
  PROVE  ReplaysFit'
<1>1. session.revision \in Nat
  BY DEF Inv, SessionFits, SessionTyped
<1>2. \A start : StartFits(start, session) => StartFits(start, session')
  BY <1>1, StartFollows
<1> QED
  BY <1>2 DEF Inv, ReplaysFit, StoredTyped, StartFits, Unused

LEMMA RestingInv ==
  ASSUME Inv, Resting
  PROVE  Inv' /\ Moves
<1>1. session'.revision \in Nat
  BY DEF Resting, SessionFits, SessionTyped
<1>2. ReplaysFit'
  BY <1>1, ReplaysFollow DEF Resting
<1>3. HandlersFit'
  BY DEF Inv, HandlersFit, Waiting, Resting
<1>4. TransientIsOwned'
  <2>1. CASE session' = session
    BY <2>1 DEF Inv, TransientIsOwned, Waiting, Resting
  <2>2. CASE session'.status \notin {"BUILDING", "EXPORTING"}
    BY <2>2, TransientIs DEF TransientIsOwned, Kinds
  <2> QED
    BY <2>1, <2>2 DEF Resting
<1>5. Capacity'
  BY Facts, CapacityIs DEF Resting
<1>6. SavedOK'
  BY DEF Resting, SavedOK, PlansKept, BundlesKept
<1>7. Moves
  BY DEF Resting, Moves
<1> QED
  BY <1>2, <1>3, <1>4, <1>5, <1>6, <1>7 DEF Inv, Resting

LEMMA SessionSame ==
  ASSUME Inv, UNCHANGED <<context, session, replays, handler, restarts, faults>>,
         source' \in [Sources -> {"active", "retired", "superseded"} \cup Purged],
         PlansKept(plans'), Len(plans') = Len(plans),
         BundlesKept(bundles'), Len(bundles') = Len(bundles)
  PROVE  Resting
<1>1. PICK ps, bs : ps = plans' /\ bs = bundles'
  OBVIOUS
<1>2. SessionFits(session, ps, bs, context)
  BY <1>1, Facts, SessionFollows
<1>3. Scalars'
  BY DEF Inv, Scalars
<1> QED
  BY <1>1, <1>2, <1>3 DEF Resting

LEMMA SourceSteps ==
  ASSUME Inv, NEW s \in Sources,
         \/ RetireSource(s) \/ ImportNewVersion(s) \/ ReclassifySource(s) \/ DeleteSource(s)
  PROVE  Resting
<1>1. source \in [Sources -> {"active", "retired", "superseded"} \cup Purged]
  BY DEF Inv, Scalars
<1>2. CASE RetireSource(s) \/ ImportNewVersion(s)
  <2>1. /\ PlansKept(plans') /\ Len(plans') = Len(plans)
        /\ BundlesKept(bundles') /\ Len(bundles') = Len(bundles)
    BY <1>2, Facts, SavedSame DEF RetireSource, ImportNewVersion
  <2>2. source' \in [Sources -> {"active", "retired", "superseded"} \cup Purged]
    BY <1>1, <1>2 DEF RetireSource, ImportNewVersion
  <2> QED
    BY <1>2, <2>1, <2>2, SessionSame DEF RetireSource, ImportNewVersion
<1>3. CASE ReclassifySource(s) \/ DeleteSource(s)
  <2>1. /\ PlansKept(plans') /\ Len(plans') = Len(plans)
        /\ BundlesKept(bundles') /\ Len(bundles') = Len(bundles)
    BY <1>3, Facts, SavedPurged DEF ReclassifySource, DeleteSource
  <2>2. source' \in [Sources -> {"active", "retired", "superseded"} \cup Purged]
    BY <1>1, <1>3 DEF ReclassifySource, DeleteSource, Purged
  <2> QED
    BY <1>3, <2>1, <2>2, SessionSame DEF ReclassifySource, DeleteSource
<1> QED
  BY <1>2, <1>3

LEMMA SessionSteps ==
  ASSUME Inv, NEW s,
         SaveContext \/ (s \in Sources /\ ReplaceSources(s)) \/ Review \/ Confirm
  PROVE  Resting
<1>1. /\ Shaped(session) /\ session.revision \in Nat /\ SessionTyped(session)
      /\ session.plan \in 0..Len(plans) /\ session.bundle \in 0..Len(bundles)
  BY Facts DEF SessionFits, SessionTyped
<1>2. CASE Review
  <2>1. PlansKept(plans') /\ Len(plans') = Len(plans)
    BY <1>2, Facts, PlanReviewed
  <2>2. BundlesKept(bundles') /\ Len(bundles') = Len(bundles)
    BY <1>2, Facts, SavedSame DEF Review
  <2>3. source' \in [Sources -> {"active", "retired", "superseded"} \cup Purged]
    BY <1>2 DEF Review, Inv, Scalars
  <2> QED
    BY <1>2, <2>1, <2>2, <2>3, SessionSame DEF Review
<1>3. ASSUME SaveContext \/ ReplaceSources(s) \/ Confirm
      PROVE  /\ replays' = replays /\ handler' = handler /\ faults' = faults
             /\ plans' = plans /\ bundles' = bundles /\ source' = source /\ restarts' = restarts
             /\ PlansKept(plans') /\ BundlesKept(bundles')
  BY <1>3, Facts, SavedSame DEF SaveContext, ReplaceSources, Confirm
<1>4. CASE SaveContext
  <2>1. context' = context + 1 /\ context < MaxContext
        /\ session' = IF session.plan # 0 THEN Stale ELSE session
    BY <1>4 DEF SaveContext
  <2>2. Scalars'
    BY <1>3, <1>4, <2>1, Bounds DEF Inv, Scalars
  <2>3. CASE session.plan = 0
    <3>1. session' = session
      BY <2>1, <2>3
    <3>2. SessionFits(session, plans, bundles, context + 1)
      BY <2>3, Facts DEF SessionFits
    <3> QED
      BY <1>3, <1>4, <2>1, <2>2, <3>1, <3>2 DEF Resting
  <2>4. CASE session.plan # 0
    <3>1. session' = [session EXCEPT !.status = "PLAN_REVIEW", !.report = 0, !.bundle = 0,
                                     !.error = "stale", !.revision = session.revision + 1]
      BY <2>1, <2>4 DEF Stale, Revised
    <3>2. /\ Shaped(session') /\ session'.status = "PLAN_REVIEW" /\ session'.report = 0
          /\ session'.bundle = 0 /\ session'.error = "stale"
          /\ session'.revision = session.revision + 1
          /\ session'.plan = session.plan /\ session'.selection = session.selection
      BY <1>1, <3>1 DEF Shaped
    <3>3. SessionFits(session', plans, bundles, context')
      BY <1>1, <3>2, Facts DEF SessionFits, SessionTyped, Statuses, Confirmed
    <3>4. session'.revision > session.revision
      BY <1>1, <3>2
    <3> QED
      BY <1>3, <1>4, <2>2, <3>2, <3>3, <3>4 DEF Resting
  <2> QED
    BY <2>3, <2>4
<1>5. ASSUME context' = context, ReplaceSources(s) \/ Confirm PROVE Scalars'
  BY <1>3, <1>5, ScalarsStay
<1>6. CASE s \in Sources /\ ReplaceSources(s)
  <2>1. /\ context' = context
        /\ session' = [session EXCEPT !.status = "SOURCES_SELECTED", !.selection = s,
                         !.plan = 0, !.report = 0, !.bundle = 0, !.error = "none",
                         !.revision = session.revision + 1]
    BY <1>6 DEF ReplaceSources, Revised
  <2>2. /\ Shaped(session') /\ session'.status = "SOURCES_SELECTED" /\ session'.report = 0
        /\ session'.bundle = 0 /\ session'.error = "none"
        /\ session'.revision = session.revision + 1
        /\ session'.plan = 0 /\ session'.selection = s
    BY <1>1, <2>1 DEF Shaped
  <2>3. SessionFits(session', plans, bundles, context')
    BY <1>1, <1>6, <2>2, Facts DEF SessionFits, SessionTyped, Statuses, Confirmed, Selections
  <2>4. session'.revision > session.revision
    BY <1>1, <2>2
  <2> QED
    BY <1>3, <1>5, <1>6, <2>1, <2>2, <2>3, <2>4 DEF Resting
<1>7. CASE Confirm
  <2>1. /\ context' = context
        /\ session' = [session EXCEPT !.status = "READY_TO_EXPORT", !.report = session.plan,
                                      !.error = "none", !.revision = session.revision + 1]
        /\ session.status = "PLAN_REVIEW" /\ session.error # "stale" /\ session.plan # 0
        /\ plans[session.plan].reviewed /\ plans[session.plan].sound
    BY <1>7 DEF Confirm, Revised, ReadyReport
  <2>2. /\ Shaped(session') /\ session'.status = "READY_TO_EXPORT"
        /\ session'.report = session.plan
        /\ session'.bundle = session.bundle /\ session'.error = "none"
        /\ session'.revision = session.revision + 1
        /\ session'.plan = session.plan /\ session'.selection = session.selection
    BY <1>1, <2>1 DEF Shaped
  <2>3. SessionFits(session', plans, bundles, context')
    BY <1>1, <2>1, <2>2, Facts DEF SessionFits, SessionTyped, Statuses, Confirmed
  <2>4. session'.revision > session.revision
    BY <1>1, <2>2
  <2> QED
    BY <1>3, <1>5, <1>7, <2>1, <2>2, <2>3, <2>4 DEF Resting
<1> QED
  BY <1>2, <1>4, <1>6, <1>7

(* A restart leaves no handler, and neither BUILDING nor EXPORTING.          *)
LEMMA RestartInv ==
  ASSUME Inv, Restart
  PROVE  Inv' /\ Moves
<1>1. /\ restarts < MaxRestarts /\ restarts' = restarts + 1 /\ session' = Reconciled
      /\ UNCHANGED <<plans, bundles>> \/ \E h \in Waiting : FirstWriteOnly(h)
      /\ handler' = [h \in Handlers |-> Idle]
      /\ UNCHANGED <<context, source, replays, faults>>
  BY DEF Restart
<1>2. /\ PlansKept(plans') /\ BundlesKept(bundles')
      /\ Len(plans') <= MaxSaved /\ Len(bundles') <= MaxSaved
  <2>1. CASE UNCHANGED <<plans, bundles>>
    BY <2>1, Facts, Bounds, SavedSame
  <2>2. CASE \E h \in Waiting : FirstWriteOnly(h)
    <3>1. PICK h \in Waiting : FirstWriteOnly(h)
      BY <2>2
    <3>2. h \in Handlers /\ handler[h] # Idle
      BY DEF Waiting
    <3>3. /\ PlansKept(plans') /\ BundlesKept(bundles')
          /\ \/ handler[h].kind = "build" /\ Len(plans') <= Len(plans) + 1
                                          /\ Len(bundles') = Len(bundles)
             \/ handler[h].kind = "export" /\ Len(bundles') <= Len(bundles) + 1
                                           /\ Len(plans') = Len(plans)
      BY <3>1, <3>2, FirstWrite
    <3>4. CountIn(handler, handler[h].kind) >= 1
      BY <3>2, CountEnds
    <3>5. Len(plans') \in Nat /\ Len(bundles') \in Nat
      BY <3>3 DEF PlansKept, BundlesKept
    <3>6. /\ Len(plans) \in Nat /\ Len(bundles) \in Nat /\ MaxSaved \in Nat
          /\ CountIn(handler, "build") \in Nat /\ CountIn(handler, "export") \in Nat
          /\ Len(plans) + CountIn(handler, "build") <= MaxSaved
          /\ Len(bundles) + CountIn(handler, "export") <= MaxSaved
      BY Facts, Bounds
    <3>7. CASE handler[h].kind = "build"
      <4>1. CountIn(handler, "build") >= 1
        BY <3>4, <3>7
      <4>2. Len(plans') <= Len(plans) + 1 /\ Len(bundles') = Len(bundles)
        BY <3>3, <3>7
      <4> QED
        BY <3>3, <3>5, <3>6, <4>1, <4>2
    <3>8. CASE handler[h].kind = "export"
      <4>1. CountIn(handler, "export") >= 1
        BY <3>4, <3>8
      <4>2. Len(bundles') <= Len(bundles) + 1 /\ Len(plans') = Len(plans)
        BY <3>3, <3>8
      <4> QED
        BY <3>3, <3>5, <3>6, <4>1, <4>2
    <3> QED
      BY <3>3, <3>7, <3>8
  <2> QED
    BY <1>1, <2>1, <2>2
<1>3. SessionFits(session, plans', bundles', context)
  <2>1. PICK ps, bs : ps = plans' /\ bs = bundles'
    OBVIOUS
  <2> QED
    BY <1>2, <2>1, Facts, SessionFollows
<1>4. Shaped(session) /\ session.revision \in Nat /\ SessionTyped(session)
  BY Facts DEF SessionFits, SessionTyped
<1>5. /\ SessionFits(session', plans', bundles', context)
      /\ session' = session \/ session'.revision > session.revision
      /\ session'.status \notin {"BUILDING", "EXPORTING"}
  <2>1. CASE session.status = "BUILDING"
    <3>1. session' = [session EXCEPT !.status = "SOURCES_SELECTED", !.error = "interrupted",
                                     !.revision = session.revision + 1]
      BY <1>1, <2>1, TransientIs DEF Reconciled, Revised
    <3>2. /\ Shaped(session') /\ session'.status = "SOURCES_SELECTED"
          /\ session'.report = session.report
          /\ session'.bundle = session.bundle /\ session'.error = "interrupted"
          /\ session'.revision = session.revision + 1
          /\ session'.plan = session.plan /\ session'.selection = session.selection
      BY <1>4, <3>1 DEF Shaped
    <3> QED
      BY <1>3, <1>4, <3>2 DEF SessionFits, SessionTyped, Statuses, Confirmed
  <2>2. CASE session.status = "EXPORTING"
    <3>1. session' = [session EXCEPT !.status = "READY_TO_EXPORT", !.error = "interrupted",
                                     !.revision = session.revision + 1]
      BY <1>1, <2>2, TransientIs DEF Reconciled, Revised
    <3>2. /\ Shaped(session') /\ session'.status = "READY_TO_EXPORT"
          /\ session'.report = session.report
          /\ session'.bundle = session.bundle /\ session'.error = "interrupted"
          /\ session'.revision = session.revision + 1
          /\ session'.plan = session.plan /\ session'.selection = session.selection
      BY <1>4, <3>1 DEF Shaped
    <3> QED
      BY <1>3, <1>4, <2>2, <3>2 DEF SessionFits, SessionTyped, Statuses, Confirmed
  <2>3. CASE session.status \notin {"BUILDING", "EXPORTING"}
    <3>1. session' = session
      BY <1>1, <2>3 DEF Reconciled
    <3> QED
      BY <1>3, <2>3, <3>1
  <2> QED
    BY <2>1, <2>2, <2>3
<1>6. session'.revision \in Nat
  BY <1>5 DEF SessionFits, SessionTyped
<1>7. ReplaysFit'
  BY <1>1, <1>5, <1>6, ReplaysFollow
<1>8. Waiting' = {} /\ handler' = [h \in Handlers |-> handler'[h]]
  BY <1>1 DEF Waiting
<1>9. HandlersFit'
  BY <1>8 DEF HandlersFit
<1>10. TransientIsOwned'
  BY <1>5, TransientIs DEF TransientIsOwned, Kinds
<1>11. Capacity'
  <2>1. \A kind : CountIn([h \in Handlers |-> Idle], kind) = 0
    <3> SUFFICES ASSUME NEW kind PROVE CountIn([h \in Handlers |-> Idle], kind) = 0
      OBVIOUS
    <3>1. AllOf([h \in Handlers |-> Idle], kind) = {}
      BY DEF AllOf
    <3> QED
      BY <3>1, FS_EmptySet DEF CountIn
  <2>2. CountIn(handler', "build") = 0 /\ CountIn(handler', "export") = 0
    BY <1>1, <2>1
  <2>3. Len(plans') \in Nat /\ Len(bundles') \in Nat
    BY <1>2 DEF PlansKept, BundlesKept
  <2> QED
    BY <1>2, <2>2, <2>3, CapacityIs
<1>12. Scalars'
  BY <1>1, Bounds DEF Inv, Scalars
<1>13. SavedOK'
  BY <1>2 DEF SavedOK, PlansKept, BundlesKept
<1>14. SessionFits(session, plans, bundles, context)' /\ Moves
  BY <1>1, <1>5 DEF Moves
<1> QED
  BY <1>7, <1>9, <1>10, <1>11, <1>12, <1>13, <1>14 DEF Inv

-----------------------------------------------------------------------------
LEMMA StepInv == Inv /\ [Next]_vars => Inv' /\ Moves
<1> SUFFICES ASSUME Inv, [Next]_vars PROVE Inv' /\ Moves
  OBVIOUS
<1>1. CASE UNCHANGED vars
  <2>1. /\ UNCHANGED <<context, session, replays, handler, restarts, faults>>
        /\ source' = source /\ plans' = plans /\ bundles' = bundles
    BY <1>1 DEF vars
  <2>2. source' \in [Sources -> {"active", "retired", "superseded"} \cup Purged]
    BY <2>1 DEF Inv, Scalars
  <2>3. /\ PlansKept(plans') /\ Len(plans') = Len(plans)
        /\ BundlesKept(bundles') /\ Len(bundles') = Len(bundles)
    BY <2>1, Facts, SavedSame
  <2> QED
    BY <2>1, <2>2, <2>3, SessionSame, RestingInv
<1>2. CASE SaveContext \/ Review \/ Confirm
  BY <1>2, SessionSteps, RestingInv
<1>3. CASE Restart
  BY <1>3, RestartInv
<1>4. ASSUME NEW s \in Sources,
             \/ ReplaceSources(s) \/ RetireSource(s) \/ ImportNewVersion(s)
             \/ ReclassifySource(s) \/ DeleteSource(s)
      PROVE  Inv' /\ Moves
  BY <1>4, SessionSteps, SourceSteps, RestingInv
<1>5. ASSUME NEW h \in Handlers, NEW key \in Keys,
             Build(h, key) \/ BuildAgain(h, key) \/ Export(h, key) \/ ExportAgain(h, key)
      PROVE  Inv' /\ Moves
  <2>1. "build" \in Kinds /\ "export" \in Kinds
    BY DEF Kinds
  <2>2. \A kind : [Unused EXCEPT !.start = StartRecord(kind)].start = StartRecord(kind)
    BY DEF Unused
  <2>3. CASE Build(h, key)
    <3>1. /\ handler[h] = Idle /\ IsNew("build", key)
          /\ BuildFrom(h, StartRecord("build"), key, StartedSession("build"),
                       [Unused EXCEPT !.start = StartRecord("build")])
      BY <2>3 DEF Build
    <3>2. Fitting("build", key, StartedSession("build"),
                  [Unused EXCEPT !.start = StartRecord("build")])
      BY <2>1, <3>1, Facts, NewFits
    <3> QED
      BY <2>2, <3>1, <3>2, BuildSteps
  <2>4. CASE BuildAgain(h, key)
    <3>1. /\ handler[h] = Idle /\ IsReplay("build", key)
          /\ BuildFrom(h, replays[key].start, key, session, replays[key])
      BY <2>4 DEF BuildAgain
    <3>2. Fitting("build", key, session, replays[key])
      BY <2>1, <3>1, AgainFits
    <3> QED
      BY <3>1, <3>2, BuildSteps
  <2>5. CASE Export(h, key)
    <3>1. /\ handler[h] = Idle /\ IsNew("export", key)
          /\ ExportFrom(h, StartRecord("export"), key, StartedSession("export"),
                        [Unused EXCEPT !.start = StartRecord("export")])
      BY <2>5 DEF Export
    <3>2. Fitting("export", key, StartedSession("export"),
                  [Unused EXCEPT !.start = StartRecord("export")])
      BY <2>1, <3>1, Facts, NewFits
    <3> QED
      BY <2>2, <3>1, <3>2, ExportSteps
  <2>6. CASE ExportAgain(h, key)
    <3>1. /\ handler[h] = Idle /\ IsReplay("export", key)
          /\ ExportFrom(h, replays[key].start, key, session, replays[key])
      BY <2>6 DEF ExportAgain
    <3>2. Fitting("export", key, session, replays[key])
      BY <2>1, <3>1, AgainFits
    <3> QED
      BY <3>1, <3>2, ExportSteps
  <2> QED
    BY <1>5, <2>3, <2>4, <2>5, <2>6
<1>6. ASSUME NEW h \in Handlers,
             ModelAnswers(h) \/ FilesReady(h) \/ HandlerFails(h) \/ HandlerCannotWrite(h)
      PROVE  Inv' /\ Moves
  BY <1>6, ModelAnswersInv, FilesReadyInv, HandlerFailsInv, HandlerCannotWriteInv
<1> QED
  BY <1>1, <1>2, <1>3, <1>4, <1>5, <1>6 DEF Next

LEMMA AlwaysInv == Spec => []Inv
<1>1. Inv /\ [Next]_vars => Inv'
  BY StepInv
<1> QED
  BY <1>1, InitInv, PTL DEF Spec

-----------------------------------------------------------------------------
(* The session fits its plan and its selection, what it names exists,        *)
(* BUILDING and EXPORTING belong to a handler that waits, and the classroom   *)
(* is shown no plan whose source or context has changed: restarts, failing    *)
(* writes, keys sent again and late answers included (SessionConsistent).     *)
THEOREM SessionStaysConsistent == Spec => []SessionConsistent
<1>1. Inv => SessionConsistent
  <2> SUFFICES ASSUME Inv PROVE SessionConsistent
    OBVIOUS
  <2>1. /\ session.plan \in 0..Len(plans) /\ session.bundle \in 0..Len(bundles)
        /\ session.status \in Statuses /\ session.selection \in Sources \cup {NoSource}
        /\ session.report \in {0, session.plan}
        /\ session.error \in {"none", "stale", "failed", "interrupted"}
        /\ session.plan # 0 => plans[session.plan].source = session.selection
        /\ session.status \in Confirmed =>
             session.plan # 0 /\ plans[session.plan].attached = context
    BY Facts DEF SessionFits, SessionTyped, Selections
  <2>2. Len(plans) <= MaxSaved /\ Len(bundles) <= MaxSaved
    BY Facts, Bounds
  <2>3. \A h \in Waiting : replays[handler[h].key].start = handler[h].start
    BY DEF Inv, HandlersFit
  <2>4. TypeOK
    BY <2>1, <2>2, <2>3 DEF TypeOK, Inv, Scalars
  <2>5. PlanFitsSelection
    BY <2>1 DEF PlanFitsSelection
  <2>6. TransientHasHandler
    BY TransientIs DEF TransientHasHandler, Inv, TransientIsOwned
  <2>7. ClassroomIsCurrent
    BY <2>1 DEF ClassroomIsCurrent, MayPresent, Verified, Confirmed
  <2> QED
    BY <2>4, <2>5, <2>6, <2>7 DEF SessionConsistent
<1> QED
  BY <1>1, AlwaysInv, PTL

(* Whatever may be exported, is being exported or was exported has a plan     *)
(* that the review found sound, under the context that still holds, and a     *)
(* bundle of that very plan (PublishedIsReviewed).                           *)
THEOREM PublishedWasReviewed == Spec => []PublishedIsReviewed
<1>1. Inv => PublishedIsReviewed
  BY DEF Inv, SessionFits, PublishedIsReviewed
<1> QED
  BY <1>1, AlwaysInv, PTL

(* Sent again, a key keeps what it stored, and BUILDING or EXPORTING is only  *)
(* entered under a key that was not used before (RetryStartsNothing).        *)
THEOREM RetriesStartNothing == Spec => RetryStartsNothing
<1> DEFINE Step ==
      /\ \A k \in Keys : replays[k].start # NoReplay => replays'[k].start = replays[k].start
      /\ \A kind \in DOMAIN Transient :
            session'.status = Transient[kind] /\ session.status # Transient[kind] =>
                \E k \in Keys : replays[k] = Unused /\ replays'[k] # Unused
<1>1. Inv /\ [Next]_vars => Step
  <2> SUFFICES ASSUME Inv, [Next]_vars PROVE Step
    OBVIOUS
  <2>1. Moves
    BY StepInv
  <2>2. CASE /\ replays' = replays
             /\ session' = session \/ session'.status \notin {"BUILDING", "EXPORTING"}
    BY <2>2, TransientIs DEF Kinds
  <2>3. ASSUME NEW kind \in Kinds, NEW key \in Keys, NEW now, NEW stored,
               Fitting(kind, key, now, stored), Left(key, now, stored)
        PROVE  Step
    <3>1. /\ replays'[key] # Unused
          /\ \A k \in Keys : replays[k] # Unused => replays'[k].start = replays[k].start
      BY <2>3, ReplaysStay
    <3>2. ASSUME NEW k \in Keys, replays[k].start # NoReplay
          PROVE  replays'[k].start = replays[k].start
      BY <3>1, <3>2, UnusedIs
    <3>3. ASSUME NEW other \in DOMAIN Transient, session'.status = Transient[other],
                 session.status # Transient[other]
          PROVE  \E k \in Keys : replays[k] = Unused /\ replays'[k] # Unused
      <4>1. session'.status \in {"BUILDING", "EXPORTING"} /\ session' # session
        BY <3>3, TransientIs DEF Kinds
      <4>2. session' = now
        BY <2>3, <4>1 DEF Left
      <4>3. replays[key] = Unused
        BY <2>3, <4>1, <4>2 DEF Fitting
      <4> QED
        BY <3>1, <4>3
    <3> QED
      BY <3>2, <3>3
  <2> HIDE DEF Step
  <2> QED
    BY <2>1, <2>2, <2>3 DEF Moves
<1>2. Spec => [][Step]_vars
  BY <1>1, AlwaysInv, PTL DEF Spec
<1> QED
  BY <1>2 DEF RetryStartsNothing
=============================================================================
