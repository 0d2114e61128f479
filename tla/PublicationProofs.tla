--------------------------- MODULE PublicationProofs ---------------------------
(***************************************************************************)
(* For all lessons, changes and keys, and every number of exports, privacy    *)
(* operations, failing calls and restarts: files follow the rows             *)
(* (FilesFollowRows), what a key has come to is final (OutcomeIsFinal), and   *)
(* revisions, bundles, keys and the session agree (PublicationConsistent).    *)
(* The second half is about LessonSchedule: its folds are followed activity   *)
(* by activity, which shows that fitSchedule and addIndependentTime make what *)
(* the rules demand (FitIsFit, MoreTimeIsMoreTime).                          *)
(***************************************************************************)
EXTENDS Publication, SequenceTheorems, WellFoundedInduction, TLAPS

-----------------------------------------------------------------------------
(* Sequences: one element is added or replaced.                             *)
Elements(s) == {s[i] : i \in DOMAIN s}

LEMMA Appended ==
  ASSUME NEW S, NEW s \in Seq(S), NEW e \in S
  PROVE  /\ Append(s, e) \in Seq(S) /\ Len(Append(s, e)) = Len(s) + 1
         /\ Append(s, e)[Len(s) + 1] = e /\ \A i \in 1..Len(s) : Append(s, e)[i] = s[i]
OBVIOUS

LEMMA OwnElements ==
  ASSUME NEW S, NEW s \in Seq(S)
  PROVE  s \in Seq(Elements(s))
<1>1. PICK T : T = Elements(s)
  OBVIOUS
<1>2. \A i \in 1..Len(s) : s[i] \in T
  BY <1>1 DEF Elements
<1>3. s \in Seq(T)
  BY <1>2
<1> QED
  BY <1>1, <1>3

LEMMA IsSequence ==
  ASSUME NEW S, NEW n \in Nat, NEW f \in [1..n -> S]
  PROVE  f \in Seq(S) /\ Len(f) = n
OBVIOUS

LEMMA AsFunction ==
  ASSUME NEW S, NEW s \in Seq(S)
  PROVE  Len(s) \in Nat /\ DOMAIN s = 1..Len(s) /\ s \in [1..Len(s) -> S]
OBVIOUS

-----------------------------------------------------------------------------
(* The inductive invariant.                                                 *)
Rows == {"none", "kept", "purged"}
Dirs == {"none", "staging", "published", "quarantine"}
Bundles == [row : Rows, revision : Nat, key : Keys \cup {NoReplay}, dir : Dirs]
AllRequests == [base : Nat, change : Changes]
Outcomes ==
    [status : {"none", "failed", "failed_final", "succeeded"}, failures : Nat,
     request : AllRequests \cup {NoReplay}, bundle : Nat]
Sessions ==
    [status : {"EXPORTED", "PLAN_REVIEW", "other plan"}, revision : Nat, bundle : Nat]
Waiting == {"building", "staged", "published"}
Handlings ==
    [kind : {"change", "export"}, key : Keys \cup {NoReplay}, base : Nat,
     change : Changes \cup {NoReplay}, bundle : Nat, counts : BOOLEAN,
     step : Waiting \cup {"removing"}]
QuarantineRows == [op : Purges, bundle : 1..MaxBundles + 1]

(* A lesson may be anything.                                                 *)
IsRevision(r) ==
    r \in [base : Nat, readable : BOOLEAN, change : {r.change}, lesson : {r.lesson}]
IsPlan(s) == s \in Seq(Elements(s)) /\ \A r \in 1..Len(s) : IsRevision(s[r])

Types ==
    /\ IsPlan(plan) /\ bundle \in Seq(Bundles) /\ Len(bundle) <= MaxBundles + 1
    /\ replays \in [Keys -> Outcomes] /\ session \in Sessions
    /\ handler \in [Handlers -> Handlings \cup {Idle}]
    /\ purge \in Operations \cup {NoPurge} /\ quarantine \subseteq QuarantineRows
    /\ purged \subseteq Purges /\ strayed \in BOOLEAN
    /\ faults \in 0..MaxFaults /\ restarts \in 0..MaxRestarts

RowsExist == \A row \in quarantine : row.bundle \in Started

(* Failures are counted up to the last, and a success refers to a bundle.    *)
OutcomesFit ==
    \A k \in Keys :
        /\ replays[k].failures <= MaxFailures
        /\ replays[k].status \in {"none", "failed"} => replays[k].failures < MaxFailures
        /\ replays[k].status = "succeeded" => replays[k].bundle \in Registered

(* A key is that of the bundle it published.                                 *)
KeysFit ==
    \A b \in Registered : bundle[b].key # NoReplay =>
        /\ bundle[b].key \in Keys /\ replays[bundle[b].key].status = "succeeded"
        /\ replays[bundle[b].key].bundle = b

RevisionsExist == Len(plan) > 0 /\ \A b \in Started : bundle[b].revision \in 1..Len(plan)

(* A revision is what its change makes of the one before, and was reviewed.  *)
IsReviewed(lesson, change, new) ==
    new = Candidate(lesson, change) /\ ~Blocks(lesson, change) /\ PassesReview(new)

RevisionsAreChecked ==
    \A r \in 1..Len(plan) : plan[r].base > 0 =>
        IsReviewed(plan[plan[r].base].lesson, plan[r].change, plan[r].lesson)

(* What waits has a bundle of its own that is not registered, and a change   *)
(* that waits to be accepted was reviewed.                                   *)
HandlerFits(w) ==
    /\ w.base \in 1..Len(plan) /\ w.bundle \in Started
    /\ bundle[w.bundle].row = "none" /\ bundle[w.bundle].key = w.key
    /\ w.kind = "change" => w.key \in Keys /\ w.change \in Changes
    /\ w.kind = "export" => w.key = NoReplay /\ w.change = NoReplay /\ ~w.counts
    /\ w.kind = "change" /\ w.step \in Waiting => Passes(w.base, w.change)

HandlersFit ==
    /\ \A h \in Busy : HandlerFits(handler[h])
    /\ \A h, g \in Busy : handler[h].bundle = handler[g].bundle => h = g

SessionFits == session.status = "EXPORTED" => session.bundle \in Started

PurgeFits == purge # NoPurge => (purge.op \in purged <=> purge.step = "finalizing")

(* While no file strayed: where the files of every bundle are.               *)
Unfinished == purge # NoPurge /\ purge.step \in {"moving", "restoring"}

KeptFiles ==
    \A b \in Registered :
        bundle[b].dir = "published" \/ (Unfinished /\ b \in purge.files)
PurgedFiles ==
    \A b \in Started : bundle[b].row = "purged" =>
        /\ bundle[b].dir \in {"none", "quarantine"}
        /\ bundle[b].dir = "quarantine" => faults > 0 \/ (In("finalizing") /\ b \in purge.files)
MovedFiles ==
    /\ Unfinished =>
         /\ \A b \in purge.files :
              /\ b \in Registered /\ bundle[b].dir \in {"published", "quarantine"}
              /\ [op |-> purge.op, bundle |-> b] \in quarantine
         /\ IF Dependent THEN Registered \subseteq purge.files ELSE purge.files = {}
    /\ In("finalizing") =>
         \A b \in purge.files : b \in Started /\ bundle[b].row = "purged"
RowsFit ==
    \A row \in quarantine :
        row.op \in purged \/ (Unfinished /\ row.op = purge.op /\ row.bundle \in purge.files)
PromotedFiles ==
    \A h \in Busy : handler[h].step = "published" => bundle[handler[h].bundle].dir = "published"

Placed == KeptFiles /\ PurgedFiles /\ MovedFiles /\ RowsFit /\ PromotedFiles
FilesFit == ~strayed => Placed

Inv ==
    /\ Types /\ HistoryIsLinear /\ RevisionsExist /\ RevisionsAreChecked /\ OutcomesFit
    /\ KeysFit /\ HandlersFit /\ SessionFits /\ SessionFollowsPlan /\ PurgeFits /\ FilesFit
    /\ RowsExist

-----------------------------------------------------------------------------
LEMMA Constants ==
  /\ MaxFailures \in Nat /\ MaxFailures > 0 /\ MaxBundles \in Nat /\ MaxFaults \in Nat
  /\ MaxRestarts \in Nat /\ NoReplay \notin Changes
  /\ \A p \in Operations : p # NoPurge
BY BoundAssumption, SentinelAssumption

LEMMA IdleIs == Idle \notin Handlings
BY DEF Idle, Handlings

LEMMA Sequences ==
  ASSUME Inv
  PROVE  /\ Len(plan) \in Nat /\ DOMAIN plan = 1..Len(plan) /\ Len(plan) > 0
         /\ Len(bundle) \in Nat /\ DOMAIN bundle = 1..Len(bundle) /\ Started = 1..Len(bundle)
         /\ \A b \in Started : bundle[b] \in Bundles
         /\ \A r \in 1..Len(plan) : IsRevision(plan[r])
BY DEF Inv, Types, IsPlan, RevisionsExist, Started

LEMMA NewBundleIs ==
  ASSUME NEW revision \in Nat, NEW key \in Keys \cup {NoReplay},
         NEW b, b = [NewBundle EXCEPT !.revision = revision, !.key = key]
  PROVE  /\ b \in Bundles /\ b.row = "none" /\ b.revision = revision /\ b.key = key
         /\ b.dir = "none"
BY DEF NewBundle, Bundles, Rows, Dirs

LEMMA InitInv == Init => Inv
<1> SUFFICES ASSUME Init PROVE Inv
  OBVIOUS
<1>1. PICK lesson \in Lessons :
        plan = <<[base |-> 0, readable |-> TRUE, change |-> NoReplay, lesson |-> lesson]>>
  BY DEF Init
<1>2. PICK first : first = [row |-> "kept", revision |-> 1, key |-> NoReplay, dir |-> "published"]
  OBVIOUS
<1>3. /\ bundle = <<first>> /\ replays = [k \in Keys |-> NeverTried]
      /\ session = [status |-> "EXPORTED", revision |-> 1, bundle |-> 1]
      /\ handler = [h \in Handlers |-> Idle]
      /\ purge = NoPurge /\ quarantine = {} /\ purged = {}
      /\ strayed = FALSE /\ restarts = 0 /\ faults = 0
  BY <1>2 DEF Init
<1>4. /\ Len(plan) = 1 /\ IsRevision(plan[1]) /\ plan[1].base = 0 /\ IsPlan(plan)
  <2>1. Len(plan) = 1 /\ DOMAIN plan = {1}
    BY <1>1
  <2>2. plan[1] = [base |-> 0, readable |-> TRUE, change |-> NoReplay, lesson |-> lesson]
    BY <1>1
  <2>3. IsRevision(plan[1]) /\ plan[1].base = 0
    BY <2>2 DEF IsRevision
  <2>4. plan \in Seq(Elements(plan))
    <3>1. PICK S : S = Elements(plan)
      OBVIOUS
    <3>2. PICK e :
            e = [base |-> 0, readable |-> TRUE, change |-> NoReplay, lesson |-> lesson]
      OBVIOUS
    <3>3. plan = <<e>>
      BY <1>1, <3>2
    <3>4. plan[1] \in S
      BY <2>1, <3>1 DEF Elements
    <3>5. e \in S
      BY <3>3, <3>4
    <3> QED
      BY <3>1, <3>3, <3>5
  <2> QED
    BY <2>1, <2>3, <2>4 DEF IsPlan
<1>5. /\ bundle \in Seq(Bundles) /\ Len(bundle) = 1 /\ bundle[1] = first /\ Started = {1}
  BY <1>2, <1>3 DEF Bundles, Rows, Dirs, Started
<1>6. Registered = {1} /\ bundle[1].key = NoReplay /\ bundle[1].dir = "published"
      /\ bundle[1].revision = 1 /\ bundle[1].row = "kept"
  BY <1>2, <1>5 DEF Registered
<1>7. NeverTried \in Outcomes /\ NeverTried.status = "none" /\ NeverTried.failures = 0
  BY DEF NeverTried, Outcomes
<1>8. Types
  <2>1. session \in Sessions
    BY <1>3 DEF Sessions
  <2>2. replays \in [Keys -> Outcomes] /\ handler \in [Handlers -> Handlings \cup {Idle}]
    BY <1>3, <1>7
  <2>3. Len(bundle) <= MaxBundles + 1 /\ faults \in 0..MaxFaults /\ restarts \in 0..MaxRestarts
    BY <1>3, <1>5, Constants
  <2> QED
    BY <1>3, <1>4, <1>5, <2>1, <2>2, <2>3 DEF Types
<1>9. HistoryIsLinear /\ RevisionsExist /\ RevisionsAreChecked
  BY <1>1, <1>4, <1>5, <1>6 DEF HistoryIsLinear, RevisionsExist, RevisionsAreChecked
<1>10. OutcomesFit /\ KeysFit
  BY <1>3, <1>6, <1>7, Constants DEF OutcomesFit, KeysFit
<1>11. HandlersFit /\ Busy = {}
  BY <1>3 DEF HandlersFit, Busy
<1>12. SessionFits /\ SessionFollowsPlan /\ PurgeFits
  BY <1>3, <1>4, <1>5, <1>6 DEF SessionFits, SessionFollowsPlan, PurgeFits, Current
<1>13. FilesFit
  BY <1>3, <1>5, <1>6, <1>11 DEF FilesFit, Placed, KeptFiles, PurgedFiles, MovedFiles, RowsFit,
     PromotedFiles, Unfinished, In
<1>14. RowsExist
  BY <1>3 DEF RowsExist
<1> QED
  BY <1>8, <1>9, <1>10, <1>11, <1>12, <1>13, <1>14 DEF Inv

-----------------------------------------------------------------------------
(* What stays when variables stay.                                          *)

(* Nothing but directories changes.                                          *)
RowsStay ==
    /\ bundle' \in Seq(Bundles) /\ Len(bundle') = Len(bundle)
    /\ \A b \in Started : /\ bundle'[b].row = bundle[b].row /\ bundle'[b].key = bundle[b].key
                          /\ bundle'[b].revision = bundle[b].revision

LEMMA SameRows == ASSUME Inv, bundle' = bundle PROVE RowsStay
BY DEF RowsStay, Inv, Types

LEMMA RowsKept ==
  ASSUME Inv, RowsStay
  PROVE  Started' = Started /\ Registered' = Registered
BY DEF RowsStay, Started, Registered

LEMMA SetDirIs ==
  ASSUME Inv, NEW b \in Started, NEW where \in Dirs, SetDir(b, where)
  PROVE  /\ RowsStay /\ bundle'[b].dir = where
         /\ \A c \in Started : c # b => bundle'[c] = bundle[c]
<1>1. PICK x : x = [bundle[b] EXCEPT !.dir = where]
  OBVIOUS
<1>2. bundle[b] \in Bundles /\ bundle \in Seq(Bundles) /\ b \in 1..Len(bundle)
  BY Sequences DEF Inv, Types
<1>3. x \in Bundles /\ x.dir = where /\ x.row = bundle[b].row /\ x.key = bundle[b].key
      /\ x.revision = bundle[b].revision
  BY <1>1, <1>2 DEF Bundles
<1>4. bundle' = [bundle EXCEPT ![b] = x]
  BY <1>1 DEF SetDir
<1>5. /\ bundle' \in Seq(Bundles) /\ Len(bundle') = Len(bundle)
      /\ \A c \in 1..Len(bundle) : bundle'[c] = IF c = b THEN x ELSE bundle[c]
  BY <1>2, <1>3, <1>4
<1> QED
  BY <1>3, <1>5 DEF RowsStay, Started

LEMMA PlanStays ==
  ASSUME Inv, plan' = plan
  PROVE  IsPlan(plan)' /\ HistoryIsLinear' /\ RevisionsAreChecked'
         /\ \A base, change : Passes(base, change)' = Passes(base, change)
BY DEF Inv, Types, IsPlan, IsRevision, HistoryIsLinear, RevisionsAreChecked, Passes

LEMMA RecordsStay ==
  ASSUME Inv, RowsStay, plan' = plan, replays' = replays
  PROVE  RevisionsExist' /\ OutcomesFit' /\ KeysFit'
<1>1. Started' = Started /\ Registered' = Registered
  BY RowsKept
<1>2. RevisionsExist'
  BY <1>1 DEF Inv, RevisionsExist, RowsStay
<1>3. OutcomesFit'
  BY <1>1 DEF Inv, OutcomesFit
<1>4. KeysFit'
  BY <1>1 DEF Inv, KeysFit, RowsStay, Registered
<1> QED
  BY <1>2, <1>3, <1>4

LEMMA RowsRemain ==
  ASSUME Inv, quarantine' \subseteq quarantine, Started \subseteq Started'
  PROVE  RowsExist'
BY DEF Inv, RowsExist

(* The session, while it stays as it is.                                     *)
LEMMA SessionStays ==
  ASSUME Inv, RowsStay, Len(plan') = Len(plan), session' = session, faults' \in Nat,
         restarts' \in Nat, faults' >= faults, restarts' >= restarts
  PROVE  session' \in Sessions /\ SessionFits' /\ SessionFollowsPlan'
<1>1. Started' = Started
  BY RowsKept
<1>2. faults \in Nat /\ restarts \in Nat
  BY Constants DEF Inv, Types
<1>3. SessionFits'
  BY <1>1 DEF Inv, SessionFits
<1>4. (faults' = 0 => faults = 0) /\ (restarts' = 0 => restarts = 0)
  BY <1>2
<1>5. SessionFollowsPlan'
  BY <1>4 DEF Inv, SessionFits, SessionFollowsPlan, Current, RowsStay
<1> QED
  BY <1>3, <1>5 DEF Inv, Types

-----------------------------------------------------------------------------
(* What waits, and its files.                                               *)

LEMMA AtIs ==
  ASSUME Inv, NEW h \in Handlers, NEW step, At(h, step)
  PROVE  /\ Running /\ h \in Busy /\ handler[h] \in Handlings /\ HandlerFits(handler[h])
         /\ handler[h].step = step /\ handler[h].bundle \in Started
BY DEF At, Inv, Types, HandlersFit, HandlerFits, Busy

LEMMA HandlersStay ==
  ASSUME Inv, RowsStay, plan' = plan, NEW h \in Busy, NEW x,
         handler' = [handler EXCEPT ![h] = x],
         \/ x = Idle
         \/ x \in Handlings /\ HandlerFits(x) /\ x.bundle = handler[h].bundle
  PROVE  HandlersFit' /\ handler' \in [Handlers -> Handlings \cup {Idle}]
<1>1. /\ handler \in [Handlers -> Handlings \cup {Idle}] /\ h \in Handlers
  BY DEF Inv, Types, Busy
<1>2. /\ handler' \in [Handlers -> Handlings \cup {Idle}] /\ handler'[h] = x
      /\ \A g \in Handlers : g # h => handler'[g] = handler[g]
  BY <1>1
<1>3. Busy' \subseteq Busy
  BY <1>1, <1>2 DEF Busy
<1>4. Started' = Started
  BY RowsKept
<1>5. ASSUME NEW g \in Busy'
      PROVE  handler'[g] \in Handlings /\ HandlerFits(handler'[g])
             /\ handler'[g].bundle = handler[g].bundle
  <2>1. CASE g = h
    BY <1>2, <1>5, <2>1 DEF Busy
  <2>2. CASE g # h
    <3>1. g \in Busy /\ handler'[g] = handler[g] /\ g \in Handlers
      BY <1>2, <1>3, <2>2 DEF Busy
    <3> QED
      BY <1>1, <3>1 DEF Inv, HandlersFit, Busy
  <2> QED
    BY <2>1, <2>2
<1>6. ASSUME NEW w \in Handlings, HandlerFits(w)
      PROVE  HandlerFits(w)'
  <2>1. w.bundle \in Started /\ w.base \in 1..Len(plan)
    BY <1>6 DEF HandlerFits
  <2>2. bundle'[w.bundle].row = bundle[w.bundle].row /\ bundle'[w.bundle].key = bundle[w.bundle].key
    BY <2>1 DEF RowsStay
  <2>3. Passes(w.base, w.change)' = Passes(w.base, w.change)
    BY PlanStays
  <2> QED
    BY <1>4, <1>6, <2>1, <2>2, <2>3 DEF HandlerFits
<1>7. ASSUME NEW g \in Busy'
      PROVE  HandlerFits(handler[g])'
  <2>1. PICK w : w = handler'[g]
    OBVIOUS
  <2>2. w \in Handlings /\ HandlerFits(w)
    BY <1>5, <2>1
  <2>3. HandlerFits(w)'
    BY <1>6, <2>2
  <2> QED
    BY <2>1, <2>3 DEF HandlerFits
<1>8. \A f, g \in Busy' : handler'[f].bundle = handler'[g].bundle => f = g
  BY <1>3, <1>5 DEF Inv, HandlersFit
<1> QED
  BY <1>2, <1>7, <1>8 DEF HandlersFit

LEMMA HandlerFiles ==
  ASSUME Inv, RowsStay, Running, NEW h \in Busy, NEW x,
         handler' = [handler EXCEPT ![h] = x],
         \/ x = Idle
         \/ x.bundle = handler[h].bundle /\
            (x.step = "published" => bundle'[x.bundle].dir = "published"),
         \A b \in Started : b # handler[h].bundle => bundle'[b] = bundle[b],
         UNCHANGED <<plan, purge, quarantine, purged, strayed>>,
         faults' \in Nat, faults' >= faults
  PROVE  FilesFit'
<1> SUFFICES ASSUME ~strayed' PROVE Placed'
  BY DEF FilesFit
<1>1. KeptFiles /\ PurgedFiles /\ MovedFiles /\ RowsFit /\ PromotedFiles
  BY DEF Inv, FilesFit, Placed
<1>2. Started' = Started /\ Registered' = Registered
  BY RowsKept
<1>3. handler[h].bundle \in Started /\ bundle[handler[h].bundle].row = "none"
  BY DEF Inv, HandlersFit, HandlerFits
<1>4. purge = NoPurge /\ purge' = NoPurge
  BY DEF Running
<1>5. KeptFiles'
  BY <1>1, <1>2, <1>3, <1>4 DEF KeptFiles, Registered, Unfinished
<1>6. PurgedFiles'
  <2>1. faults > 0 => faults' > 0
    BY Constants DEF Inv, Types
  <2> QED
    BY <1>1, <1>2, <1>3, <1>4, <2>1 DEF PurgedFiles, In, RowsStay
<1>7. MovedFiles' /\ RowsFit'
  BY <1>1, <1>4 DEF MovedFiles, RowsFit, Unfinished, In
<1>8. PromotedFiles'
  <2> SUFFICES ASSUME NEW g \in Busy', handler'[g].step = "published"
               PROVE  bundle'[handler'[g].bundle].dir = "published"
    BY DEF PromotedFiles
  <2>1. CASE g = h
    BY <2>1 DEF Inv, Types, Busy
  <2>2. CASE g # h
    <3>1. g \in Busy /\ handler'[g] = handler[g]
      BY <2>2 DEF Inv, Types, Busy
    <3>2. handler[g].bundle # handler[h].bundle /\ handler[g].bundle \in Started
      BY <2>2, <3>1 DEF Inv, HandlersFit, HandlerFits
    <3> QED
      BY <1>1, <3>1, <3>2 DEF PromotedFiles
  <2> QED
    BY <2>1, <2>2
<1> QED
  BY <1>5, <1>6, <1>7, <1>8 DEF Placed

(* A change or an export goes on, or ends, and nothing but its directory is  *)
(* touched; what its key has come to may be recorded.                        *)
LEMMA HandlerTurn ==
  ASSUME Inv, RowsStay, Running, NEW h \in Busy, NEW x,
         handler' = [handler EXCEPT ![h] = x],
         \/ x = Idle
         \/ x \in Handlings /\ HandlerFits(x) /\ x.bundle = handler[h].bundle /\
            (x.step = "published" => bundle'[x.bundle].dir = "published"),
         \A b \in Started : b # handler[h].bundle => bundle'[b] = bundle[b],
         replays' \in [Keys -> Outcomes], OutcomesFit', KeysFit',
         UNCHANGED <<plan, purge, quarantine, purged, strayed, restarts>>,
         session' \in Sessions, SessionFits', SessionFollowsPlan',
         faults' \in 0..MaxFaults, faults' >= faults
  PROVE  Inv'
<1>1. HandlersFit' /\ handler' \in [Handlers -> Handlings \cup {Idle}]
  BY HandlersStay
<1>2. faults' \in Nat
  BY Constants
<1>3. FilesFit'
  BY <1>2, HandlerFiles
<1>4. IsPlan(plan)' /\ HistoryIsLinear' /\ RevisionsAreChecked'
  BY PlanStays
<1>6. Types'
  BY <1>1, <1>4 DEF Inv, Types, RowsStay
<1>7. RevisionsExist'
  BY RowsKept DEF Inv, RevisionsExist, RowsStay
<1>8. PurgeFits'
  BY DEF Inv, PurgeFits
<1>9. RowsExist'
  BY RowsKept, RowsRemain
<1> QED
  BY <1>1, <1>3, <1>4, <1>6, <1>7, <1>8, <1>9 DEF Inv

LEMMA FaultIs ==
  ASSUME Inv, Fault \/ NoFault
  PROVE  faults' \in 0..MaxFaults /\ faults' >= faults
BY Constants DEF Inv, Types, Fault, NoFault

LEMMA CatchIs ==
  ASSUME Inv, NEW h \in Busy, NEW counts \in BOOLEAN, Catch(h, counts)
  PROVE  \E x \in Handlings :
            /\ handler' = [handler EXCEPT ![h] = x] /\ HandlerFits(x)
            /\ x.bundle = handler[h].bundle /\ x.step = "removing"
<1>1. handler[h] \in Handlings /\ HandlerFits(handler[h])
  BY DEF Inv, Types, HandlersFit, Busy
<1>2. PICK x : x = [handler[h] EXCEPT !.step = "removing",
                                      !.counts = counts /\ handler[h].kind = "change"]
  OBVIOUS
<1>3. handler' = [handler EXCEPT ![h] = x]
  BY <1>2 DEF Catch
<1>4. /\ x \in Handlings /\ x.step = "removing" /\ x.bundle = handler[h].bundle
      /\ x.base = handler[h].base /\ x.key = handler[h].key /\ x.kind = handler[h].kind
      /\ x.change = handler[h].change
      /\ x.counts = (counts /\ handler[h].kind = "change")
  <2>1. (counts /\ handler[h].kind = "change") \in BOOLEAN
    OBVIOUS
  <2> QED
    BY <1>1, <1>2, <2>1 DEF Handlings
<1>5. HandlerFits(x)
  BY <1>1, <1>4 DEF HandlerFits, Waiting
<1> QED
  BY <1>3, <1>4, <1>5

LEMMA GoesIs ==
  ASSUME Inv, NEW h \in Busy, handler[h].step \in Waiting, NEW step \in Waiting, Goes(h, step)
  PROVE  \E x \in Handlings :
            /\ handler' = [handler EXCEPT ![h] = x] /\ HandlerFits(x)
            /\ x.bundle = handler[h].bundle /\ x.step = step
<1>1. handler[h] \in Handlings /\ HandlerFits(handler[h])
  BY DEF Inv, Types, HandlersFit, Busy
<1>2. PICK x : x = [handler[h] EXCEPT !.step = step]
  OBVIOUS
<1>3. handler' = [handler EXCEPT ![h] = x]
  BY <1>2 DEF Goes
<1>4. /\ x \in Handlings /\ x.step = step /\ x.bundle = handler[h].bundle
      /\ x.base = handler[h].base /\ x.key = handler[h].key /\ x.kind = handler[h].kind
      /\ x.change = handler[h].change /\ x.counts = handler[h].counts
  BY <1>1, <1>2 DEF Handlings
<1>5. HandlerFits(x)
  BY <1>1, <1>4 DEF HandlerFits
<1> QED
  BY <1>3, <1>4, <1>5

(* The steps before a transaction, and those that end in an error.           *)
LEMMA FileSteps ==
  ASSUME Inv, NEW h \in Handlers,
         Refuse(h) \/ Stage(h) \/ Promote(h) \/ CommitConflicts(h) \/ CommitFails(h)
  PROVE  Inv'
<1>1. PICK step \in Waiting : At(h, step)
  BY DEF Refuse, Stage, Promote, CommitConflicts, CommitFails, Waiting
<1>2. Running /\ h \in Busy /\ handler[h].bundle \in Started /\ handler[h].step \in Waiting
  BY <1>1, AtIs
<1>3. /\ UNCHANGED <<plan, replays, session, purge, quarantine, purged, strayed, restarts>>
      /\ Fault \/ NoFault
  BY DEF Refuse, Stage, Promote, CommitConflicts, CommitFails, NoFault
<1>4. faults' \in 0..MaxFaults /\ faults' >= faults
  BY <1>3, FaultIs
<1>5. ASSUME NEW x \in Handlings, handler' = [handler EXCEPT ![h] = x], HandlerFits(x),
             x.bundle = handler[h].bundle, RowsStay,
             x.step = "published" => bundle'[x.bundle].dir = "published",
             \A b \in Started : b # handler[h].bundle => bundle'[b] = bundle[b]
      PROVE  Inv'
  <2>1. replays' \in [Keys -> Outcomes] /\ OutcomesFit' /\ KeysFit'
    BY <1>3, <1>5, RecordsStay DEF Inv, Types
  <2>2. session' \in Sessions /\ SessionFits' /\ SessionFollowsPlan'
    BY <1>3, <1>4, <1>5, SessionStays, Constants DEF Inv, Types
  <2> QED
    BY <1>2, <1>3, <1>4, <1>5, <2>1, <2>2, HandlerTurn
<1>6. CASE bundle' = bundle /\ \E counts \in BOOLEAN : Catch(h, counts)
  BY <1>2, <1>5, <1>6, CatchIs, SameRows
<1>7. CASE SetDir(handler[h].bundle, "staging")
           /\ (Goes(h, "staged") \/ \E counts \in BOOLEAN : Catch(h, counts))
  BY <1>2, <1>5, <1>7, CatchIs, GoesIs, SetDirIs DEF Dirs, Waiting
<1>8. CASE SetDir(handler[h].bundle, "published") /\ Goes(h, "published")
  BY <1>2, <1>5, <1>8, GoesIs, SetDirIs DEF Dirs, Waiting
<1> QED
  BY <1>6, <1>7, <1>8 DEF Refuse, Stage, Promote, CommitConflicts, CommitFails

(* A failure is counted, unless the key has come to something else.          *)
LEMMA RecordFailureIs ==
  ASSUME Inv, NEW h \in Busy, handler[h].counts, RowsStay, RecordFailure(h)
  PROVE  replays' \in [Keys -> Outcomes] /\ OutcomesFit' /\ KeysFit'
<1>1. PICK w : w = handler[h]
  OBVIOUS
<1>2. w \in Handlings /\ HandlerFits(w) /\ w.counts
  BY <1>1 DEF Inv, Types, HandlersFit, Busy
<1>3. w.key \in Keys /\ w.change \in Changes /\ w.base \in Nat
  BY <1>2 DEF HandlerFits, Handlings
<1>4. Registered' = Registered
  BY RowsKept
<1>5. replays \in [Keys -> Outcomes] /\ OutcomesFit /\ KeysFit
  BY DEF Inv, Types
<1>6. CASE replays' = replays
  BY <1>4, <1>5, <1>6 DEF OutcomesFit, KeysFit, RowsStay, Registered
<1>7. CASE replays' # replays
  <2>1. PICK x : x = [status |-> IF replays[w.key].failures + 1 >= MaxFailures
                                 THEN "failed_final" ELSE "failed",
                      failures |-> replays[w.key].failures + 1, bundle |-> 0,
                      request |-> Request(w.base, w.change)]
    OBVIOUS
  <2>2. /\ replays' = [replays EXCEPT ![w.key] = x]
        /\ replays[w.key].status \in {"none", "failed"}
    BY <1>1, <1>7, <2>1 DEF RecordFailure
  <2>3. replays[w.key] \in Outcomes /\ replays[w.key].failures < MaxFailures
    BY <1>3, <1>5, <2>2 DEF OutcomesFit
  <2>4. Request(w.base, w.change) \in AllRequests
    BY <1>3 DEF Request, AllRequests
  <2>5. /\ x \in Outcomes /\ x.status \in {"failed", "failed_final"}
        /\ x.failures <= MaxFailures
        /\ x.status = "failed" => x.failures < MaxFailures
    <3>1. replays[w.key].failures \in Nat
      BY <2>3 DEF Outcomes
    <3>2. x.failures = replays[w.key].failures + 1 /\ x.request \in AllRequests /\ x.bundle = 0
      BY <2>1, <2>4
    <3>3. x.status = IF replays[w.key].failures + 1 >= MaxFailures
                     THEN "failed_final" ELSE "failed"
      BY <2>1
    <3>4. x.status \in {"failed", "failed_final"}
      BY <3>3
    <3>5. x \in Outcomes
      BY <2>1, <3>1, <3>2, <3>4 DEF Outcomes
    <3> QED
      BY <2>3, <3>1, <3>2, <3>3, <3>4, <3>5, Constants
  <2>6. replays' \in [Keys -> Outcomes] /\ replays'[w.key] = x
        /\ \A k \in Keys : k # w.key => replays'[k] = replays[k]
    BY <1>3, <1>5, <2>2, <2>5
  <2>7. OutcomesFit'
    BY <1>4, <1>5, <2>5, <2>6 DEF OutcomesFit
  <2>8. KeysFit'
    BY <1>4, <1>5, <2>2, <2>6 DEF KeysFit, RowsStay, Registered
  <2> QED
    BY <2>6, <2>7, <2>8
<1> QED
  BY <1>6, <1>7

LEMMA RemoveInv ==
  ASSUME Inv, NEW h \in Handlers, Remove(h)
  PROVE  Inv'
<1>1. Running /\ h \in Busy /\ handler[h].bundle \in Started
  BY AtIs DEF Remove
<1>2. /\ UNCHANGED <<plan, session, purge, quarantine, purged, strayed, restarts>>
      /\ handler' = [handler EXCEPT ![h] = Idle] /\ (Fault \/ NoFault)
      /\ SetDir(handler[h].bundle, "none") \/ bundle' = bundle
      /\ (handler[h].counts /\ RecordFailure(h)) \/ replays' = replays
  BY DEF Remove, Rest
<1>3. RowsStay /\ \A b \in Started : b # handler[h].bundle => bundle'[b] = bundle[b]
  BY <1>1, <1>2, SetDirIs, SameRows DEF Dirs
<1>4. replays' \in [Keys -> Outcomes] /\ OutcomesFit' /\ KeysFit'
  BY <1>1, <1>2, <1>3, RecordFailureIs, RecordsStay DEF Inv, Types
<1>5. faults' \in 0..MaxFaults /\ faults' >= faults
  BY <1>2, FaultIs
<1>6. session' \in Sessions /\ SessionFits' /\ SessionFollowsPlan'
  BY <1>2, <1>3, <1>5, SessionStays, Constants DEF Inv, Types
<1> QED
  BY <1>1, <1>2, <1>3, <1>4, <1>5, <1>6, HandlerTurn

-----------------------------------------------------------------------------
(* The transactions of changes and exports.                                 *)

LEMMA PassesLater ==
  ASSUME NEW base, NEW change, plan'[base] = plan[base]
  PROVE  Passes(base, change)' = Passes(base, change)
BY DEF Passes

(* The plan keeps its revisions, and may get one more.                       *)
PlanGrows ==
    /\ IsPlan(plan)' /\ Len(plan') >= Len(plan)
    /\ \A r \in 1..Len(plan) : plan'[r] = plan[r]

(* One bundle is registered with a revision.                                 *)
Registers(b, revision) ==
    /\ bundle' \in Seq(Bundles) /\ Len(bundle') = Len(bundle)
    /\ \A c \in Started : c # b => bundle'[c] = bundle[c]
    /\ bundle'[b].row = "kept" /\ bundle'[b].revision = revision
    /\ bundle'[b].key = bundle[b].key /\ bundle'[b].dir = bundle[b].dir

LEMMA RegisterIs ==
  ASSUME Inv, NEW w \in Handlings, HandlerFits(w), Target(w) \in Nat, Register(w)
  PROVE  Registers(w.bundle, Target(w))
<1>1. PICK b : b = w.bundle
  OBVIOUS
<1>2. PICK x : x = [bundle[b] EXCEPT !.row = "kept", !.revision = Target(w)]
  OBVIOUS
<1>3. b \in 1..Len(bundle) /\ bundle[b] \in Bundles /\ bundle \in Seq(Bundles)
  BY <1>1, Sequences DEF HandlerFits, Inv, Types
<1>4. x \in Bundles /\ x.row = "kept" /\ x.revision = Target(w) /\ x.key = bundle[b].key
      /\ x.dir = bundle[b].dir
  BY <1>2, <1>3 DEF Bundles, Rows
<1>5. bundle' = [bundle EXCEPT ![b] = x]
  BY <1>1, <1>2, <1>3 DEF Register
<1>6. /\ bundle' \in Seq(Bundles) /\ Len(bundle') = Len(bundle)
      /\ \A c \in 1..Len(bundle) : bundle'[c] = IF c = b THEN x ELSE bundle[c]
  BY <1>3, <1>4, <1>5
<1> QED
  BY <1>1, <1>3, <1>4, <1>6 DEF Registers, Started

LEMMA RegisteredGrows ==
  ASSUME Inv, NEW b \in Started, NEW revision, Registers(b, revision)
  PROVE  Started' = Started /\ Registered' = Registered \cup {b}
BY DEF Registers, Started, Registered

LEMMA CommitTurn ==
  ASSUME Inv, PlanGrows, NEW h \in Handlers, At(h, "published"),
         NEW revision \in 1..Len(plan'), Registers(handler[h].bundle, revision),
         handler' = [handler EXCEPT ![h] = Idle],
         UNCHANGED <<purge, quarantine, purged, strayed, restarts>>,
         faults' \in 0..MaxFaults, faults' >= faults
  PROVE  /\ HandlersFit' /\ FilesFit' /\ RevisionsExist' /\ PurgeFits'
         /\ replays' \in [Keys -> Outcomes] /\ session' \in Sessions => Types'
<1>1. PICK b : b = handler[h].bundle
  OBVIOUS
<1>2. /\ Running /\ h \in Busy /\ handler[h] \in Handlings /\ HandlerFits(handler[h])
      /\ b \in Started /\ bundle[b].row = "none"
  BY <1>1, AtIs DEF HandlerFits
<1>3. Registers(b, revision)
  BY <1>1
<1>4. Started' = Started /\ Registered' = Registered \cup {b}
  BY <1>2, <1>3, RegisteredGrows
<1>5. /\ handler' \in [Handlers -> Handlings \cup {Idle}] /\ Busy' = Busy \ {h}
      /\ \A g \in Busy' : handler'[g] = handler[g]
  BY <1>2 DEF Inv, Types, Busy
<1>6. ASSUME NEW g \in Busy'
      PROVE  HandlerFits(handler[g])'
  <2>1. PICK w : w = handler[g]
    OBVIOUS
  <2>2. w \in Handlings /\ HandlerFits(w) /\ w.bundle # b /\ handler'[g] = w
    BY <1>1, <1>2, <1>5, <2>1 DEF Inv, Types, HandlersFit, Busy
  <2>3. bundle'[w.bundle] = bundle[w.bundle] /\ w.base \in 1..Len(plan')
    BY <1>3, <2>2, Sequences DEF HandlerFits, Registers, PlanGrows, IsPlan
  <2>4. plan'[w.base] = plan[w.base]
    BY <2>2 DEF HandlerFits, PlanGrows
  <2>5. Passes(w.base, w.change)' = Passes(w.base, w.change)
    BY <2>4, PassesLater
  <2>6. HandlerFits(w)'
    BY <1>4, <2>2, <2>3, <2>5 DEF HandlerFits
  <2> QED
    BY <2>2, <2>6 DEF HandlerFits
<1>7. HandlersFit'
  BY <1>5, <1>6 DEF Inv, HandlersFit
<1>8. RevisionsExist'
  <2>1. Len(plan') \in Nat /\ Len(plan') > 0
    BY Sequences DEF PlanGrows, IsPlan
  <2>2. \A c \in Started : bundle'[c].revision \in 1..Len(plan')
    BY <1>3, <2>1, Sequences DEF Inv, RevisionsExist, Registers, PlanGrows
  <2> QED
    BY <1>4, <2>1, <2>2 DEF RevisionsExist
<1>9. FilesFit'
  <2> SUFFICES ASSUME ~strayed' PROVE Placed'
    BY DEF FilesFit
  <2>1. KeptFiles /\ PurgedFiles /\ MovedFiles /\ RowsFit /\ PromotedFiles
    BY DEF Inv, FilesFit, Placed
  <2>2. purge = NoPurge /\ purge' = NoPurge
    BY <1>2 DEF Running
  <2>3. bundle[b].dir = "published"
    BY <1>1, <1>2, <2>1 DEF PromotedFiles, At
  <2>4. KeptFiles'
    BY <1>2, <1>3, <1>4, <2>1, <2>2, <2>3 DEF KeptFiles, Registered, Registers, Unfinished
  <2>5. PurgedFiles'
    <3>1. faults > 0 => faults' > 0
      BY Constants DEF Inv, Types
    <3> QED
      BY <1>3, <1>4, <2>1, <2>2, <3>1 DEF PurgedFiles, Registers, In
  <2>6. MovedFiles' /\ RowsFit'
    BY <2>1, <2>2 DEF MovedFiles, RowsFit, Unfinished, In
  <2>7. PromotedFiles'
    <3> SUFFICES ASSUME NEW g \in Busy', handler'[g].step = "published"
                 PROVE  bundle'[handler'[g].bundle].dir = "published"
      BY DEF PromotedFiles
    <3>1. g \in Busy /\ g # h /\ handler'[g] = handler[g]
      BY <1>5
    <3>2. handler[g].bundle # b /\ handler[g].bundle \in Started
      BY <1>1, <1>2, <3>1 DEF Inv, HandlersFit, HandlerFits
    <3> QED
      BY <1>3, <2>1, <3>1, <3>2 DEF PromotedFiles, Registers
  <2> QED
    BY <2>4, <2>5, <2>6, <2>7 DEF Placed
<1>10. PurgeFits'
  BY DEF Inv, PurgeFits
<1>11. replays' \in [Keys -> Outcomes] /\ session' \in Sessions => Types'
  BY <1>3, <1>5 DEF Inv, Types, Registers, PlanGrows
<1> QED
  BY <1>7, <1>8, <1>9, <1>10, <1>11

LEMMA CommitExportInv ==
  ASSUME Inv, NEW h \in Handlers, CommitExport(h)
  PROVE  Inv'
<1>1. PICK w : w = handler[h]
  OBVIOUS
<1>2. /\ At(h, "published") /\ w.kind = "export" /\ w.base = Len(plan) /\ Register(w)
      /\ handler' = [handler EXCEPT ![h] = Idle]
      /\ UNCHANGED <<plan, replays, session, purge, quarantine, purged, strayed, restarts, faults>>
  BY <1>1 DEF CommitExport, Rest, Current
<1>3. /\ w \in Handlings /\ HandlerFits(w) /\ w.key = NoReplay /\ w.change = NoReplay
      /\ w.bundle \in Started /\ bundle[w.bundle].key = NoReplay /\ h \in Busy
  BY <1>1, <1>2, AtIs DEF HandlerFits
<1>4. Target(w) = Len(plan) /\ Target(w) \in Nat
  BY <1>2, <1>3, Sequences DEF Target, MakesRevision
<1>5. Registers(w.bundle, Len(plan))
  BY <1>2, <1>3, <1>4, RegisterIs
<1>6. IsPlan(plan)' /\ HistoryIsLinear' /\ RevisionsAreChecked'
  BY <1>2, PlanStays
<1>7. PlanGrows /\ Len(plan) \in 1..Len(plan')
  BY <1>2, <1>6, Sequences DEF PlanGrows
<1>8. faults' \in 0..MaxFaults /\ faults' >= faults
  BY <1>2, FaultIs DEF NoFault
<1>9. HandlersFit' /\ FilesFit' /\ RevisionsExist' /\ PurgeFits' /\ Types'
  BY <1>1, <1>2, <1>5, <1>7, <1>8, CommitTurn DEF Inv, Types
<1>10. Started' = Started /\ Registered' = Registered \cup {w.bundle}
  BY <1>3, <1>5, RegisteredGrows
<1>11. OutcomesFit'
  BY <1>2, <1>10 DEF Inv, OutcomesFit
<1>12. KeysFit'
  <2>1. bundle'[w.bundle].key = NoReplay
    BY <1>3, <1>5 DEF Registers
  <2>2. \A b \in Registered : b # w.bundle => bundle'[b] = bundle[b]
    BY <1>5 DEF Registers, Registered
  <2> QED
    BY <1>2, <1>10, <2>1, <2>2 DEF Inv, KeysFit
<1>13. SessionFits' /\ SessionFollowsPlan'
  BY <1>2, <1>5, <1>10 DEF Inv, SessionFits, SessionFollowsPlan, Registers, Current
<1>14. RowsExist'
  BY <1>2, <1>10, RowsRemain
<1> QED
  BY <1>6, <1>9, <1>11, <1>12, <1>13, <1>14 DEF Inv

LEMMA PlanAppends ==
  ASSUME Inv, NEW e, IsRevision(e), plan' = Append(plan, e)
  PROVE  PlanGrows /\ Len(plan') = Len(plan) + 1 /\ plan'[Len(plan) + 1] = e
<1>1. PICK S : S = Elements(plan) \cup {e}
  OBVIOUS
<1>2. plan \in Seq(S) /\ e \in S
  BY <1>1 DEF Inv, Types, IsPlan
<1>3. /\ plan' \in Seq(S) /\ Len(plan') = Len(plan) + 1 /\ plan'[Len(plan) + 1] = e
      /\ \A r \in 1..Len(plan) : plan'[r] = plan[r]
  BY <1>2
<1>4. plan' \in Seq(Elements(plan'))
  BY <1>3, OwnElements
<1>5. \A r \in 1..Len(plan') : IsRevision(plan'[r])
  BY <1>3, Sequences
<1> QED
  BY <1>3, <1>4, <1>5, Sequences DEF PlanGrows, IsPlan, IsRevision, Elements

(* A change is accepted: a revision that was reviewed follows the last one.  *)
LEMMA CommitPlan ==
  ASSUME Inv, NEW w \in Handlings, HandlerFits(w), w.kind = "change", w.step = "published",
         w.base = Len(plan),
         plan' = IF MakesRevision(w) THEN Append(plan, Revision(w)) ELSE plan
  PROVE  PlanGrows /\ HistoryIsLinear' /\ RevisionsAreChecked' /\ Target(w) = Len(plan')
<1>1. /\ w.change \in Changes /\ w.change # NoReplay /\ Passes(w.base, w.change)
      /\ w.base \in 1..Len(plan) /\ Len(plan) \in Nat
  BY Constants, Sequences DEF HandlerFits, Waiting
<1>2. CASE ~MakesRevision(w)
  <2>1. plan' = plan
    BY <1>2
  <2>2. Target(w) = Len(plan')
    BY <1>2, <2>1 DEF Target
  <2>3. PlanGrows
    BY <1>1, <2>1, PlanStays DEF PlanGrows
  <2> QED
    BY <2>1, <2>2, <2>3, PlanStays
<1>3. CASE MakesRevision(w)
  <2>1. PICK e : e = Revision(w)
    OBVIOUS
  <2>2. /\ e.base = w.base /\ e.change = w.change
        /\ e.lesson = Candidate(plan[w.base].lesson, w.change) /\ IsRevision(e)
    BY <1>1, <2>1 DEF Revision, IsRevision
  <2>3. PlanGrows /\ Len(plan') = Len(plan) + 1 /\ plan'[Len(plan) + 1] = e
    BY <1>3, <2>1, <2>2, PlanAppends
  <2>4. Target(w) = Len(plan')
    BY <1>3, <2>3 DEF Target, Current
  <2>5. \A r \in 1..Len(plan) : plan'[r] = plan[r] /\ plan[r].base = r - 1
    BY <2>3, Sequences DEF PlanGrows, Inv, HistoryIsLinear
  <2>6. DOMAIN plan' = 1..Len(plan) + 1
    BY <2>3 DEF PlanGrows, IsPlan
  <2>7. HistoryIsLinear'
    BY <1>1, <2>2, <2>3, <2>5, <2>6 DEF HistoryIsLinear
  <2>8. ASSUME NEW r \in 1..Len(plan'), plan'[r].base > 0
        PROVE  IsReviewed(plan'[plan'[r].base].lesson, plan'[r].change, plan'[r].lesson)
    <3>1. CASE r = Len(plan) + 1
      <4>1. plan'[r] = e /\ plan'[w.base] = plan[w.base]
        BY <1>1, <2>3, <2>5, <3>1
      <4> QED
        BY <1>1, <2>2, <4>1 DEF Passes, IsReviewed
    <3>2. CASE r \in 1..Len(plan)
      <4>1. PICK b : b = r - 1
        OBVIOUS
      <4>2. plan'[r] = plan[r] /\ plan[r].base = b /\ b \in 1..Len(plan)
        BY <1>1, <2>5, <2>8, <3>2, <4>1
      <4>3. plan'[b] = plan[b]
        BY <2>5, <4>2
      <4> QED
        BY <2>8, <3>2, <4>2, <4>3 DEF Inv, RevisionsAreChecked
    <3>3. r = Len(plan) + 1 \/ r \in 1..Len(plan)
      <4>1. PICK n : n = Len(plan) /\ n \in Nat
        BY <1>1
      <4>2. r \in 1..(n + 1)
        BY <2>3, <4>1
      <4> QED
        BY <4>1, <4>2
    <3> QED
      BY <3>1, <3>2, <3>3
  <2>9. RevisionsAreChecked'
    BY <2>8 DEF RevisionsAreChecked
  <2> QED
    BY <2>3, <2>4, <2>7, <2>9
<1> QED
  BY <1>2, <1>3

LEMMA CommitChangeInv ==
  ASSUME Inv, NEW h \in Handlers, CommitChange(h)
  PROVE  Inv'
<1>1. PICK w : w = handler[h]
  OBVIOUS
<1>2. PICK x : x = [status |-> "succeeded", failures |-> replays[w.key].failures,
                    bundle |-> w.bundle, request |-> Request(w.base, w.change)]
  OBVIOUS
<1>3. /\ At(h, "published") /\ w.kind = "change" /\ IsAcceptable(w) /\ Register(w)
      /\ plan' = IF MakesRevision(w) THEN Append(plan, Revision(w)) ELSE plan
      /\ handler' = [handler EXCEPT ![h] = Idle]
      /\ replays' = [replays EXCEPT ![w.key] = x]
      /\ (NoFault /\ Sync(w.base, Target(w), w.bundle)) \/ (Fault /\ session' = session)
      /\ UNCHANGED <<purge, quarantine, purged, strayed, restarts>>
  BY <1>1, <1>2 DEF CommitChange, Rest
<1>4. /\ w \in Handlings /\ HandlerFits(w) /\ w.key \in Keys /\ w.change \in Changes
      /\ w.bundle \in Started /\ bundle[w.bundle].key = w.key /\ h \in Busy
      /\ w.step = "published"
  BY <1>1, <1>3, AtIs DEF HandlerFits
<1>5. w.base = Len(plan) /\ replays[w.key].status \in {"none", "failed"}
  BY <1>3 DEF IsAcceptable, Current
<1>6. PlanGrows /\ HistoryIsLinear' /\ RevisionsAreChecked' /\ Target(w) = Len(plan')
  BY <1>3, <1>4, <1>5, CommitPlan
<1>7. Len(plan') \in 1..Len(plan') /\ Len(plan') \in Nat
  BY <1>6, Sequences DEF PlanGrows, IsPlan
<1>8. Registers(w.bundle, Len(plan'))
  BY <1>3, <1>4, <1>6, <1>7, RegisterIs
<1>9. faults' \in 0..MaxFaults /\ faults' >= faults
  BY <1>3, FaultIs
<1>10. Started' = Started /\ Registered' = Registered \cup {w.bundle}
  BY <1>4, <1>8, RegisteredGrows
<1>11. /\ x \in Outcomes /\ x.status = "succeeded" /\ x.bundle = w.bundle
       /\ x.failures = replays[w.key].failures
  <2>1. replays[w.key] \in Outcomes
    BY <1>4 DEF Inv, Types
  <2>2. Request(w.base, w.change) \in AllRequests /\ w.bundle \in Nat
    BY <1>4 DEF Request, AllRequests, Handlings
  <2> QED
    BY <1>2, <2>1, <2>2 DEF Outcomes
<1>12. /\ replays' \in [Keys -> Outcomes] /\ replays'[w.key] = x
       /\ \A k \in Keys : k # w.key => replays'[k] = replays[k]
  BY <1>3, <1>4, <1>11 DEF Inv, Types
<1>13. OutcomesFit'
  BY <1>4, <1>10, <1>11, <1>12 DEF Inv, OutcomesFit
<1>14. KeysFit'
  <2>1. bundle'[w.bundle].key = w.key
    BY <1>4, <1>8 DEF Registers
  <2>2. \A b \in Registered : b # w.bundle => bundle'[b] = bundle[b]
    BY <1>8 DEF Registers, Registered
  <2>3. \A b \in Registered : bundle[b].key # NoReplay => bundle[b].key # w.key
    BY <1>5 DEF Inv, KeysFit
  <2> QED
    BY <1>4, <1>10, <1>11, <1>12, <2>1, <2>2, <2>3 DEF Inv, KeysFit
<1>15. session' \in Sessions /\ SessionFits' /\ SessionFollowsPlan'
  <2>1. session \in Sessions /\ w.bundle \in Nat /\ faults \in Nat
    BY <1>4, Constants DEF Inv, Types, Handlings
  <2>2. CASE Fault /\ session' = session
    <3>1. faults' # 0
      BY <2>1, <2>2 DEF Fault
    <3> QED
      BY <1>10, <2>1, <2>2, <3>1 DEF Inv, SessionFits, SessionFollowsPlan
  <2>3. CASE NoFault /\ Sync(w.base, Target(w), w.bundle)
                     /\ session.status = "EXPORTED" /\ session.revision = w.base
    <3>1. bundle'[w.bundle].row = "kept" /\ bundle'[w.bundle].revision = Len(plan')
      BY <1>8 DEF Registers
    <3>2. session' = [session EXCEPT !.revision = Len(plan'), !.bundle = w.bundle]
      BY <1>6, <2>3, <3>1 DEF Sync, Synced
    <3>3. /\ session' \in Sessions /\ session'.revision = Len(plan')
          /\ session'.bundle = w.bundle
      BY <1>7, <2>1, <3>2 DEF Sessions
    <3> QED
      BY <1>4, <1>10, <3>1, <3>3 DEF SessionFits, SessionFollowsPlan, Current
  <2>4. CASE NoFault /\ Sync(w.base, Target(w), w.bundle)
                     /\ ~(session.status = "EXPORTED" /\ session.revision = w.base)
    <3>1. session' = session /\ faults' = faults
      BY <2>4 DEF Sync, Synced, NoFault
    <3>2. ~(session.status = "EXPORTED" /\ faults = 0 /\ restarts = 0)
      BY <1>5, <2>4 DEF Inv, SessionFollowsPlan, Current
    <3> QED
      BY <1>3, <1>10, <2>1, <3>1, <3>2 DEF Inv, SessionFits, SessionFollowsPlan
  <2> QED
    BY <1>3, <2>2, <2>3, <2>4
<1>16. HandlersFit' /\ FilesFit' /\ RevisionsExist' /\ PurgeFits' /\ Types'
  BY <1>1, <1>3, <1>6, <1>7, <1>8, <1>9, <1>12, <1>15, CommitTurn
<1>17. RowsExist'
  BY <1>3, <1>10, RowsRemain
<1> QED
  BY <1>6, <1>13, <1>14, <1>15, <1>16, <1>17 DEF Inv

-----------------------------------------------------------------------------
(* The session.                                                             *)

LEMMA SyncKeeps ==
  ASSUME Inv, plan' = plan, bundle' = bundle, NEW b \in Registered, NEW base,
         Sync(base, bundle[b].revision, b), faults' = faults, restarts' = restarts
  PROVE  session' \in Sessions /\ SessionFits' /\ SessionFollowsPlan'
<1>1. session \in Sessions /\ bundle[b].revision \in Nat /\ b \in Nat /\ b \in Started
  <2>1. b \in Started
    BY DEF Registered
  <2>2. bundle[b] \in Bundles /\ b \in Nat
    BY <2>1, Sequences
  <2> QED
    BY <2>1, <2>2 DEF Inv, Types, Bundles
<1>2. Started' = Started
  BY DEF Started
<1>3. CASE session' = session
  BY <1>1, <1>2, <1>3 DEF Inv, SessionFits, SessionFollowsPlan, Current
<1>4. CASE /\ session' = [session EXCEPT !.revision = bundle[b].revision, !.bundle = b]
           /\ bundle[b].revision = Len(plan)
  <2>1. /\ session' \in Sessions /\ session'.revision = bundle[b].revision
        /\ session'.bundle = b
    BY <1>1, <1>4 DEF Sessions
  <2> QED
    BY <1>1, <1>2, <1>4, <2>1 DEF SessionFits, SessionFollowsPlan, Current
<1> QED
  BY <1>3, <1>4 DEF Sync, Synced

LEMMA SessionTurn ==
  ASSUME Inv, UNCHANGED <<plan, bundle, replays, handler, purge, quarantine, purged, strayed,
                          restarts, faults>>,
         session' \in Sessions, SessionFits', SessionFollowsPlan'
  PROVE  Inv'
<1>1. IsPlan(plan)' /\ HistoryIsLinear' /\ RevisionsAreChecked'
  BY PlanStays
<1>2. RevisionsExist' /\ OutcomesFit' /\ KeysFit'
  BY SameRows, RecordsStay
<1>3. Started' = Started /\ Registered' = Registered /\ Busy' = Busy
  BY DEF Started, Registered, Busy
<1>4. HandlersFit'
  <2>1. \A base, change : Passes(base, change)' = Passes(base, change)
    BY PlanStays
  <2> QED
    BY <1>3, <2>1 DEF Inv, HandlersFit, HandlerFits
<1>5. FilesFit' /\ PurgeFits'
  BY <1>3 DEF Inv, FilesFit, Placed, KeptFiles, PurgedFiles, MovedFiles, RowsFit, PromotedFiles,
     Unfinished, In, Dependent, PurgeFits
<1>6. Types'
  BY <1>1 DEF Inv, Types
<1>7. RowsExist'
  BY <1>3, RowsRemain
<1> QED
  BY <1>1, <1>2, <1>4, <1>5, <1>6, <1>7 DEF Inv

LEMMA CommitReplaysInv ==
  ASSUME Inv, NEW h \in Handlers, CommitReplays(h)
  PROVE  Inv'
<1>1. PICK w : w = handler[h]
  OBVIOUS
<1>2. PICK b : b = replays[w.key].bundle
  OBVIOUS
<1>3. /\ At(h, "published") /\ w.kind = "change" /\ replays[w.key].status = "succeeded"
      /\ handler' = [handler EXCEPT ![h] = Idle] /\ Sync(w.base, bundle[b].revision, b)
      /\ UNCHANGED <<plan, bundle, replays, purge, quarantine, purged, strayed, restarts, faults>>
  BY <1>1, <1>2 DEF CommitReplays, Rest
<1>4. Running /\ h \in Busy /\ w.key \in Keys
  BY <1>1, <1>3, AtIs DEF HandlerFits
<1>5. b \in Registered
  BY <1>2, <1>3, <1>4 DEF Inv, OutcomesFit
<1>6. session' \in Sessions /\ SessionFits' /\ SessionFollowsPlan'
  BY <1>3, <1>5, SyncKeeps
<1>7. RowsStay /\ replays' \in [Keys -> Outcomes] /\ OutcomesFit' /\ KeysFit'
  BY <1>3, SameRows, RecordsStay DEF Inv, Types
<1>8. faults' \in 0..MaxFaults /\ faults' >= faults
  BY <1>3, FaultIs DEF NoFault
<1> QED
  BY <1>3, <1>4, <1>6, <1>7, <1>8, HandlerTurn

LEMMA SessionSteps ==
  ASSUME Inv, SaveContext \/ Rebuild \/ \E key \in Keys : Replay(key)
  PROVE  Inv'
<1>1. UNCHANGED <<plan, bundle, replays, handler, purge, quarantine, purged, strayed,
                  restarts, faults>>
  BY DEF SaveContext, Rebuild, Replay
<1>2. session' \in Sessions /\ SessionFits' /\ SessionFollowsPlan'
  <2>1. CASE SaveContext
    <3>1. session' = [session EXCEPT !.status = "PLAN_REVIEW", !.bundle = 0] /\ session \in Sessions
      BY <2>1 DEF SaveContext, Inv, Types
    <3>2. session' \in Sessions /\ session'.status = "PLAN_REVIEW"
      BY <3>1 DEF Sessions
    <3> QED
      BY <3>2 DEF SessionFits, SessionFollowsPlan
  <2>2. CASE Rebuild
    BY <2>2 DEF Rebuild, Sessions, SessionFits, SessionFollowsPlan
  <2>3. ASSUME NEW key \in Keys, Replay(key)
        PROVE  session' \in Sessions /\ SessionFits' /\ SessionFollowsPlan'
    <3>1. PICK b : b = replays[key].bundle
      OBVIOUS
    <3>2. PICK base : base = replays[key].request.base
      OBVIOUS
    <3>3. replays[key].status = "succeeded" /\ Sync(base, bundle[b].revision, b)
      BY <2>3, <3>1, <3>2 DEF Replay
    <3>4. b \in Registered
      BY <3>1, <3>3 DEF Inv, OutcomesFit
    <3> QED
      BY <1>1, <3>3, <3>4, SyncKeeps
  <2> QED
    BY <2>1, <2>2, <2>3
<1> QED
  BY <1>1, <1>2, SessionTurn

-----------------------------------------------------------------------------
(* A change or an export begins.                                            *)

LEMMA BeginInv ==
  ASSUME Inv, Running, NEW h \in Handlers, handler[h] = Idle,
         NEW w \in Handlings, w.bundle = Len(bundle) + 1, w.base \in 1..Len(plan),
         w.kind = "change" => w.key \in Keys /\ w.change \in Changes,
         w.kind = "export" => w.key = NoReplay /\ w.change = NoReplay /\ ~w.counts,
         w.kind = "change" /\ w.step \in Waiting => Passes(w.base, w.change),
         w.step # "published", Begin(h, w),
         UNCHANGED <<plan, replays, session, purge, quarantine, purged, strayed, restarts, faults>>
  PROVE  Inv'
<1>1. PICK n : n = Len(bundle) + 1
  OBVIOUS
<1>2. PICK new : new = [NewBundle EXCEPT !.revision = w.base, !.key = w.key]
  OBVIOUS
<1>3. Len(bundle) < MaxBundles /\ bundle' = Append(bundle, new)
      /\ handler' = [handler EXCEPT ![h] = w]
  BY <1>2 DEF Begin
<1>4. /\ new \in Bundles /\ new.row = "none" /\ new.revision = w.base /\ new.key = w.key
  <2>1. w.base \in Nat /\ w.key \in Keys \cup {NoReplay}
    BY DEF Handlings
  <2>2. PICK revision \in Nat : revision = w.base
    BY <2>1
  <2>3. PICK key \in Keys \cup {NoReplay} : key = w.key
    BY <2>1
  <2>4. new = [NewBundle EXCEPT !.revision = revision, !.key = key]
    BY <1>2, <2>2, <2>3
  <2>5. /\ new \in Bundles /\ new.row = "none" /\ new.revision = revision /\ new.key = key
    BY <2>4 DEF NewBundle, Bundles, Rows, Dirs
  <2> QED
    BY <2>2, <2>3, <2>5
<1>5. /\ bundle' \in Seq(Bundles) /\ Len(bundle') = n /\ bundle'[n] = new
      /\ \A b \in Started : bundle'[b] = bundle[b]
  BY <1>1, <1>3, <1>4, Sequences DEF Inv, Types
<1>6. Started' = Started \cup {n} /\ n \notin Started
  <2>1. PICK m : m = Len(bundle) /\ m \in Nat
    BY Sequences
  <2>2. Started = 1..m /\ Started' = 1..(m + 1) /\ n = m + 1
    BY <1>1, <1>5, <2>1 DEF Started
  <2> QED
    BY <2>1, <2>2
<1>7. Registered' = Registered
  BY <1>4, <1>5, <1>6 DEF Registered
<1>8. /\ handler' \in [Handlers -> Handlings \cup {Idle}] /\ handler'[h] = w
      /\ Busy' = Busy \cup {h} /\ h \notin Busy
      /\ \A g \in Busy : handler'[g] = handler[g]
  BY <1>3, IdleIs DEF Inv, Types, Busy
<1>9. IsPlan(plan)' /\ HistoryIsLinear' /\ RevisionsAreChecked'
      /\ \A base, change : Passes(base, change)' = Passes(base, change)
  BY PlanStays
<1>10. ASSUME NEW g \in Busy'
       PROVE  HandlerFits(handler[g])'
  <2>1. PICK v : v = handler'[g]
    OBVIOUS
  <2>2. HandlerFits(v)'
    <3>1. CASE g = h
      BY <1>1, <1>4, <1>5, <1>6, <1>8, <1>9, <2>1, <3>1 DEF HandlerFits
    <3>2. CASE g # h
      <4>1. g \in Busy /\ v = handler[g] /\ HandlerFits(v)
        BY <1>8, <2>1, <3>2 DEF Inv, HandlersFit
      <4> QED
        BY <1>5, <1>6, <1>9, <4>1 DEF HandlerFits
    <3> QED
      BY <3>1, <3>2
  <2> QED
    BY <2>1, <2>2 DEF HandlerFits
<1>11. HandlersFit'
  <2>1. \A g \in Busy : handler[g].bundle # n
    BY <1>6 DEF Inv, HandlersFit, HandlerFits
  <2> QED
    BY <1>1, <1>8, <1>10, <2>1 DEF Inv, HandlersFit
<1>12. RevisionsExist' /\ OutcomesFit' /\ KeysFit'
  <2>1. RevisionsExist'
    BY <1>4, <1>5, <1>6 DEF Inv, RevisionsExist
  <2>2. OutcomesFit'
    BY <1>7 DEF Inv, OutcomesFit
  <2>3. KeysFit'
    BY <1>5, <1>7 DEF Inv, KeysFit, Registered
  <2> QED
    BY <2>1, <2>2, <2>3
<1>13. SessionFits' /\ SessionFollowsPlan'
  BY <1>5, <1>6 DEF Inv, SessionFits, SessionFollowsPlan, Current
<1>14. PurgeFits'
  BY DEF Inv, PurgeFits
<1>15. FilesFit'
  <2> SUFFICES ASSUME ~strayed' PROVE Placed'
    BY DEF FilesFit
  <2>1. KeptFiles /\ PurgedFiles /\ MovedFiles /\ RowsFit /\ PromotedFiles
    BY DEF Inv, FilesFit, Placed
  <2>2. purge = NoPurge /\ purge' = NoPurge
    BY DEF Running
  <2>3. KeptFiles'
    BY <1>5, <1>7, <2>1, <2>2 DEF KeptFiles, Registered, Unfinished
  <2>4. PurgedFiles'
    BY <1>4, <1>5, <1>6, <2>1, <2>2 DEF PurgedFiles, In
  <2>5. MovedFiles' /\ RowsFit'
    BY <2>1, <2>2 DEF MovedFiles, RowsFit, Unfinished, In
  <2>6. PromotedFiles'
    BY <1>5, <1>8, <2>1 DEF PromotedFiles, Inv, HandlersFit, HandlerFits
  <2> QED
    BY <2>3, <2>4, <2>5, <2>6 DEF Placed
<1>16. Types'
  <2>1. Len(bundle') <= MaxBundles + 1
    BY <1>1, <1>3, <1>5, Sequences, Constants
  <2> QED
    BY <1>5, <1>8, <1>9, <2>1 DEF Inv, Types
<1>17. RowsExist'
  BY <1>6, RowsRemain
<1> QED
  BY <1>9, <1>11, <1>12, <1>13, <1>14, <1>15, <1>16, <1>17 DEF Inv

LEMMA ApplyInv ==
  ASSUME Inv, NEW h \in Handlers, NEW key \in Keys, NEW base \in DOMAIN plan,
         NEW change \in Changes, Apply(h, key, base, change)
  PROVE  Inv'
<1>1. PICK step : step = IF plan[base].readable /\ Passes(base, change) THEN "building"
                         ELSE "removing"
  OBVIOUS
<1>2. PICK w : w = [kind |-> "change", key |-> key, base |-> base, change |-> change,
                    bundle |-> Len(bundle) + 1, counts |-> ~plan[base].readable, step |-> step]
  OBVIOUS
<1>3. base \in 1..Len(plan) /\ Len(plan) \in Nat /\ Len(bundle) \in Nat
  BY Sequences
<1>4. w \in Handlings
  BY <1>1, <1>2, <1>3 DEF Handlings, Waiting
<1>5. Begin(h, w) /\ Running /\ handler[h] = Idle
      /\ UNCHANGED <<plan, replays, session, purge, quarantine, purged, strayed, restarts, faults>>
  BY <1>1, <1>2 DEF Apply
<1>6. /\ w.bundle = Len(bundle) + 1 /\ w.base = base /\ w.kind = "change" /\ w.key = key
      /\ w.change = change /\ w.step = step
  BY <1>2
<1>7. w.step # "published" /\ (w.step \in Waiting => Passes(w.base, w.change))
  BY <1>1, <1>6 DEF Waiting
<1> QED
  BY <1>3, <1>4, <1>5, <1>6, <1>7, BeginInv

LEMMA GenerateInv ==
  ASSUME Inv, NEW h \in Handlers, Generate(h)
  PROVE  Inv'
<1>1. PICK w : w = [kind |-> "export", key |-> NoReplay, base |-> Current, change |-> NoReplay,
                    bundle |-> Len(bundle) + 1, counts |-> FALSE, step |-> "building"]
  OBVIOUS
<1>2. Current \in 1..Len(plan) /\ Len(plan) \in Nat /\ Len(bundle) \in Nat
  BY Sequences DEF Current
<1>3. w \in Handlings
  BY <1>1, <1>2 DEF Handlings, Waiting
<1>4. Begin(h, w) /\ Running /\ handler[h] = Idle
      /\ UNCHANGED <<plan, replays, session, purge, quarantine, purged, strayed, restarts, faults>>
  BY <1>1 DEF Generate
<1>5. /\ w.bundle = Len(bundle) + 1 /\ w.base = Current /\ w.kind = "export"
      /\ w.key = NoReplay /\ w.change = NoReplay /\ w.counts = FALSE /\ w.step = "building"
  BY <1>1
<1> QED
  BY <1>2, <1>3, <1>4, <1>5, BeginInv

-----------------------------------------------------------------------------
(* The privacy operations.                                                  *)

LEMMA PurgeTurn ==
  ASSUME Inv, RowsStay, UNCHANGED <<plan, replays, session, handler, purged, restarts>>,
         faults' \in 0..MaxFaults, faults' >= faults, strayed' \in BOOLEAN,
         purge' \in Operations \cup {NoPurge}, quarantine' \subseteq QuarantineRows,
         PurgeFits', FilesFit', RowsExist'
  PROVE  Inv'
<1>1. IsPlan(plan)' /\ HistoryIsLinear' /\ RevisionsAreChecked'
      /\ \A base, change : Passes(base, change)' = Passes(base, change)
  BY PlanStays
<1>2. RevisionsExist' /\ OutcomesFit' /\ KeysFit'
  BY RecordsStay
<1>3. Started' = Started /\ Registered' = Registered /\ Busy' = Busy
  BY RowsKept DEF Busy
<1>4. HandlersFit'
  BY <1>1, <1>3 DEF Inv, HandlersFit, HandlerFits, RowsStay
<1>5. SessionFits' /\ SessionFollowsPlan'
  BY SessionStays, Constants DEF Inv, Types
<1>6. Types'
  BY <1>1 DEF Inv, Types, RowsStay
<1> QED
  BY <1>1, <1>2, <1>4, <1>5, <1>6 DEF Inv

LEMMA Operating ==
  ASSUME Inv, purge # NoPurge
  PROVE  /\ purge \in Operations /\ purge.op \in Purges
         /\ purge.step \in {"moving", "restoring", "finalizing"}
         /\ purge.files \subseteq 1..MaxBundles + 1
BY DEF Inv, Types, Operations

LEMMA PurgeGoesIs ==
  ASSUME Inv, purge # NoPurge, NEW step \in {"moving", "restoring", "finalizing"},
         PurgeGoes(step)
  PROVE  /\ purge' \in Operations /\ purge' # NoPurge /\ purge'.step = step
         /\ purge'.op = purge.op /\ purge'.files = purge.files
<1>1. purge \in Operations
  BY Operating
<1>2. /\ purge' \in Operations /\ purge'.step = step
      /\ purge'.op = purge.op /\ purge'.files = purge.files
  BY <1>1 DEF PurgeGoes, Operations
<1> QED
  BY <1>2, Constants

(* A handler's directory is none of those that a privacy operation moves.    *)
LEMMA PromotedStay ==
  ASSUME Inv, PromotedFiles, handler' = handler,
         \A b \in Started : bundle[b].row = "none" => bundle'[b].dir = bundle[b].dir
  PROVE  PromotedFiles'
BY DEF PromotedFiles, Busy, Inv, HandlersFit, HandlerFits

(* Files move to quarantine, or back.                                        *)
LEMMA MoveFiles ==
  ASSUME Inv, Unfinished, RowsStay, UNCHANGED <<plan, handler, quarantine, purged>>,
         purge' \in Operations, purge' # NoPurge, purge'.step \in {"moving", "restoring"},
         purge'.op = purge.op, purge'.files = purge.files, strayed' = strayed,
         faults' \in Nat, faults' >= faults,
         \A b \in Started : bundle'[b] # bundle[b] =>
            b \in purge.files /\ bundle'[b].dir \in {"published", "quarantine"}
  PROVE  PurgeFits' /\ FilesFit'
<1>1. Started' = Started /\ Registered' = Registered
  BY RowsKept
<1>2. Unfinished' /\ ~In("finalizing")' /\ Dependent' = Dependent /\ ~In("finalizing")
  BY DEF Unfinished, In, Dependent
<1>3. PurgeFits'
  BY DEF Inv, PurgeFits, Unfinished
<1>4. FilesFit'
  <2> SUFFICES ASSUME ~strayed' PROVE Placed'
    BY DEF FilesFit
  <2>1. KeptFiles /\ PurgedFiles /\ MovedFiles /\ RowsFit /\ PromotedFiles
    BY DEF Inv, FilesFit, Placed
  <2>2. \A b \in purge.files : b \in Started /\ bundle[b].row = "kept"
    BY <2>1 DEF MovedFiles, Registered
  <2>3. KeptFiles'
    BY <1>1, <1>2, <2>1 DEF KeptFiles, Registered
  <2>4. PurgedFiles'
    <3>1. faults > 0 => faults' > 0
      BY Constants DEF Inv, Types
    <3>2. \A b \in Started : bundle[b].row = "purged" => bundle'[b] = bundle[b]
      BY <2>2
    <3> QED
      BY <1>1, <1>2, <2>1, <3>1, <3>2 DEF PurgedFiles, RowsStay
  <2>5. MovedFiles'
    <3>1. \A b \in purge.files : bundle'[b].dir \in {"published", "quarantine"}
      BY <1>2, <2>1, <2>2 DEF MovedFiles
    <3> QED
      BY <1>1, <1>2, <2>1, <3>1 DEF MovedFiles
  <2>6. RowsFit'
    BY <1>2, <2>1 DEF RowsFit
  <2>7. PromotedFiles'
    BY <2>1, <2>2, PromotedStay
  <2> QED
    BY <2>3, <2>4, <2>5, <2>6, <2>7 DEF Placed
<1> QED
  BY <1>3, <1>4

LEMMA MoveSteps ==
  ASSUME Inv, PurgeRefused \/ \E b \in Started : Quarantine(b)
  PROVE  Inv'
<1>1. /\ In("moving") /\ UNCHANGED <<plan, replays, session, handler, quarantine, purged,
                                     strayed, restarts>>
      /\ Fault \/ NoFault
  BY DEF PurgeRefused, Quarantine
<1>2. purge # NoPurge /\ Unfinished /\ purge \in Operations /\ purge.step = "moving"
  BY <1>1, Operating DEF In, Unfinished
<1>3. faults' \in 0..MaxFaults /\ faults' >= faults /\ faults' \in Nat
  BY <1>1, FaultIs, Constants
<1>4. /\ purge' \in Operations /\ purge' # NoPurge /\ purge'.step \in {"moving", "restoring"}
      /\ purge'.op = purge.op /\ purge'.files = purge.files
  BY <1>2, PurgeGoesIs DEF PurgeRefused, Quarantine
<1>5. /\ RowsStay
      /\ \A b \in Started : bundle'[b] # bundle[b] =>
            b \in purge.files /\ bundle'[b].dir \in {"published", "quarantine"}
  <2>1. CASE bundle' = bundle
    BY <2>1, SameRows
  <2>2. ASSUME NEW b \in Started, b \in purge.files, SetDir(b, "quarantine")
        PROVE  /\ RowsStay
               /\ \A c \in Started : bundle'[c] # bundle[c] =>
                     c \in purge.files /\ bundle'[c].dir \in {"published", "quarantine"}
    BY <2>2, SetDirIs DEF Dirs
  <2> QED
    BY <2>1, <2>2 DEF PurgeRefused, Quarantine, Left
<1>6. PurgeFits' /\ FilesFit'
  BY <1>1, <1>2, <1>3, <1>4, <1>5, MoveFiles
<1>7. RowsExist'
  BY <1>1, <1>5, RowsKept, RowsRemain
<1> QED
  BY <1>1, <1>3, <1>4, <1>5, <1>6, <1>7, PurgeTurn DEF Inv, Types

(* The operation ends, and its rows go.                                      *)
LEMMA EndIs ==
  ASSUME Inv, purge # NoPurge, quarantine' = quarantine \ OfOperation(purge.op)
  PROVE  /\ quarantine' \subseteq QuarantineRows
         /\ \A row \in quarantine' : row \in quarantine /\ row.op # purge.op
BY DEF OfOperation, Inv, Types

LEMMA RestoreSteps ==
  ASSUME Inv, EndRestore \/ \E b \in Started : Restore(b)
  PROVE  Inv'
<1>1. /\ In("restoring") /\ UNCHANGED <<plan, replays, session, handler, purged, restarts>>
      /\ Fault \/ NoFault
  BY DEF EndRestore, Restore, NoFault
<1>2. purge # NoPurge /\ Unfinished /\ purge \in Operations /\ purge.step = "restoring"
  BY <1>1, Operating DEF In, Unfinished
<1>3. faults' \in 0..MaxFaults /\ faults' >= faults /\ faults' \in Nat
  BY <1>1, FaultIs, Constants
<1>4. CASE EndRestore
  <2>1. /\ Left("quarantine") = {} /\ purge' = NoPurge /\ bundle' = bundle
        /\ quarantine' = quarantine \ OfOperation(purge.op) /\ strayed' = strayed
        /\ faults' = faults
    BY <1>4 DEF EndRestore
  <2>2. /\ quarantine' \subseteq QuarantineRows
        /\ \A row \in quarantine' : row \in quarantine /\ row.op # purge.op
    BY <1>2, <2>1, EndIs
  <2>3. Started' = Started /\ Registered' = Registered /\ Busy' = Busy
    BY <1>1, <2>1 DEF Started, Registered, Busy
  <2>4. PurgeFits' /\ ~Unfinished' /\ ~In("finalizing")' /\ ~In("finalizing")
    BY <1>2, <2>1 DEF PurgeFits, Unfinished, In
  <2>5. FilesFit'
    <3> SUFFICES ASSUME ~strayed' PROVE Placed'
      BY DEF FilesFit
    <3>1. KeptFiles /\ PurgedFiles /\ MovedFiles /\ RowsFit /\ PromotedFiles
      BY <2>1 DEF Inv, FilesFit, Placed
    <3>2. \A b \in purge.files : bundle[b].dir = "published"
      BY <1>2, <2>1, <3>1 DEF MovedFiles, Left
    <3>3. KeptFiles'
      BY <2>1, <2>3, <3>1, <3>2 DEF KeptFiles
    <3>4. PurgedFiles'
      BY <2>1, <2>3, <2>4, <3>1 DEF PurgedFiles
    <3>5. MovedFiles' /\ RowsFit'
      BY <1>1, <2>2, <2>4, <3>1 DEF MovedFiles, RowsFit
    <3>6. PromotedFiles'
      BY <1>1, <2>1, <2>3, <3>1 DEF PromotedFiles
    <3> QED
      BY <3>3, <3>4, <3>5, <3>6 DEF Placed
  <2>6. RowsExist'
    BY <2>2, <2>3, RowsRemain
  <2> QED
    BY <1>1, <1>3, <2>1, <2>2, <2>4, <2>5, <2>6, SameRows, PurgeTurn DEF Inv, Types
<1>5. ASSUME NEW b \in Started, Restore(b)
      PROVE  Inv'
  <2>1. b \in purge.files /\ quarantine' = quarantine
    BY <1>5 DEF Restore, Left
  <2>2. CASE SetDir(b, "published") /\ UNCHANGED <<purge, strayed>>
    <3>1. /\ RowsStay
          /\ \A c \in Started : bundle'[c] # bundle[c] =>
                c \in purge.files /\ bundle'[c].dir \in {"published", "quarantine"}
      BY <2>1, <2>2, SetDirIs DEF Dirs
    <3>2. PurgeFits' /\ FilesFit'
      BY <1>1, <1>2, <1>3, <2>1, <2>2, <3>1, MoveFiles
    <3>3. RowsExist'
      BY <2>1, <3>1, RowsKept, RowsRemain
    <3> QED
      BY <1>1, <1>2, <1>3, <2>1, <2>2, <3>1, <3>2, <3>3, PurgeTurn DEF Inv, Types
  <2>3. CASE bundle' = bundle /\ purge' = NoPurge /\ strayed' = TRUE
    <3>1. PurgeFits' /\ FilesFit'
      BY <2>3 DEF PurgeFits, FilesFit
    <3>2. RowsStay /\ RowsExist'
      BY <2>1, <2>3, SameRows, RowsKept, RowsRemain
    <3> QED
      BY <1>1, <1>3, <2>1, <2>3, <3>1, <3>2, PurgeTurn DEF Inv, Types
  <2> QED
    BY <1>5, <2>2, <2>3 DEF Restore
<1> QED
  BY <1>4, <1>5

LEMMA StartPurgeInv ==
  ASSUME Inv, NEW p \in Purges, StartPurge(p)
  PROVE  Inv'
<1>1. PICK files : files = IF Dependent THEN {b \in Registered : bundle[b].dir = "published"}
                           ELSE {}
  OBVIOUS
<1>2. PICK x : x = [op |-> p, step |-> "moving", files |-> files]
  OBVIOUS
<1>3. PICK rows : rows = {[op |-> p, bundle |-> b] : b \in files}
  OBVIOUS
<1>4. /\ purge = NoPurge /\ MayStart(p) /\ purge' = x /\ quarantine' = quarantine \cup rows
      /\ UNCHANGED <<plan, bundle, replays, session, handler, purged, strayed, restarts, faults>>
  BY <1>1, <1>2, <1>3 DEF StartPurge, Running
<1>5. files \subseteq Registered /\ files \subseteq 1..MaxBundles + 1
  <2>1. Registered \subseteq Started
    BY DEF Registered
  <2>2. Started \subseteq 1..MaxBundles + 1
    <3>1. PICK n : n = Len(bundle) /\ n \in Nat /\ n <= MaxBundles + 1
      BY Sequences DEF Inv, Types
    <3> QED
      BY <3>1, Constants DEF Started
  <2> QED
    BY <1>1, <2>1, <2>2
<1>6. x \in Operations /\ x.op = p /\ x.step = "moving" /\ x.files = files /\ x # NoPurge
  <2>1. x \in Operations
    BY <1>2, <1>5 DEF Operations
  <2> QED
    BY <1>2, <2>1, Constants
<1>7. /\ rows \subseteq QuarantineRows /\ \A b \in files : [op |-> p, bundle |-> b] \in rows
      /\ \A row \in rows : row.op = p /\ row.bundle \in files
  <2>1. ASSUME NEW row \in rows
        PROVE  row \in QuarantineRows /\ row.op = p /\ row.bundle \in files
    <3>1. PICK b \in files : row = [op |-> p, bundle |-> b]
      BY <1>3
    <3>2. b \in 1..MaxBundles + 1
      BY <1>5
    <3>3. [op |-> p, bundle |-> b] \in QuarantineRows
      BY <3>2 DEF QuarantineRows
    <3> QED
      BY <3>1, <3>3
  <2> QED
    BY <1>3, <2>1
<1>8. p \notin purged
  BY <1>4, DeletionAssumption DEF MayStart
<1>9. PurgeFits'
  BY <1>4, <1>6, <1>8 DEF PurgeFits
<1>10. Started' = Started /\ Registered' = Registered /\ Busy' = Busy
       /\ Dependent' = Dependent
  BY <1>4 DEF Started, Registered, Busy, Dependent
<1>11. Unfinished' /\ ~In("finalizing")' /\ ~Unfinished /\ ~In("finalizing")
  BY <1>4, <1>6 DEF Unfinished, In
<1>12. FilesFit'
  <2> SUFFICES ASSUME ~strayed' PROVE Placed'
    BY DEF FilesFit
  <2>1. KeptFiles /\ PurgedFiles /\ MovedFiles /\ RowsFit /\ PromotedFiles
    BY <1>4 DEF Inv, FilesFit, Placed
  <2>2. \A b \in Registered : bundle[b].dir = "published"
    BY <1>11, <2>1 DEF KeptFiles
  <2>3. KeptFiles'
    BY <1>4, <1>10, <2>2 DEF KeptFiles
  <2>4. PurgedFiles'
    BY <1>4, <1>10, <1>11, <2>1 DEF PurgedFiles
  <2>5. IF Dependent THEN Registered \subseteq files ELSE files = {}
    BY <1>1, <2>2
  <2>6. \A b \in files : b \in Registered /\ bundle[b].dir = "published"
    BY <1>5, <2>2
  <2>7. MovedFiles'
    BY <1>4, <1>6, <1>7, <1>10, <1>11, <2>5, <2>6 DEF MovedFiles
  <2>8. RowsFit'
    <3>1. \A row \in quarantine : row.op \in purged
      BY <1>11, <2>1 DEF RowsFit
    <3>2. purge'.op = p /\ purge'.files = files
      BY <1>4, <1>6
    <3>3. \A row \in rows : row.op = p /\ row.bundle \in files
      BY <1>7
    <3> QED
      BY <1>4, <1>11, <3>1, <3>2, <3>3 DEF RowsFit
  <2>9. PromotedFiles'
    BY <1>4, <1>10, <2>1 DEF PromotedFiles
  <2> QED
    BY <2>3, <2>4, <2>7, <2>8, <2>9 DEF Placed
<1>13. RowsStay
  BY <1>4, SameRows
<1>14. quarantine' \subseteq QuarantineRows
  BY <1>4, <1>7 DEF Inv, Types
<1>15. faults' \in 0..MaxFaults /\ faults' >= faults /\ strayed' \in BOOLEAN
  BY <1>4, FaultIs DEF NoFault, Inv, Types
<1>16. RowsExist'
  <2>1. \A row \in rows : row.bundle \in Started
    BY <1>5, <1>7 DEF Registered
  <2> QED
    BY <1>4, <1>10, <2>1 DEF Inv, RowsExist
<1> QED
  BY <1>4, <1>6, <1>9, <1>12, <1>13, <1>14, <1>15, <1>16, PurgeTurn

LEMMA FinalizeSteps ==
  ASSUME Inv, EndPurge \/ \E b \in Started : Finalize(b)
  PROVE  Inv'
<1>1. /\ In("finalizing")
      /\ UNCHANGED <<plan, replays, session, handler, purged, strayed, restarts>>
      /\ Fault \/ NoFault
  BY DEF EndPurge, Finalize, NoFault
<1>2. purge # NoPurge /\ ~Unfinished /\ purge \in Operations /\ purge.step = "finalizing"
  BY <1>1, Operating DEF In, Unfinished
<1>3. faults' \in 0..MaxFaults /\ faults' >= faults /\ strayed' \in BOOLEAN
  BY <1>1, FaultIs DEF Inv, Types
<1>4. CASE EndPurge
  <2>1. /\ Left("quarantine") = {} /\ purge' = NoPurge /\ bundle' = bundle
        /\ quarantine' = quarantine \ OfOperation(purge.op) /\ faults' = faults
    BY <1>4 DEF EndPurge
  <2>2. /\ quarantine' \subseteq QuarantineRows
        /\ \A row \in quarantine' : row \in quarantine
    BY <1>2, <2>1, EndIs
  <2>3. Started' = Started /\ Registered' = Registered /\ Busy' = Busy
    BY <1>1, <2>1 DEF Started, Registered, Busy
  <2>4. PurgeFits' /\ ~Unfinished' /\ ~In("finalizing")'
    BY <2>1 DEF PurgeFits, Unfinished, In
  <2>5. FilesFit'
    <3> SUFFICES ASSUME ~strayed' PROVE Placed'
      BY DEF FilesFit
    <3>1. KeptFiles /\ PurgedFiles /\ MovedFiles /\ RowsFit /\ PromotedFiles
      BY <1>1 DEF Inv, FilesFit, Placed
    <3>2. \A b \in purge.files : bundle[b].dir # "quarantine"
      BY <2>1 DEF Left
    <3>3. KeptFiles'
      BY <1>2, <2>1, <2>3, <3>1 DEF KeptFiles
    <3>4. PurgedFiles'
      BY <2>1, <2>3, <3>1, <3>2 DEF PurgedFiles
    <3>5. MovedFiles' /\ RowsFit'
      BY <1>1, <1>2, <2>2, <2>4, <3>1 DEF MovedFiles, RowsFit
    <3>6. PromotedFiles'
      BY <1>1, <2>1, <2>3, <3>1 DEF PromotedFiles
    <3> QED
      BY <3>3, <3>4, <3>5, <3>6 DEF Placed
  <2>6. RowsStay
    BY <2>1, SameRows
  <2>7. RowsExist'
    BY <2>2, <2>3, RowsRemain
  <2> QED
    BY <1>1, <1>3, <2>1, <2>2, <2>4, <2>5, <2>6, <2>7, PurgeTurn
<1>5. ASSUME NEW b \in Started, Finalize(b)
      PROVE  Inv'
  <2>1. b \in purge.files /\ quarantine' = quarantine
    BY <1>5 DEF Finalize, Left
  <2>2. \/ purge' = purge /\ SetDir(b, "none")
        \/ purge' = NoPurge /\ bundle' = bundle /\ Fault
    BY <1>5 DEF Finalize
  <2>3. /\ RowsStay /\ \A c \in Started : c # b => bundle'[c] = bundle[c]
        /\ bundle'[b] = bundle[b] \/ bundle'[b].dir = "none"
    BY <2>2, SameRows, SetDirIs DEF Dirs
  <2>4. Started' = Started /\ Registered' = Registered
    BY <2>3, RowsKept
  <2>5. PurgeFits' /\ ~Unfinished'
    BY <1>1, <1>2, <2>2 DEF PurgeFits, Unfinished, Inv
  <2>6. FilesFit'
    <3> SUFFICES ASSUME ~strayed' PROVE Placed'
      BY DEF FilesFit
    <3>1. KeptFiles /\ PurgedFiles /\ MovedFiles /\ RowsFit /\ PromotedFiles
      BY <1>1 DEF Inv, FilesFit, Placed
    <3>2. bundle[b].row = "purged"
      BY <1>1, <2>1, <3>1 DEF MovedFiles
    <3>3. KeptFiles'
      BY <1>2, <2>3, <2>4, <3>1, <3>2 DEF KeptFiles, Registered
    <3>4. PurgedFiles'
      <4>1. faults > 0 => faults' > 0
        BY <1>3, Constants DEF Inv, Types
      <4>2. purge' = purge \/ faults' > 0
        BY <2>2, Constants DEF Fault, Inv, Types
      <4> QED
        BY <1>1, <2>3, <2>4, <3>1, <4>1, <4>2 DEF PurgedFiles, RowsStay, In
    <3>5. MovedFiles'
      BY <1>1, <2>2, <2>3, <2>4, <2>5, <3>1 DEF MovedFiles, RowsStay, In
    <3>6. RowsFit'
      BY <1>1, <1>2, <2>1, <2>5, <3>1 DEF RowsFit
    <3>7. PromotedFiles'
      BY <1>1, <2>3, <3>1, <3>2, PromotedStay
    <3> QED
      BY <3>3, <3>4, <3>5, <3>6, <3>7 DEF Placed
  <2>7. purge' \in Operations \cup {NoPurge} /\ quarantine' \subseteq QuarantineRows
    BY <1>2, <2>1, <2>2 DEF Inv, Types
  <2>8. RowsExist'
    BY <2>1, <2>4, RowsRemain
  <2> QED
    BY <1>1, <1>3, <2>3, <2>5, <2>6, <2>7, <2>8, PurgeTurn
<1> QED
  BY <1>4, <1>5

(* The transaction of a privacy operation.                                  *)
LEMMA RedactedIs ==
  ASSUME Inv, plan' = Redacted
  PROVE  /\ IsPlan(plan)' /\ Len(plan') = Len(plan)
         /\ \A r \in 1..Len(plan) : /\ plan'[r].base = plan[r].base
                                    /\ plan'[r].change = plan[r].change
                                    /\ plan'[r].lesson = plan[r].lesson
                                    /\ plan'[r].readable = FALSE
<1>1. PICK n : n = Len(plan)
  OBVIOUS
<1>2. n \in Nat /\ DOMAIN plan = 1..n /\ \A r \in 1..n : IsRevision(plan[r])
  BY <1>1, Sequences
<1>3. plan' = [r \in 1..n |-> [plan[r] EXCEPT !.readable = FALSE]]
  BY <1>2 DEF Redacted
<1>4. ASSUME NEW r \in 1..n
      PROVE  /\ plan'[r].base = plan[r].base /\ plan'[r].change = plan[r].change
             /\ plan'[r].lesson = plan[r].lesson /\ plan'[r].readable = FALSE
             /\ IsRevision(plan'[r])
  <2>1. PICK e : e = plan[r]
    OBVIOUS
  <2>2. e \in [base : Nat, readable : BOOLEAN, change : {e.change}, lesson : {e.lesson}]
    BY <1>2, <2>1 DEF IsRevision
  <2>3. PICK x : x = [e EXCEPT !.readable = FALSE]
    OBVIOUS
  <2>4. /\ x \in [base : Nat, readable : BOOLEAN, change : {e.change}, lesson : {e.lesson}]
        /\ x.base = e.base /\ x.readable = FALSE /\ x.change = e.change /\ x.lesson = e.lesson
    BY <2>2, <2>3
  <2>5. plan'[r] = x
    BY <1>3, <2>1, <2>3
  <2> QED
    BY <2>1, <2>4, <2>5 DEF IsRevision
<1>5. PICK S : S = {plan'[r] : r \in 1..n}
  OBVIOUS
<1>6. plan' \in [1..n -> S]
  BY <1>3, <1>5
<1>7. plan' \in Seq(S) /\ Len(plan') = n
  <2>1. PICK f \in [1..n -> S] : f = plan'
    BY <1>6
  <2> QED
    BY <1>2, <2>1, IsSequence
<1>8. plan' \in Seq(Elements(plan'))
  BY <1>7, OwnElements
<1>9. \A r \in 1..Len(plan') : IsRevision(plan'[r])
  BY <1>4, <1>7 DEF IsRevision
<1> QED
  BY <1>1, <1>4, <1>7, <1>8, <1>9 DEF IsPlan, IsRevision, Elements

LEMMA UnregisteredIs ==
  ASSUME Inv, bundle' = Unregistered
  PROVE  /\ bundle' \in Seq(Bundles) /\ Len(bundle') = Len(bundle)
         /\ \A b \in Started :
              /\ bundle'[b].key = bundle[b].key /\ bundle'[b].dir = bundle[b].dir
              /\ bundle'[b].revision = bundle[b].revision
              /\ bundle'[b].row = IF bundle[b].row = "kept" THEN "purged" ELSE bundle[b].row
<1>1. PICK n : n = Len(bundle)
  OBVIOUS
<1>2. n \in Nat /\ Started = 1..n /\ \A b \in 1..n : bundle[b] \in Bundles
  BY <1>1, Sequences
<1>3. bundle' = [b \in 1..n |-> IF bundle[b].row = "kept" THEN [bundle[b] EXCEPT !.row = "purged"]
                                ELSE bundle[b]]
  BY <1>2 DEF Unregistered
<1>4. ASSUME NEW b \in 1..n
      PROVE  /\ bundle'[b] \in Bundles
             /\ bundle'[b].key = bundle[b].key /\ bundle'[b].dir = bundle[b].dir
             /\ bundle'[b].revision = bundle[b].revision
             /\ bundle'[b].row = IF bundle[b].row = "kept" THEN "purged" ELSE bundle[b].row
  BY <1>2, <1>3 DEF Bundles, Rows
<1>5. bundle' \in [1..n -> Bundles]
  BY <1>3, <1>4
<1>6. bundle' \in Seq(Bundles) /\ Len(bundle') = n
  <2>1. PICK f \in [1..n -> Bundles] : f = bundle'
    BY <1>5
  <2> QED
    BY <1>2, <2>1, IsSequence
<1> QED
  BY <1>1, <1>2, <1>4, <1>6

LEMMA ForgottenIs ==
  ASSUME Inv, replays' = Forgotten
  PROVE  /\ replays' \in [Keys -> Outcomes]
         /\ \A k \in Keys : \/ replays'[k] = NeverTried /\ replays[k].status = "succeeded"
                            \/ replays'[k] = replays[k] /\ replays[k].status # "succeeded"
<1>1. NeverTried \in Outcomes
  BY DEF NeverTried, Outcomes
<1> QED
  BY <1>1 DEF Inv, Types, Forgotten

(* What waits still fits, when what it refers to keeps what it needs.        *)
LEMMA HandlersRemain ==
  ASSUME Inv, handler' = handler, Len(plan') = Len(plan), Started' = Started,
         \A r \in 1..Len(plan) : plan'[r].lesson = plan[r].lesson,
         \A b \in Started : bundle[b].row = "none" =>
            bundle'[b].row = "none" /\ bundle'[b].key = bundle[b].key
  PROVE  HandlersFit'
<1>1. Busy' = Busy
  BY DEF Busy
<1>2. ASSUME NEW h \in Busy
      PROVE  HandlerFits(handler[h])'
  <2>1. PICK w : w = handler[h]
    OBVIOUS
  <2>2. HandlerFits(w)
    BY <2>1 DEF Inv, HandlersFit
  <2>3. plan'[w.base].lesson = plan[w.base].lesson
    BY <2>2 DEF HandlerFits
  <2>4. Passes(w.base, w.change)' = Passes(w.base, w.change)
    BY <2>3 DEF Passes
  <2>5. HandlerFits(w)'
    BY <2>2, <2>4 DEF HandlerFits
  <2> QED
    BY <2>1, <2>5 DEF HandlerFits
<1> QED
  BY <1>1, <1>2 DEF Inv, HandlersFit

LEMMA RevisionsRemain ==
  ASSUME Inv, Len(plan') = Len(plan), DOMAIN plan' = DOMAIN plan,
         \A r \in 1..Len(plan) : /\ plan'[r].base = plan[r].base
                                 /\ plan'[r].change = plan[r].change
                                 /\ plan'[r].lesson = plan[r].lesson
  PROVE  HistoryIsLinear' /\ RevisionsAreChecked'
<1>1. HistoryIsLinear'
  BY Sequences DEF Inv, HistoryIsLinear
<1>2. ASSUME NEW r \in 1..Len(plan), plan'[r].base > 0
      PROVE  IsReviewed(plan'[plan'[r].base].lesson, plan'[r].change, plan'[r].lesson)
  <2>1. PICK b : b = r - 1
    OBVIOUS
  <2>2. plan[r].base = b /\ plan'[r].base = b
    BY <2>1, Sequences DEF Inv, HistoryIsLinear
  <2>3. b \in 1..Len(plan)
    BY <1>2, <2>1, <2>2, Sequences
  <2>4. plan'[b].lesson = plan[b].lesson
    BY <2>3
  <2>5. IsReviewed(plan[b].lesson, plan[r].change, plan[r].lesson)
    BY <1>2, <2>2 DEF Inv, RevisionsAreChecked
  <2> QED
    BY <2>2, <2>4, <2>5
<1> QED
  BY <1>1, <1>2 DEF RevisionsAreChecked

LEMMA CommitPurgeInv ==
  ASSUME Inv, CommitPurge
  PROVE  Inv'
<1>1. /\ In("moving") /\ Left("published") = {} /\ PurgeGoes("finalizing")
      /\ purged' = purged \cup {purge.op}
      /\ UNCHANGED <<session, handler, quarantine, strayed, restarts, faults>>
  BY DEF CommitPurge
<1>2. purge # NoPurge /\ Unfinished /\ purge.op \in Purges /\ ~In("finalizing")
  BY <1>1, Operating DEF In, Unfinished
<1>3. /\ purge' \in Operations /\ purge' # NoPurge /\ purge'.step = "finalizing"
      /\ purge'.op = purge.op /\ purge'.files = purge.files
  BY <1>1, <1>2, PurgeGoesIs
<1>4. PurgeFits' /\ purged' \subseteq Purges
  BY <1>1, <1>2, <1>3 DEF PurgeFits, Inv, Types
<1>5. ~Unfinished' /\ In("finalizing")'
  BY <1>3 DEF Unfinished, In
<1>6. /\ \/ Dependent /\ plan' = Redacted /\ bundle' = Unregistered /\ replays' = Forgotten
         \/ ~Dependent /\ plan' = plan /\ bundle' = bundle /\ replays' = replays
  BY DEF CommitPurge
<1>7. /\ IsPlan(plan)' /\ Len(plan') = Len(plan)
      /\ \A r \in 1..Len(plan) : /\ plan'[r].base = plan[r].base
                                 /\ plan'[r].change = plan[r].change
                                 /\ plan'[r].lesson = plan[r].lesson
  BY <1>6, RedactedIs, PlanStays
<1>8. HistoryIsLinear' /\ RevisionsAreChecked'
  BY <1>7, Sequences, RevisionsRemain DEF IsPlan
<1>9. /\ bundle' \in Seq(Bundles) /\ Len(bundle') = Len(bundle)
      /\ \A b \in Started :
           /\ bundle'[b].key = bundle[b].key /\ bundle'[b].dir = bundle[b].dir
           /\ bundle'[b].revision = bundle[b].revision
           /\ bundle'[b].row = IF Dependent /\ bundle[b].row = "kept" THEN "purged"
                               ELSE bundle[b].row
  BY <1>6, UnregisteredIs DEF Inv, Types
<1>10. Started' = Started /\ Busy' = Busy
  BY <1>1, <1>9 DEF Started, Busy
<1>11. Registered' = IF Dependent THEN {} ELSE Registered
  BY <1>9, <1>10 DEF Registered
<1>12. replays' \in [Keys -> Outcomes]
  BY <1>6, ForgottenIs DEF Inv, Types
<1>13. OutcomesFit'
  <2>1. CASE Dependent
    BY <1>6, <2>1, ForgottenIs, Constants DEF Inv, OutcomesFit, NeverTried
  <2>2. CASE ~Dependent
    BY <1>6, <1>11, <2>2 DEF Inv, OutcomesFit
  <2> QED
    BY <2>1, <2>2
<1>14. KeysFit'
  BY <1>6, <1>9, <1>11 DEF Inv, KeysFit, Registered
<1>15. RevisionsExist'
  BY <1>7, <1>9, <1>10 DEF Inv, RevisionsExist
<1>16. HandlersFit'
  BY <1>1, <1>7, <1>9, <1>10, HandlersRemain
<1>17. SessionFits' /\ SessionFollowsPlan'
  <2>1. SessionFits'
    BY <1>1, <1>10 DEF Inv, SessionFits
  <2>2. SessionFollowsPlan'
    BY <1>1, <1>7, <1>9 DEF Inv, SessionFits, SessionFollowsPlan, Current
  <2> QED
    BY <2>1, <2>2
<1>18. FilesFit'
  <2> SUFFICES ASSUME ~strayed' PROVE Placed'
    BY DEF FilesFit
  <2>1. KeptFiles /\ PurgedFiles /\ MovedFiles /\ RowsFit /\ PromotedFiles
    BY <1>1 DEF Inv, FilesFit, Placed
  <2>2. \A b \in purge.files : b \in Registered /\ bundle[b].dir = "quarantine"
    BY <1>1, <1>2, <2>1 DEF MovedFiles, Left
  <2>3. IF Dependent THEN Registered \subseteq purge.files ELSE purge.files = {}
    BY <1>2, <2>1 DEF MovedFiles
  <2>4. KeptFiles'
    <3>1. CASE Dependent
      BY <1>11, <3>1 DEF KeptFiles
    <3>2. CASE ~Dependent
      BY <1>6, <1>11, <2>1, <2>3, <3>2 DEF KeptFiles
    <3> QED
      BY <3>1, <3>2
  <2>5. PurgedFiles'
    <3> SUFFICES ASSUME NEW b \in Started, bundle'[b].row = "purged"
                 PROVE  /\ bundle'[b].dir \in {"none", "quarantine"}
                        /\ bundle'[b].dir = "quarantine" => faults' > 0 \/ b \in purge'.files
      BY <1>5, <1>10 DEF PurgedFiles
    <3>1. CASE bundle[b].row = "purged"
      BY <1>1, <1>2, <1>9, <2>1, <3>1 DEF PurgedFiles
    <3>2. CASE bundle[b].row # "purged"
      <4>1. Dependent /\ b \in Registered
        BY <1>9, <3>2 DEF Registered
      <4> QED
        BY <1>3, <1>9, <2>2, <2>3, <4>1
    <3> QED
      BY <3>1, <3>2
  <2>6. MovedFiles'
    <3>1. \A b \in purge.files : Dependent /\ b \in Started /\ bundle[b].row = "kept"
      BY <2>2, <2>3 DEF Registered
    <3>2. \A b \in purge.files : bundle'[b].row = "purged"
      BY <1>9, <3>1
    <3> QED
      BY <1>3, <1>5, <1>10, <3>1, <3>2 DEF MovedFiles
  <2>7. RowsFit'
    BY <1>1, <2>1 DEF RowsFit
  <2>8. PromotedFiles'
    BY <1>1, <1>9, <2>1, PromotedStay
  <2> QED
    BY <2>4, <2>5, <2>6, <2>7, <2>8 DEF Placed
<1>19. Types'
  BY <1>1, <1>3, <1>4, <1>7, <1>9, <1>12 DEF Inv, Types
<1>20. RowsExist'
  BY <1>1, <1>10, RowsRemain
<1> QED
  BY <1>4, <1>8, <1>13, <1>14, <1>15, <1>16, <1>17, <1>18, <1>19, <1>20 DEF Inv

-----------------------------------------------------------------------------
(* The process ends, and the next one puts the files in order.               *)

LEMMA RestartIs ==
  ASSUME Inv, Restart
  PROVE  /\ RowsStay
         /\ \A b \in Started : IF bundle[b].dir = "quarantine"
                               THEN bundle'[b].dir = Reconciled(b) ELSE bundle'[b] = bundle[b]
<1>1. PICK n : n = Len(bundle)
  OBVIOUS
<1>2. n \in Nat /\ Started = 1..n /\ \A b \in 1..n : bundle[b] \in Bundles
  BY <1>1, Sequences
<1>3. bundle' = [b \in 1..n |-> IF bundle[b].dir = "quarantine"
                                THEN [bundle[b] EXCEPT !.dir = Reconciled(b)] ELSE bundle[b]]
  BY <1>2 DEF Restart
<1>4. \A b : Reconciled(b) \in Dirs
  BY DEF Reconciled, Dirs
<1>5. ASSUME NEW b \in 1..n
      PROVE  /\ bundle'[b] \in Bundles
             /\ bundle'[b].key = bundle[b].key /\ bundle'[b].row = bundle[b].row
             /\ bundle'[b].revision = bundle[b].revision
             /\ IF bundle[b].dir = "quarantine"
                THEN bundle'[b].dir = Reconciled(b) ELSE bundle'[b] = bundle[b]
  <2>1. PICK where \in Dirs : where = Reconciled(b)
    BY <1>4
  <2>2. bundle'[b] = IF bundle[b].dir = "quarantine" THEN [bundle[b] EXCEPT !.dir = where]
                     ELSE bundle[b]
    BY <1>3, <2>1
  <2>3. bundle[b] \in Bundles
    BY <1>2
  <2>4. /\ [bundle[b] EXCEPT !.dir = where] \in Bundles
        /\ [bundle[b] EXCEPT !.dir = where].key = bundle[b].key
        /\ [bundle[b] EXCEPT !.dir = where].row = bundle[b].row
        /\ [bundle[b] EXCEPT !.dir = where].revision = bundle[b].revision
        /\ [bundle[b] EXCEPT !.dir = where].dir = where
    BY <2>3 DEF Bundles
  <2> QED
    BY <2>1, <2>2, <2>3, <2>4
<1>6. bundle' \in [1..n -> Bundles]
  BY <1>3, <1>5
<1>7. bundle' \in Seq(Bundles) /\ Len(bundle') = n
  <2>1. PICK f \in [1..n -> Bundles] : f = bundle'
    BY <1>6
  <2> QED
    BY <1>2, <2>1, IsSequence
<1> QED
  BY <1>1, <1>2, <1>5, <1>7 DEF RowsStay

LEMMA RestartInv ==
  ASSUME Inv, Restart
  PROVE  Inv'
<1>1. /\ restarts < MaxRestarts /\ restarts' = restarts + 1 /\ quarantine' = {}
      /\ purge' = NoPurge /\ handler' = [h \in Handlers |-> Idle]
      /\ UNCHANGED <<plan, replays, session, purged, strayed, faults>>
  BY DEF Restart
<1>2. /\ RowsStay
      /\ \A b \in Started : IF bundle[b].dir = "quarantine"
                            THEN bundle'[b].dir = Reconciled(b) ELSE bundle'[b] = bundle[b]
  BY RestartIs
<1>3. Started' = Started /\ Registered' = Registered
  BY <1>2, RowsKept
<1>4. restarts' \in 0..MaxRestarts /\ restarts' >= restarts /\ restarts' \in Nat
  BY <1>1, Constants DEF Inv, Types
<1>5. IsPlan(plan)' /\ HistoryIsLinear' /\ RevisionsAreChecked'
  BY <1>1, PlanStays
<1>6. RevisionsExist' /\ OutcomesFit' /\ KeysFit'
  BY <1>1, <1>2, RecordsStay
<1>7. session' \in Sessions /\ SessionFits' /\ SessionFollowsPlan'
  BY <1>1, <1>2, <1>4, SessionStays, Constants DEF Inv, Types
<1>8. Busy' = {} /\ handler' \in [Handlers -> Handlings \cup {Idle}] /\ HandlersFit'
  BY <1>1 DEF Busy, HandlersFit
<1>9. PurgeFits' /\ ~Unfinished' /\ ~In("finalizing")'
  BY <1>1 DEF PurgeFits, Unfinished, In
<1>10. FilesFit'
  <2> SUFFICES ASSUME ~strayed' PROVE Placed'
    BY DEF FilesFit
  <2>1. KeptFiles /\ PurgedFiles /\ MovedFiles /\ RowsFit /\ PromotedFiles
    BY <1>1 DEF Inv, FilesFit, Placed
  <2>2. KeptFiles'
    <3> SUFFICES ASSUME NEW b \in Registered PROVE bundle'[b].dir = "published"
      BY <1>3 DEF KeptFiles
    <3>1. b \in Started
      BY DEF Registered
    <3>2. CASE bundle[b].dir = "published"
      BY <1>2, <3>1, <3>2
    <3>3. CASE bundle[b].dir # "published"
      <4>1. Unfinished /\ b \in purge.files
        BY <2>1, <3>3 DEF KeptFiles
      <4>2. /\ bundle[b].dir = "quarantine"
            /\ [op |-> purge.op, bundle |-> b] \in quarantine
        BY <2>1, <3>3, <4>1 DEF MovedFiles
      <4>3. purge.op \notin purged
        BY <4>1 DEF Inv, PurgeFits, Unfinished
      <4>4. Reconciled(b) = "published"
        <5>1. PICK row \in quarantine : row = [op |-> purge.op, bundle |-> b]
          BY <4>2
        <5> QED
          BY <4>3, <5>1 DEF Reconciled
      <4> QED
        BY <1>2, <3>1, <4>2, <4>4
    <3> QED
      BY <3>2, <3>3
  <2>3. PurgedFiles'
    <3> SUFFICES ASSUME NEW b \in Started, bundle[b].row = "purged"
                 PROVE  bundle'[b].dir = "none"
      BY <1>2, <1>3 DEF PurgedFiles, RowsStay
    <3>1. CASE bundle[b].dir = "none"
      BY <1>2, <3>1
    <3>2. CASE bundle[b].dir = "quarantine"
      <4>1. b \notin Registered
        BY DEF Registered
      <4>2. \A row \in quarantine : row.bundle = b => row.op \in purged
        BY <2>1, <4>1 DEF RowsFit, MovedFiles
      <4>3. Reconciled(b) = "none"
        BY <4>2 DEF Reconciled
      <4> QED
        BY <1>2, <3>2, <4>3
    <3> QED
      BY <2>1, <3>1, <3>2 DEF PurgedFiles
  <2>4. MovedFiles' /\ RowsFit'
    BY <1>1, <1>9 DEF MovedFiles, RowsFit
  <2>5. PromotedFiles'
    BY <1>8 DEF PromotedFiles
  <2> QED
    BY <2>2, <2>3, <2>4, <2>5 DEF Placed
<1>11. Types'
  BY <1>1, <1>2, <1>4, <1>5, <1>7, <1>8 DEF Inv, Types, RowsStay
<1>12. RowsExist'
  BY <1>1 DEF RowsExist
<1> QED
  BY <1>5, <1>6, <1>7, <1>8, <1>9, <1>10, <1>11, <1>12 DEF Inv

-----------------------------------------------------------------------------
(* The theorems.                                                            *)

LEMMA StepInv == Inv /\ [Next]_vars => Inv'
<1> SUFFICES ASSUME Inv, [Next]_vars PROVE Inv'
  OBVIOUS
<1>1. CASE SaveContext \/ Rebuild \/ \E key \in Keys : Replay(key)
  BY <1>1, SessionSteps
<1>2. CASE Restart
  BY <1>2, RestartInv
<1>3. ASSUME NEW h \in Handlers,
             \E key \in Keys, base \in DOMAIN plan, change \in Changes : Apply(h, key, base, change)
      PROVE  Inv'
  BY <1>3, ApplyInv
<1>4. ASSUME NEW h \in Handlers, Generate(h) PROVE Inv'
  BY <1>4, GenerateInv
<1>5. ASSUME NEW h \in Handlers,
             Refuse(h) \/ Stage(h) \/ Promote(h) \/ CommitConflicts(h) \/ CommitFails(h)
      PROVE  Inv'
  BY <1>5, FileSteps
<1>6. ASSUME NEW h \in Handlers, Remove(h) PROVE Inv'
  BY <1>6, RemoveInv
<1>7. ASSUME NEW h \in Handlers, CommitExport(h) \/ CommitChange(h) \/ CommitReplays(h)
      PROVE  Inv'
  BY <1>7, CommitExportInv, CommitChangeInv, CommitReplaysInv
<1>8. ASSUME NEW p \in Purges, StartPurge(p) PROVE Inv'
  BY <1>8, StartPurgeInv
<1>9. CASE PurgeRefused \/ \E b \in Started : Quarantine(b)
  BY <1>9, MoveSteps
<1>10. CASE EndRestore \/ \E b \in Started : Restore(b)
  BY <1>10, RestoreSteps
<1>11. CASE EndPurge \/ \E b \in Started : Finalize(b)
  BY <1>11, FinalizeSteps
<1>12. CASE CommitPurge
  BY <1>12, CommitPurgeInv
<1>13. CASE UNCHANGED vars
  <2>1. UNCHANGED <<plan, bundle, replays, handler, purge, quarantine, purged, strayed,
                    restarts, faults>> /\ session' = session
    BY <1>13 DEF vars
  <2>2. session' \in Sessions /\ SessionFits' /\ SessionFollowsPlan'
    BY <2>1 DEF Inv, Types, SessionFits, SessionFollowsPlan, Started, Current
  <2> QED
    BY <2>1, <2>2, SessionTurn
<1> QED
  BY <1>1, <1>2, <1>3, <1>4, <1>5, <1>6, <1>7, <1>8, <1>9, <1>10, <1>11, <1>12, <1>13 DEF Next

LEMMA AlwaysInv == Spec => []Inv
BY InitInv, StepInv, PTL DEF Spec

LEMMA InvFiles == Inv => FilesFollowRows
<1> SUFFICES ASSUME Inv, ~strayed
             PROVE  /\ \A b \in Registered : HasFiles(b)
                    /\ \A b \in Started : bundle[b].row = "purged" => HasNoFiles(b)
  BY DEF FilesFollowRows
<1>1. KeptFiles /\ PurgedFiles /\ MovedFiles /\ RowsFit /\ PromotedFiles
  BY DEF Inv, FilesFit, Placed
<1>2. ASSUME NEW b \in Registered, bundle[b].dir # "published"
      PROVE  HasFiles(b)
  <2>1. Unfinished /\ b \in purge.files
    BY <1>1, <1>2 DEF KeptFiles
  <2>2. bundle[b].dir = "quarantine" /\ [op |-> purge.op, bundle |-> b] \in quarantine
    BY <1>1, <1>2, <2>1 DEF MovedFiles
  <2>3. purge.op \notin purged
    BY <2>1 DEF Inv, PurgeFits, Unfinished
  <2>4. PICK row \in quarantine : row = [op |-> purge.op, bundle |-> b]
    BY <2>2
  <2> QED
    BY <2>2, <2>3, <2>4 DEF HasFiles
<1>3. ASSUME NEW b \in Started, bundle[b].row = "purged"
      PROVE  HasNoFiles(b)
  BY <1>1, <1>3 DEF PurgedFiles, HasNoFiles, Running, In
<1> QED
  BY <1>2, <1>3 DEF HasFiles

(* The rows and the files of bundles agree, through every change, export,    *)
(* privacy operation, failing call and end of the process: what is registered *)
(* has its files, or an operation that has not succeeded holds them and has    *)
(* written down where they belong; what was taken back has none, provided that *)
(* every move back succeeded.                                               *)
THEOREM FilesAlwaysFollowRows == Spec => []FilesFollowRows
BY AlwaysInv, InvFiles, PTL

LEMMA InvKeys == Inv => KeyPublishesOnce
BY DEF Inv, KeysFit, KeyPublishesOnce

(* A key publishes one bundle, however often and however concurrently its     *)
(* request is sent.                                                         *)
THEOREM KeysPublishOnce == Spec => []KeyPublishesOnce
BY AlwaysInv, InvKeys, PTL

(* No accepted change is lost: every revision was made from the one before    *)
(* it.  It is what its change makes of that one, the change could be made, and *)
(* the result passed the review, although the change waited for its files      *)
(* meanwhile.                                                               *)
THEOREM HistoryIsReviewed == Spec => [](HistoryIsLinear /\ RevisionsAreChecked)
<1>1. Inv => HistoryIsLinear /\ RevisionsAreChecked
  BY DEF Inv
<1> QED
  BY <1>1, AlwaysInv, PTL

(* Without a failing call or an end of the process, the session that exported  *)
(* the plan shows the current revision and a bundle of it.                    *)
THEOREM SessionAlwaysFollows == Spec => []SessionFollowsPlan
<1>1. Inv => SessionFollowsPlan
  BY DEF Inv
<1> QED
  BY <1>1, AlwaysInv, PTL

LEMMA InvTypes == Inv => TypeOK
<1> SUFFICES ASSUME Inv PROVE TypeOK
  OBVIOUS
<1>1. \A r \in DOMAIN plan : plan[r].base \in 0..Len(plan) /\ plan[r].readable \in BOOLEAN
  <2> SUFFICES ASSUME NEW r \in DOMAIN plan
               PROVE  plan[r].base \in 0..Len(plan) /\ plan[r].readable \in BOOLEAN
    OBVIOUS
  <2>1. r \in 1..Len(plan) /\ Len(plan) \in Nat /\ IsRevision(plan[r])
    BY Sequences
  <2>2. plan[r].base = r - 1
    BY DEF Inv, HistoryIsLinear
  <2>3. r - 1 \in 0..Len(plan)
    BY <2>1
  <2> QED
    BY <2>1, <2>2, <2>3 DEF IsRevision
<1>2. \A b \in Started : /\ bundle[b].row \in {"none", "kept", "purged"}
                         /\ bundle[b].revision \in DOMAIN plan
                         /\ bundle[b].dir \in {"none", "staging", "published", "quarantine"}
  BY Sequences DEF Inv, RevisionsExist, Bundles, Rows, Dirs
<1>3. \A k \in Keys : replays[k].failures \in 0..MaxFailures
                      /\ replays[k].status = "succeeded" => replays[k].bundle \in Registered
  <2> SUFFICES ASSUME NEW k \in Keys
               PROVE  replays[k].failures \in 0..MaxFailures
                      /\ replays[k].status = "succeeded" => replays[k].bundle \in Registered
    OBVIOUS
  <2>1. replays[k] \in Outcomes /\ replays[k].failures <= MaxFailures
    BY DEF Inv, Types, OutcomesFit
  <2>2. replays[k].failures \in Nat
    BY <2>1 DEF Outcomes
  <2> QED
    BY <2>1, <2>2, Constants DEF Inv, OutcomesFit
<1>4. session.status \in {"EXPORTED", "PLAN_REVIEW", "other plan"}
  BY DEF Inv, Types, Sessions
<1>5. \A h \in Busy : handler[h].bundle \in Started
  BY DEF Inv, HandlersFit, HandlerFits
<1>6. \A row \in quarantine : row.op \in Purges /\ row.bundle \in Started
  BY DEF Inv, Types, QuarantineRows, RowsExist
<1> QED
  BY <1>1, <1>2, <1>3, <1>4, <1>5, <1>6 DEF Inv, Types, TypeOK

(* Revisions, rows, keys and waiting calls refer to what exists.              *)
THEOREM TypesHold == Spec => []TypeOK
BY AlwaysInv, InvTypes, PTL

(* What a key has come to, in a step.                                        *)
LEMMA StepOutcome ==
  ASSUME Inv, [Next]_vars, NEW k \in Keys
  PROVE  /\ replays[k].status = "failed_final" => replays'[k] = replays[k]
         /\ replays[k].status = "succeeded" => replays'[k] = replays[k] \/ purged' # purged
         /\ replays'[k].failures < replays[k].failures => purged' # purged
<1>1. replays \in [Keys -> Outcomes] /\ replays[k].failures \in Nat
  BY DEF Inv, Types, Outcomes
<1>2. CASE replays'[k] = replays[k]
  BY <1>1, <1>2
<1>3. CASE CommitPurge
  <2>1. purged' = purged \cup {purge.op} /\ purge # NoPurge /\ purge.step = "moving"
    BY <1>3 DEF CommitPurge, In
  <2>2. purged' # purged
    BY <2>1 DEF Inv, PurgeFits
  <2>3. replays' = Forgotten \/ replays' = replays
    BY <1>3 DEF CommitPurge
  <2>4. replays[k].status = "failed_final" => replays'[k] = replays[k]
    BY <2>3 DEF Forgotten
  <2> QED
    BY <2>2, <2>4
<1>4. ASSUME NEW h \in Handlers, Remove(h), RecordFailure(h), replays'[k] # replays[k]
      PROVE  /\ replays[k].status \in {"none", "failed"}
             /\ replays'[k].failures = replays[k].failures + 1
  <2>1. PICK w : w = handler[h]
    OBVIOUS
  <2>2. PICK x : x = [status |-> IF replays[w.key].failures + 1 >= MaxFailures
                                 THEN "failed_final" ELSE "failed",
                      failures |-> replays[w.key].failures + 1, bundle |-> 0,
                      request |-> Request(w.base, w.change)]
    OBVIOUS
  <2>3. replays' = [replays EXCEPT ![w.key] = x] /\ replays[w.key].status \in {"none", "failed"}
    BY <1>4, <2>1, <2>2 DEF RecordFailure
  <2>4. k = w.key /\ replays'[k] = x
    BY <1>1, <1>4, <2>3
  <2> QED
    BY <2>2, <2>3, <2>4
<1>5. ASSUME NEW h \in Handlers, CommitChange(h), replays'[k] # replays[k]
      PROVE  /\ replays[k].status \in {"none", "failed"}
             /\ replays'[k].failures = replays[k].failures
  <2>1. PICK w : w = handler[h]
    OBVIOUS
  <2>2. PICK x : x = [status |-> "succeeded", failures |-> replays[w.key].failures,
                      bundle |-> w.bundle, request |-> Request(w.base, w.change)]
    OBVIOUS
  <2>3. replays' = [replays EXCEPT ![w.key] = x] /\ replays[w.key].status \in {"none", "failed"}
    BY <1>5, <2>1, <2>2 DEF CommitChange, IsAcceptable
  <2>4. k = w.key /\ replays'[k] = x
    BY <1>1, <1>5, <2>3
  <2> QED
    BY <2>2, <2>3, <2>4
<1>6. \/ replays' = replays \/ CommitPurge
      \/ \E h \in Handlers : (Remove(h) /\ RecordFailure(h)) \/ CommitChange(h)
  <2>1. CASE UNCHANGED vars
    BY <2>1 DEF vars
  <2>2. CASE SaveContext \/ Rebuild \/ Restart \/ \E key \in Keys : Replay(key)
    BY <2>2 DEF SaveContext, Rebuild, Restart, Replay
  <2>3. ASSUME NEW h \in Handlers,
               \/ \E key \in Keys, base \in DOMAIN plan, change \in Changes :
                     Apply(h, key, base, change)
               \/ Generate(h) \/ Refuse(h) \/ Stage(h) \/ Promote(h)
               \/ CommitExport(h) \/ CommitReplays(h) \/ CommitConflicts(h) \/ CommitFails(h)
        PROVE  replays' = replays
    BY <2>3 DEF Apply, Generate, Refuse, Stage, Promote, CommitExport, CommitReplays,
       CommitConflicts, CommitFails
  <2>4. ASSUME NEW h \in Handlers, Remove(h)
        PROVE  replays' = replays \/ RecordFailure(h)
    BY <2>4 DEF Remove
  <2>5. CASE \/ \E p \in Purges : StartPurge(p)
             \/ \E b \in Started : Quarantine(b) \/ Restore(b) \/ Finalize(b)
             \/ PurgeRefused \/ EndRestore \/ EndPurge
    BY <2>5 DEF StartPurge, Quarantine, Restore, Finalize, PurgeRefused, EndRestore, EndPurge
  <2> QED
    BY <2>1, <2>2, <2>3, <2>4, <2>5 DEF Next
<1> QED
  BY <1>1, <1>2, <1>3, <1>4, <1>5, <1>6

(* What a key has come to is final: a late failure of the same request takes  *)
(* back no success, a change that was given up is never applied, and failures  *)
(* are not uncounted.                                                       *)
THEOREM OutcomesAreFinal == Spec => OutcomeIsFinal
<1>1. Inv /\ [Next]_vars =>
        [\A k \in Keys :
           /\ replays[k].status = "failed_final" => replays'[k] = replays[k]
           /\ replays[k].status = "succeeded" => replays'[k] = replays[k] \/ purged' # purged
           /\ replays'[k].failures < replays[k].failures => purged' # purged]_vars
  BY StepOutcome
<1> QED
  BY <1>1, AlwaysInv, PTL DEF Spec, OutcomeIsFinal

-----------------------------------------------------------------------------
(* Folds over a sequence.                                                   *)

(* Of numbers one is least; hence induction over 0..n.                        *)
LEMMA LeastNumber ==
  ASSUME NEW T, T \subseteq Nat, T # {}
  PROVE  \E n \in T : \A m \in T : n <= m
<1>1. PICK n \in T : \A m \in T : ~(<<m, n>> \in OpToRel(<, Nat))
  BY WFMin, NatLessThanWellFounded, Zenon
<1>2. ASSUME NEW m \in T PROVE n <= m
  <2>1. <<m, n>> \in Nat \X Nat /\ <<m, n>> \notin OpToRel(<, Nat)
    BY <1>1
  <2>2. ~(m < n)
    BY <2>1, Zenon DEF OpToRel
  <2> QED
    BY <2>2
<1> QED
  BY <1>2

LEMMA Upwards ==
  ASSUME NEW n \in Nat, NEW P, 0 \in P, \A k \in 0..n : k < n /\ k \in P => k + 1 \in P
  PROVE  \A k \in 0..n : k \in P
<1> DEFINE Bad == {k \in 0..n : k \notin P}
<1> SUFFICES ASSUME Bad # {} PROVE FALSE
  OBVIOUS
<1>1. PICK k \in Bad : \A m \in Bad : k <= m
  <2>1. Bad \subseteq Nat
    OBVIOUS
  <2> HIDE DEF Bad
  <2> QED
    BY <2>1, LeastNumber
<1>2. k # 0 /\ k - 1 \in 0..n /\ k - 1 < n /\ ~(k <= k - 1)
  OBVIOUS
<1>3. k - 1 \in P
  BY <1>1, <1>2
<1>4. (k - 1) + 1 \in P /\ (k - 1) + 1 = k
  BY <1>2, <1>3
<1> QED
  BY <1>4

(* The fold takes the largest index last.                                   *)
Biggest(S) == CHOOSE x \in S : \A y \in S : x >= y

LEMMA BiggestIs ==
  ASSUME NEW n \in Nat, NEW S \in SUBSET (1..n), S # {}
  PROVE  Biggest(S) \in S /\ \A y \in S : Biggest(S) >= y
<1> DEFINE HasBiggest(R) == \E x \in R : \A y \in R : x >= y
           P == {k \in 0..n : \A R \in SUBSET (1..k) : R # {} => HasBiggest(R)}
<1>1. 0 \in P
  <2>1. 0 \in 0..n /\ \A R \in SUBSET (1..0) : R = {}
    OBVIOUS
  <2> HIDE DEF HasBiggest
  <2> QED
    BY <2>1
<1>2. ASSUME NEW k \in 0..n, k < n, k \in P PROVE k + 1 \in P
  <2> SUFFICES ASSUME NEW R \in SUBSET (1..k + 1), R # {} PROVE \E x \in R : \A y \in R : x >= y
    BY <1>2
  <2>1. CASE k + 1 \in R
    <3>1. \A y \in R : k + 1 >= y
      <4> SUFFICES ASSUME NEW y \in R PROVE k + 1 >= y
        OBVIOUS
      <4>1. y \in 1..k + 1
        OBVIOUS
      <4> QED
        BY <4>1
    <3> QED
      BY <2>1, <3>1
  <2>2. CASE k + 1 \notin R
    <3>1. R \in SUBSET (1..k)
      BY <2>2
    <3> QED
      BY <1>2, <3>1
  <2> QED
    BY <2>1, <2>2
<1> HIDE DEF P
<1>3. \A k \in 0..n : k \in P
  BY <1>1, <1>2, Upwards
<1>4. n \in P
  BY <1>3
<1>5. \E x \in S : \A y \in S : x >= y
  BY <1>4 DEF P
<1> QED
  BY <1>5, Zenon DEF Biggest

LEMMA BiggestOfRange ==
  ASSUME NEW k \in Nat, k > 0
  PROVE  Biggest(1..k) = k /\ (1..k) \ {k} = 1..k - 1
<1>1. 1..k \in SUBSET (1..k) /\ 1..k # {} /\ k \in 1..k
  OBVIOUS
<1>2. Biggest(1..k) \in 1..k /\ Biggest(1..k) >= k
  BY <1>1, BiggestIs
<1> QED
  BY <1>2

(* A fold whose steps stay in a set: its recursion has a solution there.      *)
Steps(V, n) == [1..n -> [V -> V]]
FoldOf(V, base, n, step) ==
    {g \in [SUBSET (1..n) -> V] : \A S \in SUBSET (1..n) :
       g[S] = IF S = {} THEN base ELSE step[Biggest(S)][g[S \ {Biggest(S)}]]}

LEMMA FoldExists ==
  ASSUME NEW V, NEW base \in V, NEW n \in Nat, NEW step \in Steps(V, n)
  PROVE  FoldOf(V, base, n, step) # {}
<1> USE DEF Steps
<1> DEFINE Solves(g, m) ==
             \A S \in SUBSET (1..m) :
                g[S] = IF S = {} THEN base ELSE step[Biggest(S)][g[S \ {Biggest(S)}]]
           P == {m \in 0..n : \E g \in [SUBSET (1..m) -> V] : Solves(g, m)}
<1>1. 0 \in P
  <2> DEFINE g == [S \in SUBSET (1..0) |-> base]
  <2>1. \A S \in SUBSET (1..0) : S = {}
    OBVIOUS
  <2>2. g \in [SUBSET (1..0) -> V]
    OBVIOUS
  <2>3. Solves(g, 0)
    BY <2>1
  <2>4. 0 \in 0..n
    OBVIOUS
  <2> HIDE DEF g, Solves
  <2> QED
    BY <2>2, <2>3, <2>4
<1>2. ASSUME NEW m \in 0..n, m < n, m \in P PROVE m + 1 \in P
  <2>1. PICK g \in [SUBSET (1..m) -> V] : Solves(g, m)
    BY <1>2
  <2> DEFINE h == [S \in SUBSET (1..m + 1) |->
                     IF S = {} THEN base ELSE step[Biggest(S)][g[S \ {Biggest(S)}]]]
  <2>2. \A S \in SUBSET (1..m + 1) : S # {} =>
           Biggest(S) \in 1..n /\ S \ {Biggest(S)} \in SUBSET (1..m)
    <3> SUFFICES ASSUME NEW S \in SUBSET (1..m + 1), S # {}
                 PROVE  Biggest(S) \in 1..n /\ S \ {Biggest(S)} \in SUBSET (1..m)
      OBVIOUS
    <3>1. m \in Nat /\ m + 1 \in Nat /\ m + 1 <= n
      BY <1>2
    <3>2. Biggest(S) \in S /\ \A y \in S : Biggest(S) >= y
      BY <3>1, BiggestIs
    <3>3. ASSUME NEW y \in S, y # Biggest(S) PROVE y \in 1..m
      <4>1. y \in Nat /\ 1 <= y /\ y <= m + 1
        OBVIOUS
      <4>2. Biggest(S) \in 1..m + 1 /\ Biggest(S) >= y
        BY <3>2
      <4> QED
        BY <3>1, <3>3, <4>1, <4>2
    <3>4. Biggest(S) \in 1..n
      <4>1. Biggest(S) \in 1..m + 1
        BY <3>2
      <4> QED
        BY <3>1, <4>1
    <3> QED
      BY <3>3, <3>4
  <2>3. h \in [SUBSET (1..m + 1) -> V]
    BY <2>2
  <2>4. \A S \in SUBSET (1..m) : S \in SUBSET (1..m + 1) /\ h[S] = g[S]
    <3>1. 1..m \subseteq 1..m + 1
      OBVIOUS
    <3> QED
      BY <2>1, <3>1
  <2>5. Solves(h, m + 1)
    <3> SUFFICES ASSUME NEW S \in SUBSET (1..m + 1)
                 PROVE  h[S] = IF S = {} THEN base
                               ELSE step[Biggest(S)][h[S \ {Biggest(S)}]]
      OBVIOUS
    <3>1. S # {} => h[S \ {Biggest(S)}] = g[S \ {Biggest(S)}]
      BY <2>2, <2>4
    <3> QED
      BY <3>1
  <2>6. m + 1 \in 0..n
    BY <1>2
  <2> HIDE DEF h, Solves
  <2> QED
    BY <2>3, <2>5, <2>6
<1> HIDE DEF P
<1>3. \A k \in 0..n : k \in P
  BY <1>1, <1>2, Upwards
<1>4. n \in P
  BY <1>3
<1>5. PICK g \in [SUBSET (1..n) -> V] : Solves(g, n)
  BY <1>4 DEF P
<1> QED
  BY <1>5 DEF FoldOf

(* What a solution says of the sequence, from its first element to its last.  *)
Folds(g, V, base, n, step) ==
    /\ g[{}] = base
    /\ \A S \in SUBSET (1..n) : S # {} /\ g[S \ {Biggest(S)}] \in V =>
          g[S] = step[Biggest(S)][g[S \ {Biggest(S)}]]
RunOf(V, base, n, step, last) ==
    {F \in [0..n -> V] :
       F[0] = base /\ F[n] = last /\ \A k \in 1..n : F[k] = step[k][F[k - 1]]}

LEMMA FoldRuns ==
  ASSUME NEW V, NEW base \in V, NEW n \in Nat, NEW step \in Steps(V, n), NEW g,
         Folds(g, V, base, n, step)
  PROVE  RunOf(V, base, n, step, g[1..n]) # {}
<1> USE DEF Steps, Folds
<1> DEFINE F == [k \in 0..n |-> g[1..k]]
           P == {k \in 0..n : g[1..k] \in V}
<1>1. 1..0 = {}
  OBVIOUS
<1>2. ASSUME NEW k \in 1..n, g[1..k - 1] \in V PROVE g[1..k] = step[k][g[1..k - 1]]
  <2>1. 1..k \in SUBSET (1..n) /\ k \in 1..k /\ k \in Nat /\ k > 0
    OBVIOUS
  <2> QED
    BY <1>2, <2>1, BiggestOfRange
<1>3. ASSUME NEW k \in 0..n, k < n, k \in P PROVE k + 1 \in P
  <2>1. k + 1 \in 1..n /\ (k + 1) - 1 = k
    BY <1>3
  <2>2. g[1..k + 1] = step[k + 1][g[1..k]]
    BY <1>2, <1>3, <2>1
  <2> QED
    BY <1>3, <2>1, <2>2
<1>4. 0 \in P
  BY <1>1
<1> HIDE DEF P
<1>5. \A k \in 0..n : k \in P
  BY <1>3, <1>4, Upwards
<1>6. F \in [0..n -> V]
  BY <1>5 DEF P
<1>7. F[0] = base /\ F[n] = g[1..n]
  BY <1>1
<1>8. \A k \in 1..n : F[k] = step[k][F[k - 1]]
  <2> SUFFICES ASSUME NEW k \in 1..n PROVE F[k] = step[k][F[k - 1]]
    OBVIOUS
  <2>1. k - 1 \in 0..n /\ k \in 0..n
    OBVIOUS
  <2>2. g[1..k - 1] \in V
    BY <1>5, <2>1 DEF P
  <2> QED
    BY <1>2, <2>1, <2>2
<1> QED
  BY <1>6, <1>7, <1>8 DEF RunOf

LEMMA ScheduleIs ==
  ASSUME NEW s \in Seq(Activities)
  PROVE  /\ Len(s) \in Nat /\ DOMAIN s = 1..Len(s)
         /\ \A k \in 1..Len(s) :
              /\ s[k] \in Activities /\ s[k].id \in Ids(s) /\ s[k].length \in Nat
              /\ s[k].length > 0
<1>1. Len(s) \in Nat /\ DOMAIN s = 1..Len(s) /\ \A k \in 1..Len(s) : s[k] \in Activities
  OBVIOUS
<1>2. \A k \in 1..Len(s) : s[k].length \in Nat /\ s[k].length # 0
  BY <1>1 DEF Activities
<1>3. \A k \in 1..Len(s) : s[k].id \in Ids(s)
  BY <1>1 DEF Ids
<1> QED
  BY <1>1, <1>2, <1>3

(* A sum, number by number.                                                  *)
SumSolves(g, f) ==
    g = [S \in SUBSET (DOMAIN f) |-> IF S = {} THEN 0
                                     ELSE g[S \ {Biggest(S)}] + f[Biggest(S)]]

LEMMA SumIsFold ==
  ASSUME NEW f
  PROVE  Sum(f) = (CHOOSE g : SumSolves(g, f))[DOMAIN f]
BY Zenon DEF Sum, Seqs!FoldLeft, Seqs!MapThenFoldSet, Biggest, Seqs!Max, SumSolves

IsSum(F, n, f) == F \in [0..n -> Nat] /\ F[0] = 0 /\ \A k \in 1..n : F[k] = F[k - 1] + f[k]

LEMMA SumRuns ==
  ASSUME NEW n \in Nat, NEW f \in [1..n -> Nat]
  PROVE  \E F : IsSum(F, n, f) /\ F[n] = Sum(f)
<1> DEFINE step == [k \in 1..n |-> [v \in Nat |-> v + f[k]]]
           g == CHOOSE x : SumSolves(x, f)
<1>1. DOMAIN f = 1..n /\ \A k \in 1..n : f[k] \in Nat
  OBVIOUS
<1>2. step \in Steps(Nat, n) /\ 0 \in Nat
  BY <1>1 DEF Steps
<1>3. \A S \in SUBSET (1..n) : S # {} => Biggest(S) \in 1..n /\ S \ {Biggest(S)} \in SUBSET (1..n)
  BY BiggestIs
<1>4. PICK h \in FoldOf(Nat, 0, n, step) : TRUE
  <2> HIDE DEF step
  <2> QED
    BY <1>2, FoldExists
<1>5. SumSolves(h, f)
  BY <1>1, <1>3, <1>4 DEF SumSolves, FoldOf
<1>6. SumSolves(g, f)
  BY <1>5, Zenon
<1>7. Folds(g, Nat, 0, n, step)
  <2> HIDE DEF g
  <2>1. g = [S \in SUBSET (1..n) |-> IF S = {} THEN 0 ELSE g[S \ {Biggest(S)}] + f[Biggest(S)]]
    BY <1>1, <1>6 DEF SumSolves
  <2>2. g[{}] = 0 /\ \A S \in SUBSET (1..n) : S # {} => g[S] = g[S \ {Biggest(S)}] + f[Biggest(S)]
    BY <2>1
  <2>3. \A k \in 1..n : \A v \in Nat : step[k][v] = v + f[k]
    OBVIOUS
  <2> HIDE DEF step
  <2> QED
    BY <1>3, <2>2, <2>3 DEF Folds
<1> HIDE DEF step, g
<1>8. PICK F \in RunOf(Nat, 0, n, step, g[1..n]) : TRUE
  <2>1. PICK V : V = Nat
    OBVIOUS
  <2>2. 0 \in V /\ step \in Steps(V, n) /\ Folds(g, V, 0, n, step)
    BY <1>2, <1>7, <2>1
  <2>3. RunOf(V, 0, n, step, g[1..n]) # {}
    BY <2>2, FoldRuns
  <2> QED
    BY <2>1, <2>3
<1>9. F \in [0..n -> Nat] /\ F[0] = 0 /\ F[n] = Sum(f)
  BY <1>1, <1>8, SumIsFold DEF RunOf, g
<1>10. ASSUME NEW k \in 1..n PROVE F[k] = F[k - 1] + f[k]
  <2>1. F[k] = step[k][F[k - 1]] /\ F[k - 1] \in Nat
    BY <1>1, <1>8 DEF RunOf
  <2> QED
    BY <2>1 DEF step
<1> QED
  BY <1>9, <1>10 DEF IsSum

LEMMA SumIs ==
  ASSUME NEW n \in Nat, NEW f \in [1..n -> Nat], NEW F, IsSum(F, n, f)
  PROVE  Sum(f) = F[n] /\ Sum(f) \in Nat
<1>1. PICK G : IsSum(G, n, f) /\ G[n] = Sum(f)
  BY SumRuns
<1> DEFINE P == {k \in 0..n : F[k] = G[k]}
<1>2. 0 \in P
  BY <1>1 DEF IsSum
<1>3. ASSUME NEW k \in 0..n, k < n, k \in P PROVE k + 1 \in P
  <2>1. k + 1 \in 1..n /\ (k + 1) - 1 = k
    BY <1>3
  <2> QED
    BY <1>1, <1>3, <2>1 DEF IsSum
<1> HIDE DEF P
<1>4. \A k \in 0..n : k \in P
  BY <1>2, <1>3, Upwards
<1>5. n \in P
  BY <1>4
<1> QED
  BY <1>1, <1>5 DEF P, IsSum

(* One number more, and another number in one place.                         *)
LEMMA SumAppends ==
  ASSUME NEW n \in Nat, NEW f \in [1..n -> Nat], NEW h \in [1..n + 1 -> Nat],
         \A k \in 1..n : h[k] = f[k]
  PROVE  Sum(h) = Sum(f) + h[n + 1]
<1>1. PICK F : IsSum(F, n, f) /\ F[n] = Sum(f)
  BY SumRuns
<1> DEFINE G == [k \in 0..n + 1 |-> IF k = n + 1 THEN F[n] + h[n + 1] ELSE F[k]]
<1>2. IsSum(G, n + 1, h)
  BY <1>1 DEF IsSum
<1>3. G[n + 1] = F[n] + h[n + 1]
  OBVIOUS
<1> HIDE DEF G
<1> QED
  BY <1>1, <1>2, <1>3, SumIs

LEMMA SumChanges ==
  ASSUME NEW n \in Nat, NEW f \in [1..n -> Nat], NEW h \in [1..n -> Nat], NEW j \in 1..n,
         \A k \in 1..n \ {j} : h[k] = f[k]
  PROVE  Sum(h) + f[j] = Sum(f) + h[j] /\ Sum(h) \in Nat /\ Sum(f) \in Nat
<1>1. PICK F : IsSum(F, n, f) /\ F[n] = Sum(f)
  BY SumRuns
<1>2. PICK H : IsSum(H, n, h) /\ H[n] = Sum(h)
  BY SumRuns
<1> DEFINE P == {k \in 0..n : IF k < j THEN H[k] = F[k] ELSE H[k] + f[j] = F[k] + h[j]}
<1>3. 0 \in P
  BY <1>1, <1>2 DEF IsSum
<1>4. ASSUME NEW k \in 0..n, k < n, k \in P PROVE k + 1 \in P
  <2>1. k + 1 \in 1..n /\ (k + 1) - 1 = k
    BY <1>4
  <2>2. F[k + 1] = F[k] + f[k + 1] /\ H[k + 1] = H[k] + h[k + 1] /\ F[k] \in Nat /\ H[k] \in Nat
    BY <1>1, <1>2, <2>1 DEF IsSum
  <2>3. k + 1 # j => h[k + 1] = f[k + 1]
    BY <2>1
  <2>4. f[k + 1] \in Nat /\ h[k + 1] \in Nat /\ f[j] \in Nat /\ h[j] \in Nat
    BY <2>1
  <2>5. CASE k + 1 < j
    <3>1. k < j /\ H[k] = F[k]
      BY <1>4, <2>5
    <3> QED
      BY <2>1, <2>2, <2>3, <2>5, <3>1
  <2>6. CASE k + 1 = j
    <3>1. k < j /\ H[k] = F[k]
      BY <1>4, <2>6
    <3>2. PICK a \in Nat, b \in Nat, d \in Nat : a = H[k] /\ b = f[j] /\ d = h[j]
      BY <2>2, <2>4
    <3>3. H[k + 1] = a + d /\ F[k + 1] = a + b
      BY <2>2, <2>6, <3>1, <3>2
    <3>4. (a + d) + b = (a + b) + d
      OBVIOUS
    <3>5. H[k + 1] + f[j] = F[k + 1] + h[j]
      BY <3>2, <3>3, <3>4
    <3> QED
      BY <2>1, <2>6, <3>5
  <2>7. CASE k + 1 > j
    <3>1. ~(k < j) /\ H[k] + f[j] = F[k] + h[j]
      BY <1>4, <2>7
    <3>2. h[k + 1] = f[k + 1]
      BY <2>3, <2>7
    <3>3. H[k + 1] = H[k] + f[k + 1] /\ F[k + 1] = F[k] + f[k + 1]
      BY <2>2, <3>2
    <3>4. PICK a \in Nat, b \in Nat, c \in Nat, d \in Nat, e \in Nat :
            a = H[k] /\ b = f[j] /\ c = F[k] /\ d = h[j] /\ e = f[k + 1]
      BY <2>2, <2>4
    <3>5. (H[k] + f[k + 1]) + f[j] = (F[k] + f[k + 1]) + h[j]
      <4>1. a + b = c + d
        BY <3>1, <3>4
      <4>2. (a + e) + b = (c + e) + d
        BY <4>1
      <4> QED
        BY <3>4, <4>2
    <3>6. H[k + 1] + f[j] = F[k + 1] + h[j]
      BY <3>3, <3>5
    <3> QED
      BY <2>1, <2>7, <3>6
  <2> QED
    BY <1>4, <2>5, <2>6, <2>7
<1> HIDE DEF P
<1>5. \A k \in 0..n : k \in P
  BY <1>3, <1>4, Upwards
<1>6. n \in P /\ ~(n < j)
  BY <1>5
<1> QED
  BY <1>1, <1>2, <1>6 DEF P, IsSum

(* Activities are lengthened one after the other.                            *)
LengthenSolves(g, base, s) ==
    g = [S \in SUBSET (DOMAIN s) |->
           IF S = {} THEN base ELSE Lengthen(g[S \ {Biggest(S)}], s[Biggest(S)])]

LEMMA LengthenIsFold ==
  ASSUME NEW base, NEW s
  PROVE  Seqs!FoldLeft(Lengthen, base, s) = (CHOOSE g : LengthenSolves(g, base, s))[DOMAIN s]
BY Zenon DEF Seqs!FoldLeft, Seqs!MapThenFoldSet, Biggest, Seqs!Max, LengthenSolves

LengthenRun(V, base, s, last) ==
    {F \in [0..Len(s) -> V] :
       /\ F[0] = base /\ F[Len(s)] = last
       /\ \A k \in 1..Len(s) : F[k] = Lengthen(F[k - 1], s[k])}

LEMMA LengthenRuns ==
  ASSUME NEW s, NEW n \in Nat, Len(s) = n, DOMAIN s = 1..n, NEW V, NEW base \in V,
         \A k \in 1..n : \A v \in V : Lengthen(v, s[k]) \in V
  PROVE  LengthenRun(V, base, s, Seqs!FoldLeft(Lengthen, base, s)) # {}
<1> DEFINE step == [k \in 1..n |-> [v \in V |-> Lengthen(v, s[k])]]
           g == CHOOSE x : LengthenSolves(x, base, s)
<1>1. step \in Steps(V, n) /\ \A k \in 1..n : \A v \in V : step[k][v] = Lengthen(v, s[k])
  BY DEF Steps
<1>2. \A S \in SUBSET (1..n) : S # {} => Biggest(S) \in 1..n /\ S \ {Biggest(S)} \in SUBSET (1..n)
  BY BiggestIs
<1> HIDE DEF step
<1>3. PICK h \in FoldOf(V, base, n, step) : TRUE
  BY <1>1, FoldExists
<1>4. LengthenSolves(h, base, s)
  <2> SUFFICES h = [S \in SUBSET (1..n) |->
                 IF S = {} THEN base ELSE Lengthen(h[S \ {Biggest(S)}], s[Biggest(S)])]
    BY DEF LengthenSolves
  <2>1. h \in [SUBSET (1..n) -> V]
    BY <1>3 DEF FoldOf
  <2>2. ASSUME NEW S \in SUBSET (1..n)
        PROVE  h[S] = IF S = {} THEN base ELSE Lengthen(h[S \ {Biggest(S)}], s[Biggest(S)])
    <3>1. h[S] = IF S = {} THEN base ELSE step[Biggest(S)][h[S \ {Biggest(S)}]]
      BY <1>3 DEF FoldOf
    <3>2. S # {} => h[S \ {Biggest(S)}] \in V /\ Biggest(S) \in 1..n
      BY <1>2, <2>1
    <3> QED
      BY <1>1, <3>1, <3>2
  <2> QED
    BY <2>1, <2>2
<1>5. LengthenSolves(g, base, s)
  BY <1>4, Zenon
<1> HIDE DEF g
<1>6. Folds(g, V, base, n, step)
  <2>1. g = [S \in SUBSET (1..n) |->
               IF S = {} THEN base ELSE Lengthen(g[S \ {Biggest(S)}], s[Biggest(S)])]
    BY <1>5 DEF LengthenSolves
  <2>2. g[{}] = base /\ \A S \in SUBSET (1..n) :
           S # {} => g[S] = Lengthen(g[S \ {Biggest(S)}], s[Biggest(S)])
    BY <2>1
  <2> QED
    BY <1>1, <1>2, <2>2 DEF Folds
<1>7. PICK F \in RunOf(V, base, n, step, g[1..n]) : TRUE
  BY <1>1, <1>6, FoldRuns
<1>8. F \in [0..n -> V] /\ F[0] = base /\ F[n] = g[1..n]
  BY <1>7 DEF RunOf
<1>9. g[1..n] = Seqs!FoldLeft(Lengthen, base, s)
  BY LengthenIsFold DEF g
<1>10. ASSUME NEW k \in 1..n PROVE F[k] = Lengthen(F[k - 1], s[k])
  <2>1. F[k] = step[k][F[k - 1]] /\ F[k - 1] \in V
    BY <1>7, <1>8 DEF RunOf
  <2> QED
    BY <1>1, <2>1
<1>11. F \in LengthenRun(V, base, s, Seqs!FoldLeft(Lengthen, base, s))
  BY <1>8, <1>9, <1>10 DEF LengthenRun
<1> QED
  BY <1>11

(* The same of the optional ones.                                            *)
KeepSolves(g, base, s) ==
    g = [S \in SUBSET (DOMAIN s) |->
           IF S = {} THEN base ELSE Keep(g[S \ {Biggest(S)}], s[Biggest(S)])]

LEMMA KeepIsFold ==
  ASSUME NEW base, NEW s
  PROVE  Seqs!FoldLeft(Keep, base, s) = (CHOOSE g : KeepSolves(g, base, s))[DOMAIN s]
BY Zenon DEF Seqs!FoldLeft, Seqs!MapThenFoldSet, Biggest, Seqs!Max, KeepSolves

KeepRun(V, base, s, last) ==
    {F \in [0..Len(s) -> V] :
       /\ F[0] = base /\ F[Len(s)] = last
       /\ \A k \in 1..Len(s) : F[k] = Keep(F[k - 1], s[k])}

LEMMA KeepRuns ==
  ASSUME NEW s, NEW n \in Nat, Len(s) = n, DOMAIN s = 1..n, NEW V, NEW base \in V,
         \A k \in 1..n : \A v \in V : Keep(v, s[k]) \in V
  PROVE  KeepRun(V, base, s, Seqs!FoldLeft(Keep, base, s)) # {}
<1> DEFINE step == [k \in 1..n |-> [v \in V |-> Keep(v, s[k])]]
           g == CHOOSE x : KeepSolves(x, base, s)
<1>1. step \in Steps(V, n) /\ \A k \in 1..n : \A v \in V : step[k][v] = Keep(v, s[k])
  BY DEF Steps
<1>2. \A S \in SUBSET (1..n) : S # {} => Biggest(S) \in 1..n /\ S \ {Biggest(S)} \in SUBSET (1..n)
  BY BiggestIs
<1> HIDE DEF step
<1>3. PICK h \in FoldOf(V, base, n, step) : TRUE
  BY <1>1, FoldExists
<1>4. KeepSolves(h, base, s)
  <2> SUFFICES h = [S \in SUBSET (1..n) |->
                 IF S = {} THEN base ELSE Keep(h[S \ {Biggest(S)}], s[Biggest(S)])]
    BY DEF KeepSolves
  <2>1. h \in [SUBSET (1..n) -> V]
    BY <1>3 DEF FoldOf
  <2>2. ASSUME NEW S \in SUBSET (1..n)
        PROVE  h[S] = IF S = {} THEN base ELSE Keep(h[S \ {Biggest(S)}], s[Biggest(S)])
    <3>1. h[S] = IF S = {} THEN base ELSE step[Biggest(S)][h[S \ {Biggest(S)}]]
      BY <1>3 DEF FoldOf
    <3>2. S # {} => h[S \ {Biggest(S)}] \in V /\ Biggest(S) \in 1..n
      BY <1>2, <2>1
    <3> QED
      BY <1>1, <3>1, <3>2
  <2> QED
    BY <2>1, <2>2
<1>5. KeepSolves(g, base, s)
  BY <1>4, Zenon
<1> HIDE DEF g
<1>6. Folds(g, V, base, n, step)
  <2>1. g = [S \in SUBSET (1..n) |->
               IF S = {} THEN base ELSE Keep(g[S \ {Biggest(S)}], s[Biggest(S)])]
    BY <1>5 DEF KeepSolves
  <2>2. g[{}] = base /\ \A S \in SUBSET (1..n) :
           S # {} => g[S] = Keep(g[S \ {Biggest(S)}], s[Biggest(S)])
    BY <2>1
  <2> QED
    BY <1>1, <1>2, <2>2 DEF Folds
<1>7. PICK F \in RunOf(V, base, n, step, g[1..n]) : TRUE
  BY <1>1, <1>6, FoldRuns
<1>8. F \in [0..n -> V] /\ F[0] = base /\ F[n] = g[1..n]
  BY <1>7 DEF RunOf
<1>9. g[1..n] = Seqs!FoldLeft(Keep, base, s)
  BY KeepIsFold DEF g
<1>10. ASSUME NEW k \in 1..n PROVE F[k] = Keep(F[k - 1], s[k])
  <2>1. F[k] = step[k][F[k - 1]] /\ F[k - 1] \in V
    BY <1>7, <1>8 DEF RunOf
  <2> QED
    BY <1>1, <2>1
<1>11. F \in KeepRun(V, base, s, Seqs!FoldLeft(Keep, base, s))
  BY <1>8, <1>9, <1>10 DEF KeepRun
<1> QED
  BY <1>11

(* The same of what is taken.                                                *)
TakeOne(priority, id, now, a) ==
    IF a.priority = priority /\ a.id # id THEN Take(now, a) ELSE now
TakeAll(priority, id, base, s) ==
    Seqs!FoldLeft(LAMBDA now, a : IF a.priority = priority /\ a.id # id THEN Take(now, a) ELSE now,
                  base, s)
TakenSolves(g, priority, id, base, s) ==
    g = [S \in SUBSET (DOMAIN s) |->
           IF S = {} THEN base ELSE TakeOne(priority, id, g[S \ {Biggest(S)}], s[Biggest(S)])]

LEMMA TakenIsFold ==
  ASSUME NEW priority, NEW id, NEW base, NEW s
  PROVE  TakeAll(priority, id, base, s) = (CHOOSE g : TakenSolves(g, priority, id, base, s))[DOMAIN s]
BY Zenon DEF TakeAll, TakeOne, Seqs!FoldLeft, Seqs!MapThenFoldSet, Biggest, Seqs!Max, TakenSolves

TakenRun(priority, id, V, base, s, last) ==
    {F \in [0..Len(s) -> V] :
       /\ F[0] = base /\ F[Len(s)] = last
       /\ \A k \in 1..Len(s) : F[k] = TakeOne(priority, id, F[k - 1], s[k])}

LEMMA TakenRuns ==
  ASSUME NEW priority, NEW id, NEW s, NEW n \in Nat, Len(s) = n, DOMAIN s = 1..n, NEW V, NEW base \in V,
         \A k \in 1..n : \A v \in V : TakeOne(priority, id, v, s[k]) \in V
  PROVE  TakenRun(priority, id, V, base, s, TakeAll(priority, id, base, s)) # {}
<1> DEFINE step == [k \in 1..n |-> [v \in V |-> TakeOne(priority, id, v, s[k])]]
           g == CHOOSE x : TakenSolves(x, priority, id, base, s)
<1>1. step \in Steps(V, n) /\ \A k \in 1..n : \A v \in V : step[k][v] = TakeOne(priority, id, v, s[k])
  BY DEF Steps
<1>2. \A S \in SUBSET (1..n) : S # {} => Biggest(S) \in 1..n /\ S \ {Biggest(S)} \in SUBSET (1..n)
  BY BiggestIs
<1> HIDE DEF step
<1>3. PICK h \in FoldOf(V, base, n, step) : TRUE
  BY <1>1, FoldExists
<1>4. TakenSolves(h, priority, id, base, s)
  <2> SUFFICES h = [S \in SUBSET (1..n) |->
                 IF S = {} THEN base ELSE TakeOne(priority, id, h[S \ {Biggest(S)}], s[Biggest(S)])]
    BY DEF TakenSolves
  <2>1. h \in [SUBSET (1..n) -> V]
    BY <1>3 DEF FoldOf
  <2>2. ASSUME NEW S \in SUBSET (1..n)
        PROVE  h[S] = IF S = {} THEN base ELSE TakeOne(priority, id, h[S \ {Biggest(S)}], s[Biggest(S)])
    <3>1. h[S] = IF S = {} THEN base ELSE step[Biggest(S)][h[S \ {Biggest(S)}]]
      BY <1>3 DEF FoldOf
    <3>2. S # {} => h[S \ {Biggest(S)}] \in V /\ Biggest(S) \in 1..n
      BY <1>2, <2>1
    <3> QED
      BY <1>1, <3>1, <3>2
  <2> QED
    BY <2>1, <2>2
<1>5. TakenSolves(g, priority, id, base, s)
  BY <1>4, Zenon
<1> HIDE DEF g
<1>6. Folds(g, V, base, n, step)
  <2>1. g = [S \in SUBSET (1..n) |->
               IF S = {} THEN base ELSE TakeOne(priority, id, g[S \ {Biggest(S)}], s[Biggest(S)])]
    BY <1>5 DEF TakenSolves
  <2>2. g[{}] = base /\ \A S \in SUBSET (1..n) :
           S # {} => g[S] = TakeOne(priority, id, g[S \ {Biggest(S)}], s[Biggest(S)])
    BY <2>1
  <2> QED
    BY <1>1, <1>2, <2>2 DEF Folds
<1>7. PICK F \in RunOf(V, base, n, step, g[1..n]) : TRUE
  BY <1>1, <1>6, FoldRuns
<1>8. F \in [0..n -> V] /\ F[0] = base /\ F[n] = g[1..n]
  BY <1>7 DEF RunOf
<1>9. g[1..n] = TakeAll(priority, id, base, s)
  BY TakenIsFold DEF g
<1>10. ASSUME NEW k \in 1..n PROVE F[k] = TakeOne(priority, id, F[k - 1], s[k])
  <2>1. F[k] = step[k][F[k - 1]] /\ F[k - 1] \in V
    BY <1>7, <1>8 DEF RunOf
  <2> QED
    BY <1>1, <2>1
<1>11. F \in TakenRun(priority, id, V, base, s, TakeAll(priority, id, base, s))
  BY <1>8, <1>9, <1>10 DEF TakenRun
<1> QED
  BY <1>11

(* The same of what is packed.                                               *)
Pack(length, packed, a) ==
    IF length[a.id] = 0 THEN packed
    ELSE Append(packed, [a EXCEPT !.start = Total(packed), !.length = length[a.id]])
Packing(length, base, s) ==
    Seqs!FoldLeft(LAMBDA packed, a :
                    IF length[a.id] = 0 THEN packed
                    ELSE Append(packed, [a EXCEPT !.start = Total(packed),
                                                  !.length = length[a.id]]),
                  base, s)
PackedSolves(g, length, base, s) ==
    g = [S \in SUBSET (DOMAIN s) |->
           IF S = {} THEN base ELSE Pack(length, g[S \ {Biggest(S)}], s[Biggest(S)])]

LEMMA PackedIsFold ==
  ASSUME NEW length, NEW base, NEW s
  PROVE  Packing(length, base, s) = (CHOOSE g : PackedSolves(g, length, base, s))[DOMAIN s]
BY Zenon DEF Packing, Pack, Seqs!FoldLeft, Seqs!MapThenFoldSet, Biggest, Seqs!Max, PackedSolves

PackedRun(length, V, base, s, last) ==
    {F \in [0..Len(s) -> V] :
       /\ F[0] = base /\ F[Len(s)] = last
       /\ \A k \in 1..Len(s) : F[k] = Pack(length, F[k - 1], s[k])}

LEMMA PackedRuns ==
  ASSUME NEW length, NEW s, NEW n \in Nat, Len(s) = n, DOMAIN s = 1..n, NEW V, NEW base \in V,
         \A k \in 1..n : \A v \in V : Pack(length, v, s[k]) \in V
  PROVE  PackedRun(length, V, base, s, Packing(length, base, s)) # {}
<1> DEFINE step == [k \in 1..n |-> [v \in V |-> Pack(length, v, s[k])]]
           g == CHOOSE x : PackedSolves(x, length, base, s)
<1>1. step \in Steps(V, n) /\ \A k \in 1..n : \A v \in V : step[k][v] = Pack(length, v, s[k])
  BY DEF Steps
<1>2. \A S \in SUBSET (1..n) : S # {} => Biggest(S) \in 1..n /\ S \ {Biggest(S)} \in SUBSET (1..n)
  BY BiggestIs
<1> HIDE DEF step
<1>3. PICK h \in FoldOf(V, base, n, step) : TRUE
  BY <1>1, FoldExists
<1>4. PackedSolves(h, length, base, s)
  <2> SUFFICES h = [S \in SUBSET (1..n) |->
                 IF S = {} THEN base ELSE Pack(length, h[S \ {Biggest(S)}], s[Biggest(S)])]
    BY DEF PackedSolves
  <2>1. h \in [SUBSET (1..n) -> V]
    BY <1>3 DEF FoldOf
  <2>2. ASSUME NEW S \in SUBSET (1..n)
        PROVE  h[S] = IF S = {} THEN base ELSE Pack(length, h[S \ {Biggest(S)}], s[Biggest(S)])
    <3>1. h[S] = IF S = {} THEN base ELSE step[Biggest(S)][h[S \ {Biggest(S)}]]
      BY <1>3 DEF FoldOf
    <3>2. S # {} => h[S \ {Biggest(S)}] \in V /\ Biggest(S) \in 1..n
      BY <1>2, <2>1
    <3> QED
      BY <1>1, <3>1, <3>2
  <2> QED
    BY <2>1, <2>2
<1>5. PackedSolves(g, length, base, s)
  BY <1>4, Zenon
<1> HIDE DEF g
<1>6. Folds(g, V, base, n, step)
  <2>1. g = [S \in SUBSET (1..n) |->
               IF S = {} THEN base ELSE Pack(length, g[S \ {Biggest(S)}], s[Biggest(S)])]
    BY <1>5 DEF PackedSolves
  <2>2. g[{}] = base /\ \A S \in SUBSET (1..n) :
           S # {} => g[S] = Pack(length, g[S \ {Biggest(S)}], s[Biggest(S)])
    BY <2>1
  <2> QED
    BY <1>1, <1>2, <2>2 DEF Folds
<1>7. PICK F \in RunOf(V, base, n, step, g[1..n]) : TRUE
  BY <1>1, <1>6, FoldRuns
<1>8. F \in [0..n -> V] /\ F[0] = base /\ F[n] = g[1..n]
  BY <1>7 DEF RunOf
<1>9. g[1..n] = Packing(length, base, s)
  BY PackedIsFold DEF g
<1>10. ASSUME NEW k \in 1..n PROVE F[k] = Pack(length, F[k - 1], s[k])
  <2>1. F[k] = step[k][F[k - 1]] /\ F[k - 1] \in V
    BY <1>7, <1>8 DEF RunOf
  <2> QED
    BY <1>1, <2>1
<1>11. F \in PackedRun(length, V, base, s, Packing(length, base, s))
  BY <1>8, <1>9, <1>10 DEF PackedRun
<1> QED
  BY <1>11

(* What repack has made of the first k activities.                           *)
IsFrom(b, a, length) ==
    /\ length[a.id] > 0 /\ b.id = a.id /\ b.priority = a.priority /\ b.length = length[a.id]
Ends(p, time) == p # <<>> => p[Len(p)].start + p[Len(p)].length = time
Packs(p, s, length, k, time) ==
    /\ IsSchedule(p) /\ Follow(p) /\ Total(p) = time /\ Ends(p, time)
    /\ \A j \in DOMAIN p : \E i \in 1..k : IsFrom(p[j], s[i], length)
    /\ \A i \in 1..k : length[s[i].id] > 0 => \E j \in DOMAIN p : IsFrom(p[j], s[i], length)

LEMMA TotalIs ==
  ASSUME NEW p \in Seq(Activities)
  PROVE  Total(p) \in Nat
<1>1. [i \in DOMAIN p |-> p[i].length] \in [1..Len(p) -> Nat] /\ Len(p) \in Nat
  BY ScheduleIs
<1>2. PICK F : IsSum(F, Len(p), [i \in DOMAIN p |-> p[i].length])
  BY <1>1, SumRuns
<1> QED
  BY <1>1, <1>2, SumIs DEF Total

LEMMA TotalAppends ==
  ASSUME NEW p \in Seq(Activities), NEW a \in Activities
  PROVE  Total(Append(p, a)) = Total(p) + a.length
<1> DEFINE n == Len(p)
           f == [i \in DOMAIN p |-> p[i].length]
           q == Append(p, a)
           h == [i \in DOMAIN q |-> q[i].length]
<1>1. n \in Nat /\ DOMAIN p = 1..n /\ f \in [1..n -> Nat]
  BY ScheduleIs
<1>2. q \in Seq(Activities) /\ Len(q) = n + 1 /\ q[n + 1] = a /\ \A k \in 1..n : q[k] = p[k]
  OBVIOUS
<1> HIDE DEF q
<1>3. DOMAIN q = 1..n + 1 /\ h \in [1..n + 1 -> Nat]
  BY <1>2, ScheduleIs
<1>4. \A k \in 1..n : h[k] = f[k]
  BY <1>1, <1>2, <1>3
<1>5. h[n + 1] = a.length
  BY <1>1, <1>2, <1>3
<1> HIDE DEF f, h, n
<1>6. Sum(h) = Sum(f) + h[n + 1]
  BY <1>1, <1>3, <1>4, SumAppends
<1> QED
  BY <1>5, <1>6 DEF Total, f, h, q

LEMMA TotalOfNone ==
  Total(<<>>) = 0
<1> DEFINE p == <<>>
           f == [i \in DOMAIN p |-> p[i].length]
           F == [k \in 0..0 |-> 0]
<1>1. f \in [1..0 -> Nat] /\ 0 \in Nat
  OBVIOUS
<1>2. IsSum(F, 0, f)
  BY DEF IsSum
<1>3. F[0] = 0
  OBVIOUS
<1> HIDE DEF f, F
<1>4. Sum(f) = 0
  BY <1>1, <1>2, <1>3, SumIs
<1> QED
  BY <1>4 DEF Total, f

LEMMA PackKeeps ==
  ASSUME NEW s, IsSchedule(s), NEW length \in [Ids(s) -> Nat], NEW k \in Nat, k < Len(s),
         NEW time \in Nat, NEW p, Packs(p, s, length, k, time)
  PROVE  Packs(Pack(length, p, s[k + 1]), s, length, k + 1, time + length[s[k + 1].id])
<1> DEFINE a == s[k + 1]
           e == [a EXCEPT !.start = Total(p), !.length = length[a.id]]
           q == Append(p, e)
<1>1. s \in Seq(Activities) /\ \A i, j \in 1..Len(s) : s[i].id = s[j].id => i = j
  BY ScheduleIs DEF IsSchedule
<1>2. k + 1 \in 1..Len(s) /\ a \in Activities /\ a.id \in Ids(s) /\ length[a.id] \in Nat
  <2>1. k + 1 \in 1..Len(s)
    BY <1>1, ScheduleIs
  <2> QED
    BY <1>1, <2>1, ScheduleIs
<1>3. p \in Seq(Activities) /\ Len(p) \in Nat /\ DOMAIN p = 1..Len(p) /\ Total(p) = time
      /\ \A j \in DOMAIN p : p[j] \in Activities
  BY ScheduleIs DEF Packs, IsSchedule
<1>4. \A i \in 1..k + 1 : i \in 1..k \/ i = k + 1
  OBVIOUS
<1>5. 1..k \subseteq 1..k + 1
  OBVIOUS
<1>6. CASE length[a.id] = 0
  <2>1. Pack(length, p, a) = p /\ time + length[a.id] = time
    BY <1>6 DEF Pack
  <2>2. \A j \in DOMAIN p : \E i \in 1..k + 1 : IsFrom(p[j], s[i], length)
    BY <1>5 DEF Packs
  <2>3. \A i \in 1..k + 1 : length[s[i].id] > 0 => \E j \in DOMAIN p : IsFrom(p[j], s[i], length)
    <3> SUFFICES ASSUME NEW i \in 1..k + 1, length[s[i].id] > 0
                 PROVE  \E j \in DOMAIN p : IsFrom(p[j], s[i], length)
      OBVIOUS
    <3>1. i \in 1..k
      BY <1>4, <1>6
    <3> QED
      BY <3>1 DEF Packs
  <2> QED
    BY <2>1, <2>2, <2>3 DEF Packs
<1>7. CASE length[a.id] # 0
  <2>1. Pack(length, p, a) = q
    BY <1>7 DEF Pack
  <2>2. e \in Activities /\ e.id = a.id /\ e.priority = a.priority /\ e.length = length[a.id]
        /\ e.start = time
    BY <1>2, <1>3, <1>7 DEF Activities
  <2>3. IsFrom(e, a, length) /\ e.length > 0
    BY <1>2, <1>7, <2>2 DEF IsFrom
  <2> HIDE DEF e
  <2>4. q \in Seq(Activities) /\ Len(q) = Len(p) + 1 /\ DOMAIN q = 1..Len(p) + 1
        /\ q[Len(p) + 1] = e /\ \A j \in 1..Len(p) : q[j] = p[j]
    BY <1>3, <2>2
  <2> HIDE DEF q
  <2>5. \A j \in DOMAIN q : j \in 1..Len(p) \/ j = Len(p) + 1
    BY <1>3, <2>4
  <2>6. \A j \in 1..Len(p) : \E i \in 1..k : IsFrom(p[j], s[i], length)
    BY <1>3 DEF Packs
  <2>7. \A j \in 1..Len(p) : p[j].id # e.id
    <3> SUFFICES ASSUME NEW j \in 1..Len(p), p[j].id = e.id PROVE FALSE
      OBVIOUS
    <3>1. PICK i \in 1..k : IsFrom(p[j], s[i], length)
      BY <2>6
    <3>2. s[i].id = s[k + 1].id /\ i \in 1..Len(s)
      BY <1>1, <2>2, <3>1, ScheduleIs DEF IsFrom
    <3>3. i = k + 1
      BY <1>1, <1>2, <3>2
    <3> QED
      BY <3>3
  <2>8. IsSchedule(q)
    <3> SUFFICES ASSUME NEW i \in DOMAIN q, NEW j \in DOMAIN q, q[i].id = q[j].id PROVE i = j
      BY <2>4 DEF IsSchedule
    <3>1. CASE i \in 1..Len(p) /\ j \in 1..Len(p)
      BY <1>3, <2>4, <3>1 DEF Packs, IsSchedule
    <3>2. CASE i = Len(p) + 1 /\ j \in 1..Len(p)
      BY <2>4, <2>7, <3>2
    <3>3. CASE i \in 1..Len(p) /\ j = Len(p) + 1
      BY <2>4, <2>7, <3>3
    <3> QED
      BY <2>5, <3>1, <3>2, <3>3
  <2>9. Total(q) = time + length[a.id]
    BY <1>3, <2>2, TotalAppends DEF q
  <2>10. Ends(q, time + length[a.id])
    BY <2>2, <2>4 DEF Ends
  <2>11. Follow(q)
    <3>1. q[1].start = 0
      <4>1. CASE p = <<>>
        <5>1. time = 0 /\ Len(p) + 1 = 1
          BY <1>3, <4>1, TotalOfNone
        <5> QED
          BY <2>2, <2>4, <5>1
      <4>2. CASE p # <<>>
        <5>1. 1 \in 1..Len(p)
          BY <1>3, <4>2
        <5> QED
          BY <2>4, <4>2, <5>1 DEF Packs, Follow
      <4> QED
        BY <4>1, <4>2
    <3>2. ASSUME NEW i \in 1..Len(q) - 1 PROVE q[i + 1].start = q[i].start + q[i].length
      <4>1. i \in 1..Len(p)
        BY <1>3, <2>4
      <4>2. CASE i = Len(p)
        <5>1. p # <<>> /\ q[i] = p[i] /\ q[i + 1] = e
          BY <1>3, <2>4, <4>1, <4>2
        <5> QED
          BY <2>2, <4>2, <5>1 DEF Packs, Ends
      <4>3. CASE i # Len(p)
        <5>0. PICK m \in Nat : m = Len(p)
          BY <1>3
        <5>1. i \in 1..m - 1 /\ i + 1 \in 1..m
          BY <4>1, <4>3, <5>0
        <5>2. p[i + 1].start = p[i].start + p[i].length
          BY <5>0, <5>1 DEF Packs, Follow
        <5>3. q[i + 1] = p[i + 1] /\ q[i] = p[i]
          BY <2>4, <5>0, <5>1
        <5> QED
          BY <5>2, <5>3, Zenon
      <4> QED
        BY <4>2, <4>3
    <3> QED
      BY <3>1, <3>2 DEF Follow
  <2>12. \A j \in DOMAIN q : \E i \in 1..k + 1 : IsFrom(q[j], s[i], length)
    <3> SUFFICES ASSUME NEW j \in DOMAIN q PROVE \E i \in 1..k + 1 : IsFrom(q[j], s[i], length)
      OBVIOUS
    <3>1. CASE j \in 1..Len(p)
      BY <1>5, <2>4, <2>6, <3>1
    <3>2. CASE j = Len(p) + 1
      <4>1. k + 1 \in 1..k + 1
        OBVIOUS
      <4> QED
        BY <2>3, <2>4, <3>2, <4>1
    <3> QED
      BY <2>5, <3>1, <3>2
  <2>13. \A i \in 1..k + 1 : length[s[i].id] > 0 => \E j \in DOMAIN q : IsFrom(q[j], s[i], length)
    <3> SUFFICES ASSUME NEW i \in 1..k + 1, length[s[i].id] > 0
                 PROVE  \E j \in DOMAIN q : IsFrom(q[j], s[i], length)
      OBVIOUS
    <3>1. CASE i \in 1..k
      <4>1. PICK j \in DOMAIN p : IsFrom(p[j], s[i], length)
        BY <3>1 DEF Packs
      <4>2. j \in 1..Len(p) + 1 /\ q[j] = p[j]
        BY <1>3, <2>4, <4>1
      <4> QED
        BY <2>4, <4>1, <4>2
    <3>2. CASE i = k + 1
      <4>1. Len(p) + 1 \in 1..Len(p) + 1
        BY <1>3
      <4> QED
        BY <2>3, <2>4, <3>2, <4>1
    <3> QED
      BY <1>4, <3>1, <3>2
  <2> QED
    BY <2>1, <2>8, <2>9, <2>10, <2>11, <2>12, <2>13 DEF Packs
<1> QED
  BY <1>6, <1>7

Lengths(s, length) == [k \in 1..Len(s) |-> length[s[k].id]]

(* What repack makes of a schedule.                                          *)
LEMMA RepackPacks ==
  ASSUME NEW s, IsSchedule(s), NEW length \in [Ids(s) -> Nat]
  PROVE  Packs(Repack(s, length), s, length, Len(s), Sum(Lengths(s, length)))
<1> DEFINE n == Len(s)
           f == Lengths(s, length)
           V == Seq(Activities)
<1>1. s \in Seq(Activities) /\ n \in Nat /\ DOMAIN s = 1..n
      /\ \A k \in 1..n : s[k] \in Activities /\ s[k].id \in Ids(s)
  BY ScheduleIs DEF IsSchedule
<1>2. f \in [1..n -> Nat]
  BY <1>1 DEF Lengths
<1>3. PICK G : IsSum(G, n, f) /\ G[n] = Sum(f)
  <2> HIDE DEF f
  <2> QED
    BY <1>1, <1>2, SumRuns
<1>4. ASSUME NEW k \in 1..n, NEW v \in V PROVE Pack(length, v, s[k]) \in V
  <2> DEFINE e == [s[k] EXCEPT !.start = Total(v), !.length = length[s[k].id]]
  <2>1. Total(v) \in Nat /\ length[s[k].id] \in Nat
    BY <1>1, TotalIs
  <2>2. length[s[k].id] # 0 => e \in Activities
    BY <1>1, <2>1 DEF Activities
  <2> HIDE DEF e
  <2>3. length[s[k].id] # 0 => Append(v, e) \in V
    BY <2>2
  <2> QED
    BY <2>3 DEF Pack, e
<1>5. Repack(s, length) = Packing(length, <<>>, s)
  BY Zenon DEF Repack, Packing
<1>6. <<>> \in V
  OBVIOUS
<1>7. PICK F \in PackedRun(length, V, <<>>, s, Packing(length, <<>>, s)) : TRUE
  <2> HIDE DEF V
  <2> QED
    BY <1>1, <1>4, <1>6, PackedRuns
<1> DEFINE P == {k \in 0..n : Packs(F[k], s, length, k, G[k])}
<1>8. 0 \in P
  <2>1. F[0] = <<>> /\ G[0] = 0
    BY <1>3, <1>7 DEF PackedRun, IsSum
  <2>2. IsSchedule(<<>>) /\ Follow(<<>>) /\ Ends(<<>>, 0) /\ DOMAIN <<>> = {} /\ 1..0 = {}
    BY DEF IsSchedule, Follow, Ends
  <2>3. Packs(<<>>, s, length, 0, 0)
    BY <2>2, TotalOfNone DEF Packs
  <2> QED
    BY <1>1, <2>1, <2>3
<1>9. ASSUME NEW k \in 0..n, k < n, k \in P PROVE k + 1 \in P
  <2>1. k + 1 \in 1..n /\ (k + 1) - 1 = k /\ k \in Nat /\ k + 1 \in 0..n
    BY <1>1, <1>9
  <2>2. F[k + 1] = Pack(length, F[k], s[k + 1])
    BY <1>7, <2>1 DEF PackedRun
  <2>3. G[k + 1] = G[k] + f[k + 1] /\ G[k] \in Nat
    BY <1>3, <2>1 DEF IsSum
  <2>4. f[k + 1] = length[s[k + 1].id]
    BY <2>1 DEF Lengths
  <2>5. Packs(F[k], s, length, k, G[k])
    BY <1>9
  <2>6. Packs(F[k + 1], s, length, k + 1, G[k + 1])
    BY <1>9, <2>1, <2>2, <2>3, <2>4, <2>5, PackKeeps
  <2> QED
    BY <2>1, <2>6
<1> HIDE DEF P, f
<1>10. \A k \in 0..n : k \in P
  BY <1>1, <1>8, <1>9, Upwards
<1>11. n \in P
  BY <1>1, <1>10
<1>12. F[n] = Repack(s, length)
  BY <1>5, <1>7 DEF PackedRun
<1> QED
  BY <1>3, <1>11, <1>12 DEF P, f

LEMMA FindIs ==
  ASSUME NEW s, IsSchedule(s), NEW k \in 1..Len(s)
  PROVE  Find(s, s[k].id) = s[k]
<1>1. s \in Seq(Activities) /\ DOMAIN s = 1..Len(s)
      /\ \A i, j \in DOMAIN s : s[i].id = s[j].id => i = j
  BY ScheduleIs DEF IsSchedule
<1>2. Seqs!ToSet(s) = {s[i] : i \in DOMAIN s}
  BY DEF Seqs!ToSet
<1>3. s[k] \in Seqs!ToSet(s) /\ \A a \in Seqs!ToSet(s) : a.id = s[k].id => a = s[k]
  BY <1>1, <1>2
<1> DEFINE T == Seqs!ToSet(s)
           id == s[k].id
<1>4. \E a \in T : a.id = id
  BY <1>3
<1> HIDE DEF T
<1>5. (CHOOSE a \in T : a.id = id) \in T /\ (CHOOSE a \in T : a.id = id).id = id
  BY <1>4, Zenon
<1> QED
  BY <1>3, <1>5 DEF Find, T

LEMMA RepackGives ==
  ASSUME NEW s, IsSchedule(s), NEW length \in [Ids(s) -> Nat], NEW new, new = Repack(s, length)
  PROVE  /\ IsSchedule(new) /\ Follow(new) /\ Total(new) = Sum(Lengths(s, length))
         /\ \A k \in 1..Len(s) :
              IF length[s[k].id] > 0
              THEN Has(new, s[k].id) /\ LengthOf(new, s[k].id) = length[s[k].id]
              ELSE ~Has(new, s[k].id)
         /\ \A b \in Seqs!ToSet(new) : \E i \in 1..Len(s) : IsFrom(b, s[i], length)
<1>1. Packs(new, s, length, Len(s), Sum(Lengths(s, length)))
  BY RepackPacks
<1>2. IsSchedule(new) /\ new \in Seq(Activities) /\ DOMAIN new = 1..Len(new)
  BY <1>1, ScheduleIs DEF Packs, IsSchedule
<1>3. ASSUME NEW k \in 1..Len(s), length[s[k].id] > 0
      PROVE  Has(new, s[k].id) /\ LengthOf(new, s[k].id) = length[s[k].id]
  <2>1. PICK j \in DOMAIN new : IsFrom(new[j], s[k], length)
    BY <1>1, <1>3 DEF Packs
  <2>2. new[j].id = s[k].id /\ new[j].length = length[s[k].id]
    BY <2>1 DEF IsFrom
  <2>3. Has(new, s[k].id)
    BY <2>2 DEF Has, Ids
  <2>4. Find(new, new[j].id) = new[j]
    BY <1>2, FindIs
  <2> QED
    BY <2>2, <2>3, <2>4 DEF LengthOf
<1>4. ASSUME NEW k \in 1..Len(s), Has(new, s[k].id) PROVE length[s[k].id] > 0
  <2>1. PICK j \in DOMAIN new : new[j].id = s[k].id
    BY <1>4 DEF Has, Ids
  <2>2. PICK i \in 1..Len(s) : IsFrom(new[j], s[i], length)
    BY <1>1 DEF Packs
  <2>3. s[i].id = s[k].id /\ length[s[i].id] > 0
    BY <2>1, <2>2 DEF IsFrom
  <2> QED
    BY <2>3
<1>5. Seqs!ToSet(new) = {new[i] : i \in DOMAIN new}
  BY DEF Seqs!ToSet
<1>6. \A b \in Seqs!ToSet(new) : \E i \in 1..Len(s) : IsFrom(b, s[i], length)
  BY <1>1, <1>5 DEF Packs
<1> QED
  BY <1>1, <1>3, <1>4, <1>6 DEF Packs

(* One activity is given another length.                                     *)
Lefts(s) == [time : Nat, length : [Ids(s) -> Nat]]
GivenTime(v, s) == Sum(Lengths(s, v.length))

LEMMA GivenIs ==
  ASSUME NEW s, IsSchedule(s), NEW length \in [Ids(s) -> Nat]
  PROVE  Lengths(s, length) \in [1..Len(s) -> Nat] /\ Sum(Lengths(s, length)) \in Nat
<1>1. Len(s) \in Nat /\ \A k \in 1..Len(s) : s[k].id \in Ids(s)
  BY ScheduleIs DEF IsSchedule
<1>2. Lengths(s, length) \in [1..Len(s) -> Nat]
  BY <1>1 DEF Lengths
<1>3. PICK F : IsSum(F, Len(s), Lengths(s, length))
  BY <1>1, <1>2, SumRuns
<1> QED
  BY <1>1, <1>2, <1>3, SumIs

Changed(new, s, length, k, x) ==
    /\ new \in [Ids(s) -> Nat] /\ new[s[k].id] = x
    /\ \A i \in 1..Len(s) \ {k} : new[s[i].id] = length[s[i].id]
    /\ Sum(Lengths(s, new)) + length[s[k].id] = Sum(Lengths(s, length)) + x

LEMMA GivenChanges ==
  ASSUME NEW s, IsSchedule(s), NEW length \in [Ids(s) -> Nat], NEW k \in 1..Len(s),
         NEW x \in Nat
  PROVE  Changed([length EXCEPT ![s[k].id] = x], s, length, k, x)
<1> DEFINE new == [length EXCEPT ![s[k].id] = x]
<1>1. Len(s) \in Nat /\ \A i \in 1..Len(s) : s[i].id \in Ids(s)
      /\ \A j \in 1..Len(s) : s[i].id = s[j].id => i = j
  BY ScheduleIs DEF IsSchedule
<1>2. new \in [Ids(s) -> Nat] /\ new[s[k].id] = x
  BY <1>1
<1>3. \A i \in 1..Len(s) \ {k} : new[s[i].id] = length[s[i].id]
  BY <1>1
<1> DEFINE f == Lengths(s, length)
           h == Lengths(s, new)
<1>4. f \in [1..Len(s) -> Nat] /\ h \in [1..Len(s) -> Nat]
  BY <1>2, GivenIs
<1>5. \A i \in 1..Len(s) : f[i] = length[s[i].id] /\ h[i] = new[s[i].id]
  BY DEF Lengths
<1>6. \A i \in 1..Len(s) \ {k} : h[i] = f[i]
  BY <1>3, <1>5
<1> HIDE DEF f, h
<1>7. Sum(h) + f[k] = Sum(f) + h[k]
  <2>1. PICK n \in Nat : n = Len(s)
    BY <1>1
  <2>2. k \in 1..n /\ f \in [1..n -> Nat] /\ h \in [1..n -> Nat]
        /\ \A i \in 1..n \ {k} : h[i] = f[i]
    BY <1>4, <1>6, <2>1
  <2> QED
    BY <2>2, SumChanges
<1> HIDE DEF new
<1>8. Changed(new, s, length, k, x)
  BY <1>2, <1>3, <1>5, <1>7 DEF f, h, Changed
<1> QED
  BY <1>8 DEF new

-----------------------------------------------------------------------------
(* fitSchedule.                                                              *)
LEMMA SmallerIs ==
  ASSUME NEW a \in Nat, NEW b \in Nat
  PROVE  /\ Smaller(a, b) \in Nat /\ Smaller(a, b) <= a /\ Smaller(a, b) <= b
         /\ Smaller(a, b) < a => Smaller(a, b) = b
BY DEF Smaller

LEMMA LessIs ==
  ASSUME NEW a \in Nat, NEW b \in Nat
  PROVE  Less(a, b) \in Nat /\ a <= b + Less(a, b)
BY DEF Less

LEMMA NeedsIs ==
  ASSUME NEW s, IsSchedule(s), NEW i \in 1..Len(s)
  PROVE  Needs(s[i]) \in Nat
BY ScheduleIs, ScheduleAssumption DEF IsSchedule, Needs

MayGrow(a, length, time) ==
    /\ length >= Least /\ length <= Least + Less(a.length, Least)
    /\ length < a.length => time = 0
Lengthened(v, s, target, k) ==
    /\ v \in Lefts(s) /\ v.time + GivenTime(v, s) = target
    /\ \A i \in 1..Len(s) :
         IF s[i].priority = "compressible" /\ i <= k
         THEN MayGrow(s[i], v.length[s[i].id], v.time)
         ELSE v.length[s[i].id] = Needs(s[i])

LEMMA LengthenKeeps ==
  ASSUME NEW s, IsSchedule(s), NEW target \in Nat, NEW k \in Nat, k < Len(s), NEW v,
         Lengthened(v, s, target, k)
  PROVE  Lengthened(Lengthen(v, s[k + 1]), s, target, k + 1)
<1> DEFINE a == s[k + 1]
           w == Lengthen(v, a)
<1>1. k + 1 \in 1..Len(s) /\ a.id \in Ids(s) /\ a.length \in Nat /\ Len(s) \in Nat
      /\ \A i \in 1..Len(s) : s[i].id \in Ids(s) /\ s[i].length \in Nat
  <2>1. k + 1 \in 1..Len(s) /\ Len(s) \in Nat
    BY ScheduleIs DEF IsSchedule
  <2> QED
    BY <2>1, ScheduleIs DEF IsSchedule
<1>2. v.time \in Nat /\ v.length \in [Ids(s) -> Nat] /\ v.time + Sum(Lengths(s, v.length)) = target
      /\ Sum(Lengths(s, v.length)) \in Nat
  BY GivenIs DEF Lengthened, Lefts, GivenTime
<1>3. Least \in Nat /\ Least > 0
  BY ScheduleAssumption
<1>4. CASE a.priority # "compressible"
  <2>1. w = v
    BY <1>4 DEF Lengthen
  <2>2. \A i \in 1..Len(s) : s[i].priority = "compressible" => (i <= k + 1 <=> i <= k)
    BY <1>1, <1>4
  <2> QED
    BY <2>1, <2>2 DEF Lengthened
<1>5. CASE a.priority = "compressible"
  <2> DEFINE extra == Smaller(Less(a.length, Least), v.time)
             length == [v.length EXCEPT ![a.id] = Least + extra]
  <2>1. extra \in Nat /\ extra <= v.time /\ extra <= Less(a.length, Least)
        /\ (extra < Less(a.length, Least) => extra = v.time) /\ Less(a.length, Least) \in Nat
        /\ a.length <= Least + Less(a.length, Least)
    <3>1. Less(a.length, Least) \in Nat /\ a.length <= Least + Less(a.length, Least)
      BY <1>1, <1>3, LessIs
    <3> QED
      BY <1>2, <3>1, SmallerIs
  <2>2. w.time = v.time - extra /\ w.length = length /\ w = [time |-> v.time - extra, length |-> length]
    BY <1>5 DEF Lengthen
  <2> HIDE DEF extra
  <2>3. v.length[a.id] = Least
    <3>1. ~(k + 1 <= k)
      OBVIOUS
    <3> QED
      BY <1>1, <1>5, <3>1 DEF Lengthened, Needs
  <2>4. /\ length \in [Ids(s) -> Nat] /\ length[a.id] = Least + extra
        /\ \A i \in 1..Len(s) \ {k + 1} : length[s[i].id] = v.length[s[i].id]
        /\ Sum(Lengths(s, length)) + Least = Sum(Lengths(s, v.length)) + (Least + extra)
    <3>1. Least + extra \in Nat
      BY <1>3, <2>1
    <3>2. length = [v.length EXCEPT ![s[k + 1].id] = Least + extra]
      OBVIOUS
    <3> HIDE DEF length
    <3>3. PICK j \in 1..Len(s) : j = k + 1
      BY <1>1
    <3>4. v.length \in [Ids(s) -> Nat] /\ length = [v.length EXCEPT ![s[j].id] = Least + extra]
      BY <1>2, <3>2, <3>3
    <3>5. Changed(length, s, v.length, j, Least + extra)
      BY <3>1, <3>4, GivenChanges
    <3> QED
      BY <2>3, <3>3, <3>5 DEF Changed
  <2> HIDE DEF length
  <2>5. Sum(Lengths(s, length)) = Sum(Lengths(s, v.length)) + extra
    <3>1. PICK p \in Nat : p = Sum(Lengths(s, length))
      BY <2>4, GivenIs
    <3>2. PICK q \in Nat : q = Sum(Lengths(s, v.length))
      BY <1>2
    <3>3. p + Least = q + (Least + extra)
      BY <2>4, <3>1, <3>2
    <3>4. p = q + extra
      BY <1>3, <2>1, <3>3
    <3> QED
      BY <3>1, <3>2, <3>4
  <2>6. v.time - extra \in Nat /\ v.time - extra <= v.time
    BY <1>2, <2>1
  <2>7. w \in Lefts(s) /\ w.time + GivenTime(w, s) = target
    <3>1. (v.time - extra) + (Sum(Lengths(s, v.length)) + extra) = target
      BY <1>2, <2>1
    <3> QED
      BY <2>2, <2>4, <2>5, <2>6, <3>1 DEF Lefts, GivenTime
  <2>8. MayGrow(a, w.length[a.id], w.time)
    <3>1. Least + extra < a.length => extra < Less(a.length, Least)
      BY <1>1, <1>3, <2>1
    <3>2. extra = v.time => v.time - extra = 0
      BY <1>2
    <3> QED
      BY <1>3, <2>1, <2>2, <2>4, <3>1, <3>2 DEF MayGrow
  <2>9. ASSUME NEW i \in 1..Len(s), i # k + 1
        PROVE  IF s[i].priority = "compressible" /\ i <= k + 1
               THEN MayGrow(s[i], w.length[s[i].id], w.time)
               ELSE w.length[s[i].id] = Needs(s[i])
    <3>1. i <= k + 1 <=> i <= k
      BY <2>9
    <3>2. w.length[s[i].id] = v.length[s[i].id]
      BY <2>2, <2>4, <2>9
    <3>3. v.time = 0 => w.time = 0
      BY <2>1, <2>2, <1>2
    <3> QED
      BY <3>1, <3>2, <3>3 DEF Lengthened, MayGrow
  <2> HIDE DEF w
  <2>10. k + 1 <= k + 1
    OBVIOUS
  <2>11. ASSUME NEW i \in 1..Len(s)
         PROVE  IF s[i].priority = "compressible" /\ i <= k + 1
                THEN MayGrow(s[i], w.length[s[i].id], w.time)
                ELSE w.length[s[i].id] = Needs(s[i])
    <3>1. CASE i = k + 1
      BY <1>5, <2>8, <2>10, <3>1
    <3> QED
      BY <2>9, <3>1
  <2> QED
    BY <2>7, <2>11 DEF Lengthened, w
<1> QED
  BY <1>4, <1>5

MayStay(a, length, time) == length = a.length \/ (length = 0 /\ a.length > time)
Kept(v, s, target, k, w) ==
    /\ v \in Lefts(s) /\ v.time + GivenTime(v, s) = target /\ v.time <= w.time
    /\ \A i \in 1..Len(s) :
         IF s[i].priority = "optional"
         THEN /\ IF i <= k THEN MayStay(s[i], v.length[s[i].id], v.time)
                 ELSE v.length[s[i].id] = 0
              /\ v.length[s[i].id] > 0 => w.time > 0
         ELSE v.length[s[i].id] = w.length[s[i].id]

LEMMA KeepKeeps ==
  ASSUME NEW s, IsSchedule(s), NEW target \in Nat, NEW k \in Nat, k < Len(s), NEW w \in Lefts(s),
         NEW v, Kept(v, s, target, k, w)
  PROVE  Kept(Keep(v, s[k + 1]), s, target, k + 1, w)
<1> DEFINE a == s[k + 1]
           u == Keep(v, a)
<1>1. PICK j \in 1..Len(s) : j = k + 1
  BY ScheduleIs DEF IsSchedule
<1>2. Len(s) \in Nat /\ \A i \in 1..Len(s) : s[i].id \in Ids(s) /\ s[i].length \in Nat
      /\ s[i].length > 0
  BY ScheduleIs DEF IsSchedule
<1>3. v.time \in Nat /\ v.length \in [Ids(s) -> Nat] /\ v.time + Sum(Lengths(s, v.length)) = target
      /\ Sum(Lengths(s, v.length)) \in Nat /\ v.time <= w.time /\ w.time \in Nat
  BY GivenIs DEF Kept, Lefts, GivenTime
<1>4. CASE a.priority # "optional" \/ a.length > v.time
  <2>1. u = v
    BY <1>4 DEF Keep
  <2>2. ASSUME NEW i \in 1..Len(s)
        PROVE  IF s[i].priority = "optional"
               THEN /\ IF i <= k + 1 THEN MayStay(s[i], v.length[s[i].id], v.time)
                       ELSE v.length[s[i].id] = 0
                    /\ v.length[s[i].id] > 0 => w.time > 0
               ELSE v.length[s[i].id] = w.length[s[i].id]
    <3>1. CASE i = k + 1
      <4>1. ~(i <= k) /\ i <= k + 1
        BY <3>1
      <4> QED
        BY <1>4, <3>1, <4>1 DEF Kept, MayStay
    <3>2. CASE i # k + 1
      <4>1. i <= k <=> i <= k + 1
        BY <3>2
      <4> QED
        BY <4>1 DEF Kept
    <3> QED
      BY <3>1, <3>2
  <2> QED
    BY <2>1, <2>2 DEF Kept
<1>5. CASE a.priority = "optional" /\ ~(a.length > v.time)
  <2> DEFINE length == [v.length EXCEPT ![a.id] = a.length]
  <2>1. u = [time |-> v.time - a.length, length |-> length]
    BY <1>5 DEF Keep
  <2>2. v.length[s[j].id] = 0
    <3>1. ~(j <= k)
      BY <1>1
    <3> QED
      BY <1>1, <1>5, <3>1 DEF Kept
  <2>3. a.length \in Nat /\ a.length <= v.time /\ a.length > 0 /\ a = s[j]
    BY <1>1, <1>2, <1>3, <1>5
  <2>4. length = [v.length EXCEPT ![s[j].id] = a.length]
    BY <2>3
  <2> HIDE DEF length, a
  <2>5. /\ length \in [Ids(s) -> Nat] /\ length[s[j].id] = a.length
        /\ \A i \in 1..Len(s) \ {j} : length[s[i].id] = v.length[s[i].id]
        /\ Sum(Lengths(s, length)) + v.length[s[j].id] = Sum(Lengths(s, v.length)) + a.length
    <3>1. PICK x \in Nat : x = a.length
      BY <2>3
    <3>2. v.length \in [Ids(s) -> Nat] /\ length = [v.length EXCEPT ![s[j].id] = x]
      BY <1>3, <2>4, <3>1
    <3>3. Changed(length, s, v.length, j, x)
      BY <3>2, GivenChanges
    <3> QED
      BY <3>1, <3>3 DEF Changed
  <2>6. Sum(Lengths(s, length)) = Sum(Lengths(s, v.length)) + a.length
    <3>1. Sum(Lengths(s, length)) \in Nat
      BY <2>5, GivenIs
    <3> QED
      BY <2>2, <2>5, <3>1
  <2>7. v.time - a.length \in Nat /\ v.time - a.length <= v.time
        /\ (v.time - a.length) + (Sum(Lengths(s, v.length)) + a.length) = target
    BY <1>3, <2>3
  <2>8. u \in Lefts(s) /\ u.time + GivenTime(u, s) = target
    BY <2>1, <2>5, <2>6, <2>7 DEF Lefts, GivenTime
  <2>9. u.time <= w.time
    BY <1>3, <2>1, <2>7
  <2>10. ASSUME NEW i \in 1..Len(s)
         PROVE  IF s[i].priority = "optional"
                THEN /\ IF i <= k + 1 THEN MayStay(s[i], u.length[s[i].id], u.time)
                        ELSE u.length[s[i].id] = 0
                     /\ u.length[s[i].id] > 0 => w.time > 0
                ELSE u.length[s[i].id] = w.length[s[i].id]
    <3>1. CASE i = j
      <4>1. u.length[s[i].id] = s[i].length
        BY <2>1, <2>3, <2>5, <3>1
      <4>2. w.time > 0 /\ i <= k + 1 /\ s[i].priority = "optional"
        BY <1>1, <1>3, <1>5, <2>3, <3>1
      <4> HIDE DEF u
      <4> QED
        BY <4>1, <4>2 DEF MayStay
    <3>2. CASE i # j
      <4>1. i <= k <=> i <= k + 1
        BY <1>1, <3>2
      <4>2. u.length[s[i].id] = v.length[s[i].id]
        BY <2>1, <2>5, <3>2
      <4>3. s[i].length > v.time => s[i].length > u.time
        BY <1>2, <1>3, <2>1, <2>7
      <4>4. IF s[i].priority = "optional"
            THEN /\ IF i <= k THEN MayStay(s[i], v.length[s[i].id], v.time)
                    ELSE v.length[s[i].id] = 0
                 /\ v.length[s[i].id] > 0 => w.time > 0
            ELSE v.length[s[i].id] = w.length[s[i].id]
        BY DEF Kept
      <4>5. MayStay(s[i], v.length[s[i].id], v.time) => MayStay(s[i], u.length[s[i].id], u.time)
        BY <4>2, <4>3 DEF MayStay
      <4> HIDE DEF u
      <4> QED
        BY <4>1, <4>2, <4>4, <4>5
    <3> QED
      BY <3>1, <3>2
  <2> HIDE DEF u
  <2> QED
    BY <2>8, <2>9, <2>10 DEF Kept, u, a
<1> QED
  BY <1>4, <1>5

(* Both passes from their first activity to their last.                      *)
LEMMA LengthenedIs ==
  ASSUME NEW s, IsSchedule(s), NEW target \in Nat, NEW v, Lengthened(v, s, target, 0)
  PROVE  Lengthened(Seqs!FoldLeft(Lengthen, v, s), s, target, Len(s))
<1> DEFINE V == Lefts(s)
           n == Len(s)
           last == Seqs!FoldLeft(Lengthen, v, s)
<1>1. n \in Nat /\ DOMAIN s = 1..n
      /\ \A i \in 1..n : s[i].id \in Ids(s) /\ s[i].length \in Nat
  BY ScheduleIs DEF IsSchedule
<1>2. ASSUME NEW k \in 1..n, NEW w \in V PROVE Lengthen(w, s[k]) \in V
  <2> DEFINE extra == Smaller(Less(s[k].length, Least), w.time)
  <2>1. w.time \in Nat /\ w.length \in [Ids(s) -> Nat] /\ Least \in Nat /\ s[k].length \in Nat
    BY <1>1, ScheduleAssumption DEF Lefts
  <2>2. extra \in Nat /\ extra <= w.time
    BY <2>1 DEF Smaller, Less
  <2> HIDE DEF extra
  <2>3. w.time - extra \in Nat /\ Least + extra \in Nat
    BY <2>1, <2>2
  <2>4. [w.length EXCEPT ![s[k].id] = Least + extra] \in [Ids(s) -> Nat]
    BY <1>1, <2>1, <2>3
  <2> QED
    BY <2>3, <2>4 DEF Lengthen, Lefts, extra
<1>3. v \in V
  BY DEF Lengthened
<1>4. PICK F \in LengthenRun(V, v, s, last) : TRUE
  <2> HIDE DEF V
  <2> QED
    BY <1>1, <1>2, <1>3, LengthenRuns
<1> DEFINE P == {k \in 0..n : Lengthened(F[k], s, target, k)}
<1>5. 0 \in P
  BY <1>1, <1>4 DEF LengthenRun
<1>6. ASSUME NEW k \in 0..n, k < n, k \in P PROVE k + 1 \in P
  <2>1. k + 1 \in 1..n /\ (k + 1) - 1 = k /\ k \in Nat /\ k + 1 \in 0..n
    BY <1>1, <1>6
  <2>2. F[k + 1] = Lengthen(F[k], s[k + 1])
    BY <1>4, <2>1 DEF LengthenRun
  <2>3. Lengthened(F[k], s, target, k)
    BY <1>6
  <2>4. Lengthened(F[k + 1], s, target, k + 1)
    BY <1>6, <2>1, <2>2, <2>3, LengthenKeeps
  <2> QED
    BY <2>1, <2>4
<1> HIDE DEF P
<1>7. \A k \in 0..n : k \in P
  BY <1>1, <1>5, <1>6, Upwards
<1>8. n \in P
  BY <1>1, <1>7
<1>9. F[n] = last
  BY <1>4 DEF LengthenRun
<1> QED
  BY <1>8, <1>9 DEF P

LEMMA KeptIs ==
  ASSUME NEW s, IsSchedule(s), NEW target \in Nat, NEW w, Kept(w, s, target, 0, w)
  PROVE  Kept(Seqs!FoldLeft(Keep, w, s), s, target, Len(s), w)
<1> DEFINE V == Lefts(s)
           n == Len(s)
           last == Seqs!FoldLeft(Keep, w, s)
<1>1. n \in Nat /\ DOMAIN s = 1..n
      /\ \A i \in 1..n : s[i].id \in Ids(s) /\ s[i].length \in Nat
  BY ScheduleIs DEF IsSchedule
<1>2. ASSUME NEW k \in 1..n, NEW v \in V PROVE Keep(v, s[k]) \in V
  <2>1. v.time \in Nat /\ v.length \in [Ids(s) -> Nat] /\ s[k].length \in Nat /\ s[k].id \in Ids(s)
    BY <1>1 DEF Lefts
  <2>2. ~(s[k].length > v.time) => v.time - s[k].length \in Nat
    BY <2>1
  <2>3. [v.length EXCEPT ![s[k].id] = s[k].length] \in [Ids(s) -> Nat]
    BY <2>1
  <2> QED
    BY <2>2, <2>3 DEF Keep, Lefts
<1>3. w \in V
  BY DEF Kept
<1>4. PICK F \in KeepRun(V, w, s, last) : TRUE
  <2> HIDE DEF V
  <2> QED
    BY <1>1, <1>2, <1>3, KeepRuns
<1> DEFINE P == {k \in 0..n : Kept(F[k], s, target, k, w)}
<1>5. 0 \in P
  BY <1>1, <1>4 DEF KeepRun
<1>6. ASSUME NEW k \in 0..n, k < n, k \in P PROVE k + 1 \in P
  <2>1. k + 1 \in 1..n /\ (k + 1) - 1 = k /\ k \in Nat /\ k + 1 \in 0..n
    BY <1>1, <1>6
  <2>2. F[k + 1] = Keep(F[k], s[k + 1])
    BY <1>4, <2>1 DEF KeepRun
  <2>3. Kept(F[k], s, target, k, w) /\ w \in Lefts(s)
    BY <1>3, <1>6
  <2>4. Kept(F[k + 1], s, target, k + 1, w)
    BY <1>6, <2>1, <2>2, <2>3, KeepKeeps
  <2> QED
    BY <2>1, <2>4
<1> HIDE DEF P
<1>7. \A k \in 0..n : k \in P
  BY <1>1, <1>5, <1>6, Upwards
<1>8. n \in P
  BY <1>1, <1>7
<1>9. F[n] = last
  BY <1>4 DEF KeepRun
<1> QED
  BY <1>8, <1>9 DEF P

(* fitSchedule makes what the rules demand, of every schedule whose minimum   *)
(* fits.                                                                     *)
LEMMA FitIsFit ==
  ASSUME NEW s, IsSchedule(s), NEW target \in Nat, ~(Minimum(s) > target)
  PROVE  IsSchedule(FitSchedule(s, target)) /\ IsFit(s, target, FitSchedule(s, target))
<1> DEFINE n == Len(s)
           begin == [time |-> target - Minimum(s),
                     length |-> [id \in Ids(s) |-> Needs(Find(s, id))]]
           w == Seqs!FoldLeft(Lengthen, begin, s)
           v == Seqs!FoldLeft(Keep, w, s)
           new == FitSchedule(s, target)
<1>1. n \in Nat /\ DOMAIN s = 1..n /\ \A i \in 1..n : s[i].id \in Ids(s) /\ s[i].length \in Nat
      /\ s[i].length > 0 /\ s[i] \in Activities
  BY ScheduleIs DEF IsSchedule
<1>2. \A i \in 1..n : begin.length[s[i].id] = Needs(s[i])
  BY <1>1, FindIs
<1>3. begin.length \in [Ids(s) -> Nat]
  <2>1. \A id \in Ids(s) : Needs(Find(s, id)) \in Nat
    <3> SUFFICES ASSUME NEW id \in Ids(s) PROVE Needs(Find(s, id)) \in Nat
      OBVIOUS
    <3>1. PICK i \in 1..n : s[i].id = id
      BY <1>1 DEF Ids
    <3> QED
      BY <3>1, FindIs, NeedsIs
  <2> QED
    BY <2>1
<1>4. Lengths(s, begin.length) = [i \in DOMAIN s |-> Needs(s[i])]
  BY <1>1, <1>2 DEF Lengths
<1>5. Minimum(s) = Sum(Lengths(s, begin.length)) /\ Minimum(s) \in Nat
  <2> HIDE DEF begin
  <2>1. Minimum(s) = Sum(Lengths(s, begin.length))
    BY <1>4 DEF Minimum
  <2> QED
    BY <1>3, <2>1, GivenIs
<1>6. begin.time \in Nat /\ begin.time + Minimum(s) = target
  BY <1>5
<1>7. begin \in Lefts(s)
  BY <1>3, <1>6 DEF Lefts
<1>8. Lengthened(begin, s, target, 0)
  <2> HIDE DEF begin
  <2>1. \A i \in 1..n : ~(i <= 0)
    OBVIOUS
  <2> QED
    BY <1>2, <1>5, <1>6, <1>7, <2>1 DEF Lengthened, GivenTime
<1> HIDE DEF begin
<1>9. Lengthened(w, s, target, n)
  BY <1>8, LengthenedIs
<1> HIDE DEF w
<1>10. Kept(w, s, target, 0, w)
  <2>1. w \in Lefts(s) /\ w.time \in Nat /\ w.time + GivenTime(w, s) = target
    BY <1>9 DEF Lengthened, Lefts
  <2>2. ASSUME NEW i \in 1..n, s[i].priority = "optional"
        PROVE  w.length[s[i].id] = 0 /\ ~(i <= 0)
    BY <1>9, <2>2 DEF Lengthened, Needs
  <2>3. ~(0 > 0) /\ w.time <= w.time
    BY <2>1
  <2> QED
    BY <2>1, <2>2, <2>3 DEF Kept
<1>11. Kept(v, s, target, n, w)
  BY <1>10, KeptIs
<1>12. new = Repack(s, v.length)
  BY Zenon DEF FitSchedule, begin, w
<1> HIDE DEF v, new
<1>13. v.time \in Nat /\ v.length \in [Ids(s) -> Nat] /\ v.time + Sum(Lengths(s, v.length)) = target
       /\ Sum(Lengths(s, v.length)) \in Nat /\ w.time \in Nat /\ v.time <= w.time
  BY <1>9, <1>11, GivenIs DEF Kept, Lefts, GivenTime, Lengthened
<1>14. /\ IsSchedule(new) /\ Follow(new) /\ Total(new) = Sum(Lengths(s, v.length))
       /\ \A k \in 1..n :
            IF v.length[s[k].id] > 0
            THEN Has(new, s[k].id) /\ LengthOf(new, s[k].id) = v.length[s[k].id]
            ELSE ~Has(new, s[k].id)
       /\ \A b \in Seqs!ToSet(new) : \E i \in 1..n : IsFrom(b, s[i], v.length)
  BY <1>12, <1>13, RepackGives
<1> DEFINE spare == Less(target, Total(new))
<1>15. spare = v.time /\ Total(new) <= target
  BY <1>13, <1>14 DEF Less
<1> HIDE DEF spare
<1>16. Seqs!ToSet(s) = {s[i] : i \in 1..n}
  BY <1>1 DEF Seqs!ToSet
<1>17. ASSUME NEW k \in 1..n
       PROVE  LET a == s[k] IN
         CASE a.priority = "essential" -> Has(new, a.id) /\ LengthOf(new, a.id) = a.length
           [] a.priority = "compressible" ->
                /\ Has(new, a.id) /\ LengthOf(new, a.id) >= Least
                /\ LengthOf(new, a.id) > Least => LengthOf(new, a.id) <= a.length
                /\ LengthOf(new, a.id) < a.length =>
                     spare = 0 /\ \A b \in Seqs!ToSet(new) : b.priority # "optional"
           [] OTHER -> IF Has(new, a.id) THEN LengthOf(new, a.id) = a.length
                       ELSE a.length > spare
  <2> DEFINE a == s[k]
             length == v.length[a.id]
  <2>1. a.length \in Nat /\ a.length > 0 /\ length \in Nat /\ Least \in Nat /\ Least > 0
    BY <1>1, <1>13, ScheduleAssumption
  <2>2. IF length > 0 THEN Has(new, a.id) /\ LengthOf(new, a.id) = length ELSE ~Has(new, a.id)
    BY <1>14
  <2>3. a.priority # "optional" => length = w.length[a.id]
    BY <1>11 DEF Kept
  <2>4. CASE a.priority = "essential"
    <3>1. length = a.length
      BY <1>9, <2>3, <2>4 DEF Lengthened, Needs
    <3> HIDE DEF length
    <3> QED
      BY <2>1, <2>2, <2>4, <3>1
  <2>5. CASE a.priority = "compressible"
    <3>1. MayGrow(a, length, w.time)
      <4>1. k <= n
        BY <1>1
      <4> QED
        BY <1>9, <2>3, <2>5, <4>1 DEF Lengthened
    <3>2. length >= Least /\ (length > Least => length <= a.length)
      BY <2>1, <3>1 DEF MayGrow, Less
    <3>3. length < a.length => v.time = 0 /\ w.time = 0
      BY <1>13, <3>1 DEF MayGrow
    <3>4. w.time = 0 => \A b \in Seqs!ToSet(new) : b.priority # "optional"
      <4> SUFFICES ASSUME w.time = 0, NEW b \in Seqs!ToSet(new), b.priority = "optional"
                   PROVE  FALSE
        OBVIOUS
      <4>1. PICK i \in 1..n : IsFrom(b, s[i], v.length)
        BY <1>14
      <4>2. s[i].priority = "optional" /\ v.length[s[i].id] > 0
        BY <4>1 DEF IsFrom
      <4> QED
        BY <1>11, <1>13, <4>2 DEF Kept
    <3> HIDE DEF length
    <3>5. length > 0
      BY <2>1, <3>2
    <3> QED
      BY <1>15, <2>2, <2>5, <3>2, <3>3, <3>4, <3>5
  <2>6. CASE a.priority = "optional"
    <3>1. MayStay(a, length, v.time)
      <4>1. k <= n
        BY <1>1
      <4> QED
        BY <1>11, <2>6, <4>1 DEF Kept
    <3> HIDE DEF length
    <3> QED
      BY <1>15, <2>1, <2>2, <2>6, <3>1 DEF MayStay
  <2>7. a.priority \in {"essential", "compressible", "optional"}
    BY <1>1 DEF Activities
  <2> QED
    BY <2>4, <2>5, <2>6, <2>7
<1>18. IsFit(s, target, new)
  BY <1>14, <1>15, <1>16, <1>17 DEF IsFit, spare
<1> QED
  BY <1>14, <1>18 DEF new

MayGive(a, old, length, time, available) ==
    /\ length <= old /\ length >= Smaller(Floor(a), old)
    /\ time > 0 => length <= Floor(a)
    /\ length < old => available > 0
Gives(a, priority, id) == a.priority = priority /\ a.id # id
Gave(v, s, priority, id, k, w) ==
    /\ v \in Lefts(s) /\ GivenTime(v, s) + w.time = GivenTime(w, s) + v.time /\ v.time <= w.time
    /\ \A i \in 1..Len(s) :
         IF Gives(s[i], priority, id) /\ i + k > Len(s)
         THEN MayGive(s[i], w.length[s[i].id], v.length[s[i].id], v.time, w.time)
         ELSE v.length[s[i].id] = w.length[s[i].id]

LEMMA FloorIs ==
  ASSUME NEW a
  PROVE  Floor(a) \in Nat
BY ScheduleAssumption DEF Floor

LEMMA TakeIs ==
  ASSUME NEW old \in Nat, NEW floor \in Nat, NEW time \in Nat,
         NEW taken, taken = Smaller(Less(old, floor), time)
  PROVE  /\ taken \in Nat /\ taken <= time /\ taken <= old
         /\ old - taken \in Nat /\ time - taken \in Nat
         /\ old - taken >= Smaller(floor, old)
         /\ time - taken > 0 => old - taken <= floor
         /\ old - taken < old => time > 0
BY DEF Smaller, Less

LEMMA TakeKeeps ==
  ASSUME NEW s, IsSchedule(s), NEW priority, NEW id, NEW k \in Nat, NEW j \in 1..Len(s),
         j + k = Len(s), NEW w \in Lefts(s), NEW v, Gave(v, s, priority, id, k, w)
  PROVE  Gave(TakeOne(priority, id, v, s[j]), s, priority, id, k + 1, w)
<1> DEFINE u == TakeOne(priority, id, v, s[j])
<1>1. Len(s) \in Nat /\ \A i \in 1..Len(s) : s[i].id \in Ids(s)
  BY ScheduleIs DEF IsSchedule
<1>2. v.time \in Nat /\ v.length \in [Ids(s) -> Nat] /\ Sum(Lengths(s, v.length)) \in Nat
      /\ w.time \in Nat /\ w.length \in [Ids(s) -> Nat] /\ Sum(Lengths(s, w.length)) \in Nat
      /\ Sum(Lengths(s, v.length)) + w.time = Sum(Lengths(s, w.length)) + v.time /\ v.time <= w.time
  BY GivenIs DEF Gave, Lefts, GivenTime
<1>3. ~(j + k > Len(s)) /\ j + (k + 1) > Len(s)
  BY <1>1
<1>4. \A i \in 1..Len(s) : i # j => (i + k > Len(s) <=> i + (k + 1) > Len(s))
  BY <1>1
<1>5. CASE ~Gives(s[j], priority, id)
  <2>1. u = v
    BY <1>5 DEF TakeOne, Gives
  <2>2. \A i \in 1..Len(s) : Gives(s[i], priority, id) =>
           (i + k > Len(s) <=> i + (k + 1) > Len(s))
    BY <1>4, <1>5
  <2> QED
    BY <2>1, <2>2 DEF Gave
<1>6. CASE Gives(s[j], priority, id)
  <2> DEFINE old == v.length[s[j].id]
             taken == Smaller(Less(old, Floor(s[j])), v.time)
             length == [v.length EXCEPT ![s[j].id] = @ - taken]
  <2>1. u = [time |-> v.time - taken, length |-> length]
    BY <1>6 DEF TakeOne, Gives, Take
  <2>2. old \in Nat /\ old = w.length[s[j].id]
    BY <1>1, <1>2, <1>3 DEF Gave
  <2>3. /\ taken \in Nat /\ taken <= v.time /\ taken <= old
        /\ old - taken \in Nat /\ v.time - taken \in Nat
        /\ old - taken >= Smaller(Floor(s[j]), old)
        /\ v.time - taken > 0 => old - taken <= Floor(s[j])
        /\ old - taken < old => v.time > 0
    <3> HIDE DEF old
    <3> QED
      BY <1>2, <2>2, FloorIs, TakeIs
  <2> HIDE DEF taken
  <2>4. PICK x \in Nat : x = old - taken
    BY <2>3
  <2>5. length = [v.length EXCEPT ![s[j].id] = x]
    BY <2>4
  <2> HIDE DEF length
  <2>6. /\ length \in [Ids(s) -> Nat] /\ length[s[j].id] = x
        /\ \A i \in 1..Len(s) \ {j} : length[s[i].id] = v.length[s[i].id]
        /\ Sum(Lengths(s, length)) + old = Sum(Lengths(s, v.length)) + x
    <3>1. v.length \in [Ids(s) -> Nat] /\ length = [v.length EXCEPT ![s[j].id] = x]
      BY <1>2, <2>5
    <3>2. Changed(length, s, v.length, j, x)
      BY <3>1, GivenChanges
    <3> QED
      BY <3>2 DEF Changed
  <2> HIDE DEF old
  <2>7. Sum(Lengths(s, length)) + w.time = Sum(Lengths(s, w.length)) + (v.time - taken)
    <3>1. PICK p \in Nat : p = Sum(Lengths(s, length))
      BY <2>6, GivenIs
    <3>2. PICK q \in Nat : q = Sum(Lengths(s, v.length))
      BY <1>2
    <3>3. PICK y \in Nat, z \in Nat, t \in Nat : y = old /\ z = taken /\ t = v.time
      BY <1>2, <2>2, <2>3
    <3>4. PICK a \in Nat, b \in Nat : a = w.time /\ b = Sum(Lengths(s, w.length))
      BY <1>2
    <3>5. p + y = q + (y - z)
      BY <2>4, <2>6, <3>1, <3>2, <3>3
    <3>6. q + a = b + t
      BY <1>2, <3>2, <3>3, <3>4
    <3>7. p + a = b + (t - z)
      BY <3>5, <3>6
    <3> QED
      BY <3>1, <3>3, <3>4, <3>7
  <2>8. u \in Lefts(s) /\ GivenTime(u, s) + w.time = GivenTime(w, s) + u.time
    BY <2>1, <2>3, <2>6, <2>7 DEF Lefts, GivenTime
  <2>9. u.time = v.time - taken /\ u.time <= v.time /\ u.time <= w.time /\ u.time \in Nat
    <3>1. PICK t \in Nat, a \in Nat, z \in Nat : t = v.time /\ a = w.time /\ z = taken
      BY <1>2, <2>3
    <3>2. t <= a /\ t - z \in Nat
      BY <1>2, <2>3, <3>1
    <3>3. t - z <= t /\ t - z <= a
      BY <3>2
    <3> QED
      BY <2>1, <3>1, <3>2, <3>3
  <2>10. u.length = length
    BY <2>1
  <2> HIDE DEF u
  <2>11. MayGive(s[j], w.length[s[j].id], u.length[s[j].id], u.time, w.time)
    <3>1. x <= old /\ x >= Smaller(Floor(s[j]), old) /\ (u.time > 0 => x <= Floor(s[j]))
          /\ (x < old => w.time > 0)
      <4>1. x <= old /\ x >= Smaller(Floor(s[j]), old) /\ (x < old => v.time > 0)
        BY <2>2, <2>3, <2>4
      <4>2. u.time > 0 => x <= Floor(s[j])
        BY <2>3, <2>4, <2>9
      <4>3. v.time > 0 => w.time > 0
        BY <1>2
      <4> QED
        BY <4>1, <4>2, <4>3
    <3> QED
      BY <2>2, <2>6, <2>10, <3>1 DEF MayGive
  <2>12. ASSUME NEW i \in 1..Len(s)
         PROVE  IF Gives(s[i], priority, id) /\ i + (k + 1) > Len(s)
                THEN MayGive(s[i], w.length[s[i].id], u.length[s[i].id], u.time, w.time)
                ELSE u.length[s[i].id] = w.length[s[i].id]
    <3>1. CASE i = j
      BY <1>3, <1>6, <2>11, <3>1
    <3>2. CASE i # j
      <4>1. u.length[s[i].id] = v.length[s[i].id]
        BY <2>6, <2>10, <3>2
      <4>2. IF Gives(s[i], priority, id) /\ i + (k + 1) > Len(s)
            THEN MayGive(s[i], w.length[s[i].id], v.length[s[i].id], v.time, w.time)
            ELSE v.length[s[i].id] = w.length[s[i].id]
        BY <1>4, <3>2 DEF Gave
      <4>3. u.time > 0 => v.time > 0
        BY <1>2, <2>9
      <4> QED
        BY <4>1, <4>2, <4>3 DEF MayGive
    <3> QED
      BY <3>1, <3>2
  <2> QED
    BY <2>8, <2>9, <2>12 DEF Gave, u
<1> QED
  BY <1>5, <1>6

LEMMA TakenFrom ==
  ASSUME NEW s, IsSchedule(s), NEW priority, NEW id, NEW w \in Lefts(s)
  PROVE  Gave(TakeFrom(priority, id, w, s), s, priority, id, Len(s), w)
<1> DEFINE V == Lefts(s)
           n == Len(s)
           r == Seqs!Reverse(s)
           last == TakeAll(priority, id, w, r)
<1>1. n \in Nat /\ DOMAIN s = 1..n /\ \A i \in 1..n : s[i].id \in Ids(s)
  BY ScheduleIs DEF IsSchedule
<1>2. r = [i \in 1..n |-> s[(n - i) + 1]]
  BY DEF Seqs!Reverse
<1>3. DOMAIN r = 1..n /\ Len(r) = n /\ \A i \in 1..n : (n - i) + 1 \in 1..n /\ r[i] = s[(n - i) + 1]
  BY <1>1, <1>2
<1> HIDE DEF r
<1>4. ASSUME NEW k \in 1..n, NEW v \in V PROVE TakeOne(priority, id, v, r[k]) \in V
  <2>1. PICK j \in 1..n : r[k] = s[j]
    BY <1>3
  <2> DEFINE old == v.length[s[j].id]
             taken == Smaller(Less(old, Floor(s[j])), v.time)
  <2>2. v.time \in Nat /\ v.length \in [Ids(s) -> Nat] /\ old \in Nat /\ s[j].id \in Ids(s)
    BY <1>1 DEF Lefts
  <2>3. old - taken \in Nat /\ v.time - taken \in Nat
    <3> HIDE DEF old
    <3> QED
      BY <2>2, FloorIs, TakeIs
  <2> HIDE DEF taken
  <2>4. [v.length EXCEPT ![s[j].id] = @ - taken] \in [Ids(s) -> Nat]
    BY <2>2, <2>3
  <2> QED
    BY <2>1, <2>3, <2>4 DEF TakeOne, Take, Lefts, taken
<1>5. w \in V
  OBVIOUS
<1>6. PICK F \in TakenRun(priority, id, V, w, r, last) : TRUE
  <2>1. n \in Nat /\ Len(r) = n /\ DOMAIN r = 1..n
    BY <1>1, <1>3
  <2> HIDE DEF V, n
  <2> QED
    BY <1>4, <1>5, <2>1, TakenRuns
<1> DEFINE P == {k \in 0..n : Gave(F[k], s, priority, id, k, w)}
<1>7. 0 \in P
  <2>1. F[0] = w
    BY <1>6 DEF TakenRun
  <2>2. w.time \in Nat /\ w.time <= w.time
    BY DEF Lefts
  <2>3. \A i \in 1..n : ~(i + 0 > n)
    BY <1>1
  <2>4. Gave(w, s, priority, id, 0, w)
    BY <2>2, <2>3 DEF Gave
  <2> QED
    BY <1>1, <2>1, <2>4
<1>8. ASSUME NEW k \in 0..n, k < n, k \in P PROVE k + 1 \in P
  <2>1. PICK m \in Nat : m = n
    BY <1>1
  <2>2. k + 1 \in 1..m /\ (k + 1) - 1 = k /\ k \in Nat /\ k + 1 \in 0..m
    BY <1>8, <2>1
  <2>3. PICK j \in 1..m : j + k = m /\ (m - (k + 1)) + 1 = j
    <3>1. m - k \in 1..m /\ (m - k) + k = m /\ (m - (k + 1)) + 1 = m - k
      BY <1>8, <2>1
    <3> QED
      BY <3>1
  <2>4. F[k + 1] = TakeOne(priority, id, F[k], r[k + 1])
    BY <1>3, <1>6, <2>1, <2>2 DEF TakenRun
  <2>5. r[k + 1] = s[j]
    BY <1>3, <2>1, <2>2, <2>3
  <2>6. Gave(F[k], s, priority, id, k, w)
    BY <1>8
  <2>7. Gave(TakeOne(priority, id, F[k], s[j]), s, priority, id, k + 1, w)
    BY <2>1, <2>2, <2>3, <2>6, TakeKeeps
  <2>8. Gave(F[k + 1], s, priority, id, k + 1, w)
    BY <2>4, <2>5, <2>7, Zenon
  <2> QED
    BY <2>1, <2>2, <2>8
<1> HIDE DEF P
<1>9. \A k \in 0..n : k \in P
  BY <1>1, <1>7, <1>8, Upwards
<1>10. n \in P
  BY <1>1, <1>9
<1>11. F[n] = last
  BY <1>3, <1>6 DEF TakenRun
<1>12. last = TakeFrom(priority, id, w, s)
  BY Zenon DEF TakeFrom, TakeAll, r
<1> QED
  BY <1>10, <1>11, <1>12 DEF P

(* addIndependentTime makes what the rules demand, of every schedule whose    *)
(* other activities can give the time.                                       *)
LEMMA MoreTimeIsMoreTime ==
  ASSUME NEW s, IsSchedule(s), NEW id, NEW added \in Nat, IsTarget(s, id),
         ~(Given(s, id, added).time > 0)
  PROVE  LET new == AddIndependentTime(s, id, added)
         IN  IsSchedule(new) /\ HasMoreTime(s, id, added, new)
<1> DEFINE n == Len(s)
           begin == [time |-> added, length |-> [i \in Ids(s) |-> LengthOf(s, i)]]
           o == TakeFrom("optional", id, begin, s)
           c == TakeFrom("compressible", id, o, s)
           new == AddIndependentTime(s, id, added)
<1>1. n \in Nat /\ DOMAIN s = 1..n /\ \A i \in 1..n : s[i].id \in Ids(s) /\ s[i].length \in Nat
      /\ s[i].length > 0 /\ s[i] \in Activities
  BY ScheduleIs DEF IsSchedule
<1>2. \A i \in 1..n : begin.length[s[i].id] = s[i].length
  BY <1>1, FindIs DEF LengthOf
<1>3. begin.length \in [Ids(s) -> Nat]
  <2>1. \A i \in Ids(s) : LengthOf(s, i) \in Nat
    <3> SUFFICES ASSUME NEW i \in Ids(s) PROVE LengthOf(s, i) \in Nat
      OBVIOUS
    <3>1. PICK k \in 1..n : s[k].id = i
      BY <1>1 DEF Ids
    <3> QED
      BY <1>1, <3>1, FindIs DEF LengthOf
  <2> QED
    BY <2>1
<1>4. begin \in Lefts(s) /\ begin.time = added
  BY <1>3 DEF Lefts
<1>5. Total(s) = GivenTime(begin, s)
  <2>1. Lengths(s, begin.length) = [i \in DOMAIN s |-> s[i].length]
    BY <1>1, <1>2 DEF Lengths
  <2> HIDE DEF begin
  <2> QED
    BY <2>1 DEF Total, GivenTime
<1> HIDE DEF begin
<1>6. Gave(o, s, "optional", id, n, begin)
  BY <1>4, TakenFrom
<1>7. o \in Lefts(s)
  BY <1>6 DEF Gave
<1> HIDE DEF o
<1>8. Gave(c, s, "compressible", id, n, o)
  BY <1>7, TakenFrom
<1>9. c = Given(s, id, added)
  BY Zenon DEF Given, begin, o
<1> HIDE DEF c
<1>10. \A i \in 1..n : i + n > n
  BY <1>1
<1>11. PICK m \in 1..n : s[m].id = id
  <2>1. Seqs!ToSet(s) = {s[i] : i \in 1..n}
    BY <1>1 DEF Seqs!ToSet
  <2> QED
    BY <2>1 DEF IsTarget
<1>12. c.time \in Nat /\ c.time = 0 /\ o.time \in Nat /\ c.length \in [Ids(s) -> Nat]
       /\ o.length \in [Ids(s) -> Nat]
  BY <1>7, <1>8, <1>9 DEF Gave, Lefts
<1>13. c.length[id] = s[m].length
  <2>1. ~Gives(s[m], "optional", id) /\ ~Gives(s[m], "compressible", id)
    BY <1>11 DEF Gives
  <2> QED
    BY <1>2, <1>6, <1>8, <1>11, <2>1 DEF Gave
<1> DEFINE length == [c.length EXCEPT ![id] = @ + added]
<1>14. PICK x \in Nat : x = s[m].length + added /\ x > 0
  BY <1>1
<1>15. length = [c.length EXCEPT ![s[m].id] = x]
  BY <1>11, <1>13, <1>14
<1>16. new = Repack(s, length)
  BY <1>9 DEF AddIndependentTime
<1> HIDE DEF length, new
<1>17. /\ length \in [Ids(s) -> Nat] /\ length[s[m].id] = x
       /\ \A i \in 1..n \ {m} : length[s[i].id] = c.length[s[i].id]
       /\ Sum(Lengths(s, length)) + c.length[s[m].id] = Sum(Lengths(s, c.length)) + x
  <2>1. c.length \in [Ids(s) -> Nat] /\ length = [c.length EXCEPT ![s[m].id] = x]
    BY <1>12, <1>15
  <2>2. Changed(length, s, c.length, m, x)
    BY <2>1, GivenChanges
  <2> QED
    BY <2>2 DEF Changed
<1>18. Sum(Lengths(s, length)) = Total(s)
  <2>1. PICK p \in Nat : p = Sum(Lengths(s, length))
    BY <1>17, GivenIs
  <2>2. PICK q \in Nat : q = Sum(Lengths(s, c.length))
    BY <1>12, GivenIs
  <2>3. PICK y \in Nat : y = Sum(Lengths(s, o.length))
    BY <1>12, GivenIs
  <2>4. PICK t \in Nat : t = Total(s)
    BY <1>4, <1>5, GivenIs DEF GivenTime, Lefts
  <2>5. q + o.time = y + c.time
    BY <1>8, <2>2, <2>3 DEF Gave, GivenTime
  <2>6. y + added = t + o.time
    BY <1>4, <1>5, <1>6, <2>3, <2>4 DEF Gave, GivenTime
  <2>7. p + s[m].length = q + (s[m].length + added)
    BY <1>11, <1>13, <1>14, <1>17, <2>1, <2>2
  <2>8. q + added = t
    <3>1. PICK a \in Nat : a = o.time
      BY <1>12
    <3>2. q + a = y + 0 /\ y + added = t + a
      BY <1>12, <2>5, <2>6, <3>1
    <3> QED
      BY <3>2
  <2>9. p = q + added
    <3>1. PICK a \in Nat : a = s[m].length
      BY <1>1
    <3>2. p + a = q + (a + added)
      BY <2>7, <3>1
    <3> QED
      BY <3>2
  <2> QED
    BY <2>1, <2>4, <2>8, <2>9
<1>19. /\ IsSchedule(new) /\ Follow(new) /\ Total(new) = Sum(Lengths(s, length))
       /\ \A k \in 1..n :
            IF length[s[k].id] > 0
            THEN Has(new, s[k].id) /\ LengthOf(new, s[k].id) = length[s[k].id]
            ELSE ~Has(new, s[k].id)
       /\ \A b \in Seqs!ToSet(new) : \E i \in 1..n : IsFrom(b, s[i], length)
  BY <1>16, <1>17, RepackGives
<1>20. Has(new, id) /\ LengthOf(new, id) = LengthOf(s, id) + added
  <2>1. LengthOf(s, id) = s[m].length
    BY <1>11, FindIs DEF LengthOf
  <2> QED
    BY <1>11, <1>14, <1>17, <1>19, <2>1
<1>21. \A i \in 1..n : s[i].id # id =>
          /\ length[s[i].id] = c.length[s[i].id] /\ c.length[s[i].id] \in Nat
          /\ s[i].priority # "compressible" => c.length[s[i].id] = o.length[s[i].id]
          /\ s[i].priority # "optional" => o.length[s[i].id] = s[i].length
  BY <1>1, <1>2, <1>6, <1>8, <1>11, <1>12, <1>17 DEF Gave, Gives
<1>22. ASSUME NEW k \in 1..n, s[k].id # id
       PROVE  LET a == s[k] IN
         CASE a.priority = "essential" -> Has(new, a.id) /\ LengthOf(new, a.id) = a.length
           [] a.priority = "compressible" ->
                /\ Has(new, a.id) /\ LengthOf(new, a.id) >= Smaller(Least, a.length)
                /\ LengthOf(new, a.id) < a.length =>
                     \A b \in Seqs!ToSet(new) : b.priority = "optional" => b.id = id
           [] OTHER -> Has(new, a.id) => LengthOf(new, a.id) <= a.length
  <2> DEFINE a == s[k]
             x1 == length[a.id]
  <2>1. a.length \in Nat /\ a.length > 0 /\ x1 \in Nat /\ Least \in Nat /\ Least > 0
    BY <1>1, <1>17, ScheduleAssumption
  <2>2. IF x1 > 0 THEN Has(new, a.id) /\ LengthOf(new, a.id) = x1 ELSE ~Has(new, a.id)
    BY <1>19
  <2>3. CASE a.priority = "essential"
    <3>1. x1 = a.length
      BY <1>21, <1>22, <2>3
    <3> HIDE DEF x1
    <3> QED
      BY <2>1, <2>2, <2>3, <3>1
  <2>4. CASE a.priority = "compressible"
    <3>1. MayGive(a, a.length, x1, c.time, o.time)
      <4>1. Gives(a, "compressible", id)
        BY <1>22, <2>4 DEF Gives
      <4>2. MayGive(a, o.length[a.id], c.length[a.id], c.time, o.time)
        BY <1>8, <1>10, <4>1 DEF Gave
      <4> QED
        BY <1>21, <1>22, <2>4, <4>2
    <3>2. x1 >= Smaller(Least, a.length) /\ (x1 < a.length => o.time > 0)
      BY <2>4, <3>1 DEF MayGive, Floor
    <3>3. x1 > 0
      BY <2>1, <3>2 DEF Smaller
    <3>4. o.time > 0 => \A b \in Seqs!ToSet(new) : b.priority = "optional" => b.id = id
      <4> SUFFICES ASSUME o.time > 0, NEW b \in Seqs!ToSet(new), b.priority = "optional",
                          b.id # id
                   PROVE  FALSE
        OBVIOUS
      <4>1. PICK i \in 1..n : IsFrom(b, s[i], length)
        BY <1>19
      <4>2. s[i].priority = "optional" /\ s[i].id # id /\ length[s[i].id] > 0
        BY <4>1 DEF IsFrom
      <4>3. length[s[i].id] = o.length[s[i].id] /\ o.length[s[i].id] \in Nat
        BY <1>1, <1>12, <1>21, <4>2
      <4>4. Gives(s[i], "optional", id)
        BY <4>2 DEF Gives
      <4>5. o.length[s[i].id] <= Floor(s[i]) /\ Floor(s[i]) = 0
        BY <1>6, <1>10, <4>2, <4>4 DEF Gave, MayGive, Floor
      <4> QED
        BY <4>2, <4>3, <4>5
    <3> HIDE DEF x1
    <3> QED
      BY <2>2, <2>4, <3>2, <3>3, <3>4
  <2>5. CASE a.priority = "optional"
    <3>1. x1 <= a.length
      <4>1. Gives(a, "optional", id)
        BY <1>22, <2>5 DEF Gives
      <4>2. o.length[a.id] <= begin.length[a.id]
        BY <1>6, <1>10, <4>1 DEF Gave, MayGive
      <4> QED
        BY <1>2, <1>21, <1>22, <2>5, <4>2
    <3> HIDE DEF x1
    <3> QED
      BY <2>2, <2>5, <3>1
  <2>6. a.priority \in {"essential", "compressible", "optional"}
    BY <1>1 DEF Activities
  <2> QED
    BY <2>3, <2>4, <2>5, <2>6
<1>23. Seqs!ToSet(s) = {s[i] : i \in 1..n}
  BY <1>1 DEF Seqs!ToSet
<1>24. HasMoreTime(s, id, added, new)
  BY <1>18, <1>19, <1>20, <1>22, <1>23 DEF HasMoreTime
<1> QED
  BY <1>19, <1>24 DEF new

-----------------------------------------------------------------------------
(* Every lesson that a change can be made of becomes a lesson again, and what *)
(* passes the review is what the rules demand.                               *)
LEMMA CandidateIsMade ==
  ASSUME NEW lesson, IsLesson(lesson), NEW change, IsChange(change), ~Blocks(lesson, change),
         NEW new, new = Candidate(lesson, change)
  PROVE  IsLesson(new) /\ (PassesReview(new) => IsMade(lesson, change, new))
<1>1. /\ lesson.declared \in Nat /\ lesson.activities \in Seq(Activities)
      /\ IsSchedule(lesson.activities) /\ lesson \in [declared : Nat, activities : Seq(Activities)]
  BY DEF IsLesson
<1>2. CASE change.kind = "change_duration"
  <2>1. PICK s, target : s = lesson.activities /\ target = change.duration
    OBVIOUS
  <2>2. target \in Nat /\ ~(Minimum(s) > target) /\ IsSchedule(s)
    BY <1>1, <1>2, <2>1 DEF IsChange, Blocks
  <2>3. IsSchedule(FitSchedule(s, target)) /\ IsFit(s, target, FitSchedule(s, target))
    BY <2>2, FitIsFit
  <2>4. new = [declared |-> target, activities |-> FitSchedule(s, target)]
    BY <1>2, <2>1 DEF Candidate
  <2>5. IsLesson(new)
    BY <2>2, <2>3, <2>4 DEF IsLesson, IsSchedule
  <2> QED
    BY <1>2, <2>1, <2>3, <2>4, <2>5 DEF IsMade
<1>3. CASE change.kind = "increase_independent_time"
  <2>1. PICK s, id, added : s = lesson.activities /\ id = change.activity /\ added = change.added
    OBVIOUS
  <2>2. added \in Nat /\ IsTarget(s, id) /\ ~(Given(s, id, added).time > 0) /\ IsSchedule(s)
    BY <1>1, <1>3, <2>1 DEF IsChange, Blocks
  <2>3. PICK made : made = AddIndependentTime(s, id, added)
    OBVIOUS
  <2>4. IsSchedule(made) /\ HasMoreTime(s, id, added, made)
    BY <2>2, <2>3, MoreTimeIsMoreTime
  <2>5. new = [lesson EXCEPT !.activities = made]
    BY <1>3, <2>1, <2>3 DEF Candidate
  <2>6. new.declared = lesson.declared /\ new.activities = made
        /\ new \in [declared : Nat, activities : Seq(Activities)]
    BY <1>1, <2>4, <2>5 DEF IsSchedule
  <2> QED
    BY <1>3, <2>1, <2>4, <2>6 DEF IsMade, IsLesson
<1>4. CASE change.kind \notin {"change_duration", "increase_independent_time"}
  <2>1. new = lesson
    BY <1>4 DEF Candidate
  <2> QED
    BY <1>4, <2>1 DEF IsMade
<1> QED
  BY <1>2, <1>3, <1>4

-----------------------------------------------------------------------------
(* What the revisions hold: lessons, and the changes that made them.         *)
RevisionFits(r) == IsLesson(r.lesson) /\ (r.base > 0 => r.change \in Changes)
RevisionsFit == \A r \in 1..Len(plan) : RevisionFits(plan[r])

LEMMA InitRevisions == Init => RevisionsFit
<1> SUFFICES ASSUME Init PROVE RevisionsFit
  OBVIOUS
<1>1. PICK lesson \in Lessons :
        plan = <<[base |-> 0, readable |-> TRUE, change |-> NoReplay, lesson |-> lesson]>>
  BY DEF Init
<1>2. Len(plan) = 1 /\ plan[1].lesson = lesson /\ plan[1].base = 0
  BY <1>1
<1>3. \A r \in 1..Len(plan) : r = 1
  BY <1>2
<1> QED
  BY <1>2, <1>3, LessonAssumption DEF RevisionsFit, RevisionFits

(* Only an accepted change adds a revision, and only a privacy operation     *)
(* takes their text.                                                         *)
LEMMA PlanSteps ==
  ASSUME [Next]_vars
  PROVE  plan' = plan \/ CommitPurge \/ \E h \in Handlers : CommitChange(h)
<1>1. CASE UNCHANGED vars
  BY <1>1 DEF vars
<1>2. CASE SaveContext \/ Rebuild \/ Restart \/ \E key \in Keys : Replay(key)
  BY <1>2 DEF SaveContext, Rebuild, Restart, Replay
<1>3. ASSUME NEW h \in Handlers,
             \/ \E key \in Keys, base \in DOMAIN plan, change \in Changes :
                   Apply(h, key, base, change)
             \/ Generate(h) \/ Refuse(h) \/ Stage(h) \/ Promote(h) \/ Remove(h)
             \/ CommitExport(h) \/ CommitReplays(h) \/ CommitConflicts(h) \/ CommitFails(h)
      PROVE  plan' = plan
  BY <1>3 DEF Apply, Generate, Refuse, Stage, Promote, Remove, CommitExport, CommitReplays,
     CommitConflicts, CommitFails
<1>4. CASE \/ \E p \in Purges : StartPurge(p)
           \/ \E b \in Started : Quarantine(b) \/ Restore(b) \/ Finalize(b)
           \/ PurgeRefused \/ EndRestore \/ EndPurge
  BY <1>4 DEF StartPurge, Quarantine, Restore, Finalize, PurgeRefused, EndRestore, EndPurge
<1> QED
  BY <1>1, <1>2, <1>3, <1>4 DEF Next

LEMMA CommitChangeRevisions ==
  ASSUME Inv, RevisionsFit, NEW h \in Handlers, CommitChange(h)
  PROVE  RevisionsFit'
<1>1. PICK w : w = handler[h]
  OBVIOUS
<1>2. /\ At(h, "published") /\ w.kind = "change"
      /\ plan' = IF MakesRevision(w) THEN Append(plan, Revision(w)) ELSE plan
  BY <1>1 DEF CommitChange
<1>3. HandlerFits(w) /\ w.change \in Changes /\ w.step = "published"
  BY <1>1, <1>2, AtIs DEF HandlerFits
<1>4. Passes(w.base, w.change) /\ w.base \in 1..Len(plan)
  BY <1>2, <1>3 DEF HandlerFits, Waiting
<1>5. CASE ~MakesRevision(w)
  BY <1>2, <1>5 DEF RevisionsFit
<1>6. CASE MakesRevision(w)
  <2>1. PICK e : e = Revision(w)
    OBVIOUS
  <2>2. /\ e.base = w.base /\ e.change = w.change
        /\ e.lesson = Candidate(plan[w.base].lesson, w.change) /\ IsRevision(e)
    BY <1>3, <1>4, <2>1, Sequences DEF Revision, IsRevision
  <2>3. PlanGrows /\ Len(plan') = Len(plan) + 1 /\ plan'[Len(plan) + 1] = e
    BY <1>2, <1>6, <2>1, <2>2, PlanAppends
  <2>4. \A r \in 1..Len(plan) : plan'[r] = plan[r]
    BY <2>3 DEF PlanGrows
  <2>5. IsLesson(plan[w.base].lesson) /\ IsChange(w.change)
    BY <1>3, <1>4, ChangeAssumption DEF RevisionsFit, RevisionFits
  <2>6. IsLesson(e.lesson)
    BY <1>4, <2>2, <2>5, CandidateIsMade DEF Passes
  <2>7. RevisionFits(e)
    <3>1. e.change \in Changes
      BY <1>3, <2>2, Zenon
    <3> QED
      BY <2>6, <3>1 DEF RevisionFits
  <2>8. PICK n \in Nat : n = Len(plan)
    BY Sequences
  <2>9. \A r \in 1..n + 1 : r = n + 1 \/ r \in 1..n
    OBVIOUS
  <2> QED
    BY <2>3, <2>4, <2>7, <2>8, <2>9 DEF RevisionsFit
<1> QED
  BY <1>5, <1>6

LEMMA CommitPurgeRevisions ==
  ASSUME Inv, RevisionsFit, CommitPurge
  PROVE  RevisionsFit'
<1>1. plan' = Redacted \/ plan' = plan
  BY DEF CommitPurge
<1>2. CASE plan' = Redacted
  <2>1. /\ Len(plan) \in Nat /\ DOMAIN plan = 1..Len(plan)
        /\ \A r \in 1..Len(plan) : IsRevision(plan[r])
    BY Sequences
  <2>2. Len(plan') = Len(plan) /\ \A r \in 1..Len(plan) : plan'[r] = [plan[r] EXCEPT !.readable = FALSE]
    BY <1>2, <2>1 DEF Redacted
  <2>3. \A r \in 1..Len(plan) : /\ plan'[r].lesson = plan[r].lesson
                                /\ plan'[r].base = plan[r].base
                                /\ plan'[r].change = plan[r].change
    BY <2>1, <2>2 DEF IsRevision
  <2> QED
    BY <2>2, <2>3 DEF RevisionsFit, RevisionFits
<1> QED
  BY <1>1, <1>2 DEF RevisionsFit

LEMMA AlwaysRevisions == Spec => []RevisionsFit
<1>1. Inv /\ RevisionsFit /\ [Next]_vars => RevisionsFit'
  <2> SUFFICES ASSUME Inv, RevisionsFit, [Next]_vars PROVE RevisionsFit'
    OBVIOUS
  <2>1. plan' = plan => RevisionsFit'
    BY DEF RevisionsFit
  <2> QED
    BY <2>1, PlanSteps, CommitChangeRevisions, CommitPurgeRevisions
<1> QED
  BY <1>1, InitRevisions, AlwaysInv, PTL DEF Spec

(* Every revision, after any sequence of changes to any lesson, is what the   *)
(* rules demand of its change: what is essential keeps its time, what is      *)
(* optional goes before anything is compressed, and no time is lost.         *)
LEMMA RulesKept == Inv /\ RevisionsFit => RevisionsKeepTheRules
<1> SUFFICES ASSUME Inv, RevisionsFit, NEW r \in DOMAIN plan, plan[r].base > 0
             PROVE  IsMade(plan[plan[r].base].lesson, plan[r].change, plan[r].lesson)
  BY DEF RevisionsKeepTheRules
<1>1. r \in 1..Len(plan)
  BY Sequences
<1>2. IsReviewed(plan[plan[r].base].lesson, plan[r].change, plan[r].lesson)
  BY <1>1 DEF Inv, RevisionsAreChecked
<1>3. plan[r].base \in 1..Len(plan)
  <2>1. plan[r].base = r - 1 /\ Len(plan) \in Nat
    BY Sequences DEF Inv, HistoryIsLinear
  <2> QED
    BY <1>1, <2>1
<1>4. IsLesson(plan[plan[r].base].lesson) /\ IsChange(plan[r].change)
  BY <1>1, <1>3, ChangeAssumption DEF RevisionsFit, RevisionFits
<1> QED
  BY <1>2, <1>4, CandidateIsMade DEF IsReviewed

(* Revisions, bundles, keys and the session agree, for every set of lessons    *)
(* and changes: no accepted change is lost or does more than it says, no key   *)
(* publishes twice, and the session shows what is current.                   *)
THEOREM PublicationIsConsistent == Spec => []PublicationConsistent
<1>1. Inv /\ RevisionsFit => PublicationConsistent
  BY InvTypes, InvKeys, RulesKept DEF PublicationConsistent, Inv
<1> QED
  BY <1>1, AlwaysInv, AlwaysRevisions, PTL
=============================================================================
