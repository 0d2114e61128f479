------------------------------ MODULE PageProofs -------------------------------
(***************************************************************************)
(* The page of the teacher, for every value of the constants.                *)
(* Its feedback panel (Feedback): what is recorded belongs to one plan and    *)
(* can be read again, a write advances the revision of its stream, and        *)
(* proposals rest on observations that are there.                            *)
(* Its draft (DraftClosing): saves, loads, conflicts, lost answers and        *)
(* requests to close the window lose no text and overwrite none unseen.       *)
(***************************************************************************)
EXTENDS Feedback, DraftClosing, TLAPS

-----------------------------------------------------------------------------
(* Feedback.                                                                *)

(* The inductive invariant: what the tables hold ...                        *)

(* How often a proposal was decided on, by its status. *)
DecisionsOf(status) ==
    CASE status = "proposed" -> 0 [] status \in {"accepted", "rejected"} -> 1 [] OTHER -> 2

Recorded ==
    /\ evidence = [a \in Analyses |-> evidence[a]]
    /\ \A o \in Observations : observation[o] # None => o \in answers
    /\ \A o \in tombstones : observation[o] # None
    /\ \A a \in Analyses : proposal[a] # None =>
         analysis[a] # None /\ proposal[a].decisions = DecisionsOf(proposal[a].status)

(* While a stream is as an analysis left it, what the analysis rests on lives. *)
BasisLives ==
    \A a \in Analyses : analysis[a] # None =>
      /\ \A o \in analysis[a].basis : observation[o] # None
      /\ analysis[a].begun <= revision[analysis[a].plan]
      /\ revision[analysis[a].plan] = analysis[a].begun => analysis[a].basis \subseteq Live

(* ... and what the page holds of it. *)
PageFits ==
    /\ screen = [plan |-> screen.plan, revision |-> screen.revision,
                 teachings |-> screen.teachings, list |-> screen.list, cards |-> screen.cards]
    /\ request = [h \in Handlers |-> request[h]]
    /\ \A card \in screen.cards :
         card.analysis \in Analyses /\ proposal[card.analysis] # None
    /\ request["analyze"] # None /\ request["analyze"].step = "waiting" =>
         request["analyze"].analysis \in Analyses /\ analysis[request["analyze"].analysis] # None

Inv == TypeOK /\ BindsOnePlan /\ HistoryReplays /\ Recorded /\ BasisLives /\ PageFits

-----------------------------------------------------------------------------
(* What a step does to the tables: a write to the stream of one plan, the    *)
(* end of an analysis, or nothing.                                          *)

Advances(p) == revision' = [revision EXCEPT ![p] = @ + 1]

TeachingWritten(p) ==
    /\ Advances(p) /\ UNCHANGED analysis
    /\ \E t \in Teachings : teaching[t] = None /\ StoreTeaching(t, p)

ObservationWritten(p) ==
    /\ Advances(p) /\ UNCHANGED analysis
    /\ \E o \in Observations, t \in Teachings, q \in Qualities :
         /\ observation[o] = None /\ Teaches(t, p)
         /\ StoreObservation(o, [plan |-> p, teaching |-> t, quality |-> q])

ObservationDeleted(p) ==
    /\ Advances(p) /\ UNCHANGED analysis
    /\ \E o \in LiveOf(p) : StoreDeletion(o)

AnalysisBegun(p) ==
    /\ Advances(p) /\ UNCHANGED <<teaching, observation, tombstones, answers, proposal, evidence>>
    /\ \E a \in Analyses, basis \in SUBSET LiveOf(p), ready \in BOOLEAN :
         /\ analysis[a] = None
         /\ analysis' = [analysis EXCEPT ![a] =
              [plan |-> p, basis |-> basis, begun |-> revision[p] + 1,
               run |-> IF ready THEN "running" ELSE "none",
               key |-> IF ready THEN "running" ELSE "succeeded"]]

AnalysisProposed(p) ==
    /\ Advances(p) /\ UNCHANGED <<teaching, observation, tombstones, answers, evidence>>
    /\ \E a \in Analyses :
         /\ analysis[a] # None /\ p = analysis[a].plan /\ UnchangedSince(a)
         /\ \E basis \in SUBSET analysis[a].basis :
              proposal' = [proposal EXCEPT ![a] = ProposalOn(p, basis)]
         /\ analysis' = [analysis EXCEPT ![a].run = "succeeded", ![a].key = "succeeded"]

DecisionWritten(p) ==
    /\ Advances(p) /\ UNCHANGED analysis
    /\ \E a \in Analyses, action \in {"accept", "reject", "revert"},
          effect \in {None} \cup EvidenceOn(p) :
         /\ proposal[a] # None /\ Grounds(a, p)
         /\ Decided(proposal[a].status, action) # "invalid"
         /\ StoreDecision(a, Decided(proposal[a].status, action), effect)

Written(p) ==
    \/ TeachingWritten(p) \/ ObservationWritten(p) \/ ObservationDeleted(p)
    \/ AnalysisBegun(p) \/ AnalysisProposed(p) \/ DecisionWritten(p)

AnalysisEnded ==
    /\ UNCHANGED stream
    /\ \E a \in Analyses :
         /\ analysis[a] # None
         /\ \E run \in {"stale", "unattributed"}, key \in {"failed", "succeeded"} :
              analysis' = [analysis EXCEPT ![a].run = run, ![a].key = key]

Resting == UNCHANGED <<stream, analysis>>

-----------------------------------------------------------------------------
LEMMA InitInv == Init => Inv
<1> SUFFICES ASSUME Init PROVE Inv
  OBVIOUS
<1>1. /\ revision = [p \in Plans |-> 0] /\ teaching = [t \in Teachings |-> None]
      /\ observation = [o \in Observations |-> None] /\ tombstones = {} /\ answers = {}
      /\ analysis = [a \in Analyses |-> None] /\ proposal = [a \in Analyses |-> None]
      /\ evidence = [a \in Analyses |-> None]
  BY DEF Init
<1>2. /\ screen = EmptyScreen /\ request = [h \in Handlers |-> None] /\ crashes = 0
  BY DEF Init
<1>3. screen.plan = None /\ screen.cards = {} /\ request["analyze"] = None
  BY <1>2 DEF EmptyScreen, Handlers
<1>4. MaxCrashes \in Nat
  BY BoundAssumption
<1>5. TypeOK
  BY <1>1, <1>2, <1>3, <1>4 DEF TypeOK, PlanOrNone, Optional
<1>6. BindsOnePlan /\ HistoryReplays
  BY <1>1 DEF BindsOnePlan, HistoryReplays, Live
<1>7. Recorded /\ BasisLives
  BY <1>1 DEF Recorded, BasisLives
<1>8. PageFits
  BY <1>2, <1>3 DEF PageFits, EmptyScreen
<1> QED
  BY <1>5, <1>6, <1>7, <1>8 DEF Inv

(* Requests write to the stream of the plan the page shows.                 *)
LEMMA ScreenPlan == Inv /\ screen.plan # None => screen.plan \in Plans
BY DEF Inv, TypeOK, PlanOrNone

LEMMA RecordKind ==
  ASSUME Inv, NEW t \in Teachings, RecordTeaching(t)
  PROVE  Resting \/ \E p \in Plans : Written(p)
BY ScreenPlan DEF RecordTeaching, Idle, Fresh, Committing, Conflict, Commit, Advances, Written,
   TeachingWritten, Resting

LEMMA ObserveKind ==
  ASSUME Inv, NEW o \in Observations, NEW t \in Teachings, NEW q \in Qualities,
         SaveObservation(o, t, q)
  PROVE  Resting \/ \E p \in Plans : Written(p)
<1> DEFINE p == screen.plan
           r == [plan |-> p, teaching |-> t, quality |-> q]
<1>1. p \in Plans /\ observation[o] = None /\ UNCHANGED analysis
  BY ScreenPlan DEF SaveObservation, Idle, Fresh
<1>2. r.plan = p /\ r.teaching = t
  OBVIOUS
<1>3. \/ Unacceptable("observe")
      \/ Refused("observe")
      \/ Teaches(t, p) /\ Committing("observe", p, StoreObservation(o, r))
  BY <1>2 DEF SaveObservation, ObservationsAdd
<1>4. CASE Unacceptable("observe") \/ Refused("observe")
  BY <1>1, <1>4 DEF Unacceptable, Refused, Resting
<1>5. CASE Teaches(t, p) /\ Committing("observe", p, StoreObservation(o, r))
  BY <1>1, <1>5 DEF Committing, Conflict, Commit, Resting, Written, ObservationWritten, Advances
<1> QED
  BY <1>3, <1>4, <1>5

LEMMA LivePlan ==
  ASSUME Inv, NEW p, NEW o \in LiveOf(p)
  PROVE  o \in Observations /\ observation[o] # None /\ p \in Plans /\ observation[o].plan = p
         /\ o \notin tombstones
BY DEF LiveOf, Live, Inv, TypeOK, Optional, ObservationRecords

LEMMA DeleteKind ==
  ASSUME Inv, DeleteObservation
  PROVE  Resting \/ \E p \in Plans : Written(p)
<1> DEFINE r == request["observe"]
           p == r.plan
           o == r.observation
<1>1. \/ Refused("observe") /\ UNCHANGED analysis
      \/ Conflict("observe", p) /\ UNCHANGED analysis
      \/ /\ o \in LiveOf(p) /\ Commit("observe", p) /\ StoreDeletion(o) /\ UNCHANGED analysis
  BY DEF DeleteObservation
<1>2. CASE (Refused("observe") \/ Conflict("observe", p)) /\ UNCHANGED analysis
  BY <1>2 DEF Refused, Conflict, Resting
<1>3. CASE o \in LiveOf(p) /\ Commit("observe", p) /\ StoreDeletion(o) /\ UNCHANGED analysis
  BY <1>3, LivePlan DEF Commit, Written, ObservationDeleted, Advances
<1> QED
  BY <1>1, <1>2, <1>3

LEMMA AnalyzeKind ==
  ASSUME Inv, NEW a \in Analyses, Analyze(a)
  PROVE  Resting \/ \E p \in Plans : Written(p)
<1> DEFINE p == Shown.plan
           basis == Shown.observations
<1>1. p \in Plans
  BY ScreenPlan DEF Analyze, Idle, Shown
<1>2. \/ Refused("analyze") /\ UNCHANGED analysis
      \/ Conflict("analyze", p) /\ UNCHANGED analysis
      \/ basis \subseteq LiveOf(p) /\ analysis[a] = None /\ BeginAnalysis(a, p, basis)
  BY DEF Analyze, AnalyzeInternal
<1>3. CASE (Refused("analyze") \/ Conflict("analyze", p)) /\ UNCHANGED analysis
  BY <1>3 DEF Refused, Conflict, Resting
<1>4. CASE basis \subseteq LiveOf(p) /\ analysis[a] = None /\ BeginAnalysis(a, p, basis)
  <2> HIDE DEF p, basis
  <2>1. ReadyForAttribution(basis) \in BOOLEAN
    BY DEF ReadyForAttribution
  <2> DEFINE ready == ReadyForAttribution(basis)
  <2>2. /\ Advances(p)
        /\ analysis' = [analysis EXCEPT ![a] =
              [plan |-> p, basis |-> basis, begun |-> revision[p] + 1,
               run |-> IF ready THEN "running" ELSE "none",
               key |-> IF ready THEN "running" ELSE "succeeded"]]
        /\ UNCHANGED <<teaching, observation, tombstones, answers, proposal, evidence>>
    BY <1>4 DEF BeginAnalysis, Advances
  <2> HIDE DEF ready
  <2>3. ready \in BOOLEAN
    BY <2>1 DEF ready
  <2>4. AnalysisBegun(p)
    BY <1>4, <2>2, <2>3 DEF AnalysisBegun
  <2> QED
    BY <1>1, <2>4 DEF Written
<1> QED
  BY <1>2, <1>3, <1>4

LEMMA AnswerKind ==
  ASSUME Inv, NEW a \in Analyses, ModelAnswers(a)
  PROVE  Resting \/ AnalysisEnded \/ \E p \in Plans : Written(p)
<1>1. Awaited(a) => analysis[a] # None /\ analysis[a].plan \in Plans
  BY DEF Awaited, Inv, PageFits, TypeOK, Optional, AnalysisRecords
<1>2. CASE Stale(a)
  BY <1>1, <1>2 DEF Stale, Conflict, AnalysisEnded
<1>3. CASE EndWithout(a)
  BY <1>1, <1>3 DEF EndWithout, AnalysisEnded
<1>4. CASE AnalysisThrows(a)
  BY <1>4 DEF AnalysisThrows, Refused, Resting
<1>5. ASSUME NEW basis \in SUBSET Observations, Attribute(a, basis) PROVE \E p \in Plans : Written(p)
  BY <1>1, <1>5 DEF Attribute, ValidBases, Context, Commit, Written, AnalysisProposed, Advances
<1> QED
  BY <1>2, <1>3, <1>4, <1>5 DEF ModelAnswers

LEMMA DecideKind ==
  ASSUME Inv, NEW card \in screen.cards, NEW action \in {"accept", "reject", "revert"},
         NEW effect \in {None} \cup EvidenceOn(screen.plan), DecideCorrection(card, action, effect)
  PROVE  Resting \/ \E p \in Plans : Written(p)
<1> DEFINE p == screen.plan
           a == card.analysis
           status == Decided(proposal[a].status, action)
<1>1. p \in Plans /\ a \in Analyses /\ proposal[a] # None /\ UNCHANGED analysis
  BY ScreenPlan DEF DecideCorrection, Idle, Inv, PageFits
<1>2. \/ Conflict("correct", p) \/ Refused("correct")
      \/ Grounds(a, p) /\ status # "invalid" /\ Commit("correct", p) /\ StoreDecision(a, status, effect)
  BY DEF DecideCorrection, CommitCorrection
<1>3. CASE Conflict("correct", p) \/ Refused("correct")
  BY <1>1, <1>3 DEF Conflict, Refused, Resting
<1>4. CASE Grounds(a, p) /\ status # "invalid" /\ Commit("correct", p)
           /\ StoreDecision(a, status, effect)
  <2>1. DecisionWritten(p)
    BY <1>1, <1>4 DEF Commit, Advances, DecisionWritten
  <2> QED
    BY <1>1, <2>1 DEF Written
<1> QED
  BY <1>2, <1>3, <1>4

LEMMA StepKind ==
  ASSUME Inv, [Next]_vars
  PROVE  Resting \/ AnalysisEnded \/ \E p \in Plans : Written(p)
<1>1. CASE \/ UNCHANGED vars \/ OpenLoaded \/ Crash
           \/ \E o \in Observations : PrepareDelete(o)
           \/ \E step \in {"confirmed", "lapsed", "declined"} : Confirm(step)
           \/ \E p \in Plans : OpenPlan(p)
           \/ \E h \in Handlers : Answered(h) \/ Load(h)
  BY <1>1 DEF vars, OpenLoaded, Crash, PrepareDelete, Confirm, OpenPlan, Answered, Load, Resting
<1>2. \/ \E t \in Teachings : RecordTeaching(t)
      \/ \E o \in Observations, t \in Teachings, q \in Qualities : SaveObservation(o, t, q)
      \/ \E a \in Analyses : Analyze(a)
      \/ \E card \in screen.cards, action \in {"accept", "reject", "revert"} :
           \E effect \in {None} \cup EvidenceOn(screen.plan) : DecideCorrection(card, action, effect)
      \/ DeleteObservation
      \/ \E a \in Analyses : ModelAnswers(a)
      \/ \/ UNCHANGED vars \/ OpenLoaded \/ Crash
         \/ \E o \in Observations : PrepareDelete(o)
         \/ \E step \in {"confirmed", "lapsed", "declined"} : Confirm(step)
         \/ \E p \in Plans : OpenPlan(p)
         \/ \E h \in Handlers : Answered(h) \/ Load(h)
  BY DEF Next, User
<1> QED
  BY <1>1, <1>2, RecordKind, ObserveKind, DeleteKind, AnalyzeKind, AnswerKind, DecideKind

-----------------------------------------------------------------------------
(* The tables, kind by kind.                                                *)
TablesTyped ==
    /\ revision \in [Plans -> Nat] /\ teaching \in [Teachings -> PlanOrNone]
    /\ observation \in [Observations -> Optional(ObservationRecords)]
    /\ tombstones \subseteq answers /\ answers \subseteq Observations
    /\ analysis \in [Analyses -> Optional(AnalysisRecords)]
    /\ proposal \in [Analyses -> Optional(ProposalRecords)]

Tables == TablesTyped /\ BindsOnePlan /\ HistoryReplays /\ Recorded /\ BasisLives

(* Analyses and proposals are never taken back. *)
Grows ==
    \A a \in Analyses : /\ analysis[a] # None => analysis'[a] # None
                        /\ proposal[a] # None => proposal'[a] # None

LEMMA InvTables == Inv => Tables
BY DEF Inv, TypeOK, Tables, TablesTyped

LEMMA Advanced ==
  ASSUME Tables, NEW p \in Plans, Advances(p)
  PROVE  /\ revision' \in [Plans -> Nat] /\ revision'[p] = revision[p] + 1
         /\ \A q \in Plans : revision[q] \in Nat /\ revision'[q] >= revision[q]
         /\ \A q \in Plans \ {p} : revision'[q] = revision[q]
BY DEF Advances, Tables, TablesTyped

(* An analysis whose record stays, while nothing it rests on goes. *)
LEMMA BasisStays ==
  ASSUME Tables, NEW p \in Plans, Advances(p), UNCHANGED analysis,
         \A o \in Observations : observation[o] # None => observation'[o] = observation[o],
         \A o \in Live : o \notin Live' => observation[o].plan = p
  PROVE  BasisLives'
<1> SUFFICES ASSUME NEW a \in Analyses, analysis[a] # None
             PROVE  /\ \A o \in analysis[a].basis : observation'[o] # None
                    /\ analysis[a].begun <= revision'[analysis[a].plan]
                    /\ revision'[analysis[a].plan] = analysis[a].begun =>
                          analysis[a].basis \subseteq Live'
  BY DEF BasisLives
<1>1. /\ analysis[a].basis \subseteq Observations /\ analysis[a].plan \in Plans
      /\ analysis[a].begun \in Nat
  BY DEF Tables, TablesTyped, Optional, AnalysisRecords
<1>2. /\ \A o \in analysis[a].basis : observation[o] # None /\ observation[o].plan = analysis[a].plan
      /\ analysis[a].begun <= revision[analysis[a].plan]
      /\ revision[analysis[a].plan] = analysis[a].begun => analysis[a].basis \subseteq Live
  BY DEF Tables, BasisLives, BindsOnePlan
<1>3. \A o \in analysis[a].basis : observation'[o] # None
  BY <1>1, <1>2
<1>4. analysis[a].begun <= revision'[analysis[a].plan]
  BY <1>1, <1>2, Advanced
<1>5. ASSUME revision'[analysis[a].plan] = analysis[a].begun
      PROVE  analysis[a].basis \subseteq Live'
  <2>1. analysis[a].plan # p /\ revision[analysis[a].plan] = analysis[a].begun
    BY <1>1, <1>2, <1>5, Advanced
  <2> QED
    BY <1>2, <2>1
<1> QED
  BY <1>3, <1>4, <1>5

LEMMA TeachingTables ==
  ASSUME Tables, NEW p \in Plans, TeachingWritten(p)
  PROVE  Tables' /\ Grows
<1>1. PICK t \in Teachings : /\ teaching[t] = None /\ teaching' = [teaching EXCEPT ![t] = p]
                            /\ UNCHANGED <<observation, tombstones, answers, proposal, evidence, analysis>>
                            /\ Advances(p)
  BY DEF TeachingWritten, StoreTeaching
<1>2. TablesTyped'
  BY <1>1, Advanced DEF Tables, TablesTyped, PlanOrNone
<1>3. Live' = Live
  BY <1>1 DEF Live
<1>4. BindsOnePlan'
  <2>1. \A o \in Live : /\ teaching[observation[o].teaching] = observation[o].plan
                        /\ observation[o].plan \in Plans /\ observation[o].teaching \in Teachings
    BY DEF Tables, BindsOnePlan, TablesTyped, Live, Optional, ObservationRecords
  <2>2. \A o \in Live : observation[o].teaching # t
    BY <1>1, <2>1, NoneAssumption
  <2>3. \A o \in Live : teaching'[observation[o].teaching] = observation[o].plan
    BY <1>1, <2>1, <2>2 DEF Tables, TablesTyped
  <2> QED
    BY <1>1, <1>3, <2>3 DEF Tables, BindsOnePlan
<1>5. BasisLives'
  BY <1>1, <1>3, BasisStays
<1>6. HistoryReplays' /\ Recorded'
  BY <1>1 DEF Tables, HistoryReplays, Recorded, Replayed
<1> QED
  BY <1>1, <1>2, <1>4, <1>5, <1>6 DEF Tables, Grows

LEMMA ObservationTables ==
  ASSUME Tables, NEW p \in Plans, ObservationWritten(p)
  PROVE  Tables' /\ Grows
<1>1. PICK o \in Observations, t \in Teachings, q \in Qualities :
         /\ observation[o] = None /\ Teaches(t, p)
         /\ StoreObservation(o, [plan |-> p, teaching |-> t, quality |-> q])
  BY DEF ObservationWritten
<1> DEFINE r == [plan |-> p, teaching |-> t, quality |-> q]
<1>2. r \in ObservationRecords /\ r.plan = p /\ r.teaching = t
  BY QualityAssumption DEF ObservationRecords
<1> HIDE DEF r
<1>3. /\ observation' = [observation EXCEPT ![o] = r] /\ answers' = answers \cup {o}
      /\ UNCHANGED <<teaching, tombstones, proposal, evidence, analysis>> /\ Advances(p)
  BY <1>1 DEF ObservationWritten, StoreObservation, r
<1>4. TablesTyped'
  BY <1>2, <1>3, Advanced DEF Tables, TablesTyped, Optional
<1>5. /\ observation'[o] = r /\ o \notin Live
      /\ \A x \in Observations \ {o} : observation'[x] = observation[x]
  BY <1>1, <1>3 DEF Tables, TablesTyped, Live
<1>6. Live \subseteq Live' /\ Live' \subseteq Live \cup {o}
  BY <1>3, <1>5 DEF Live
<1>7. \A x \in Live : observation'[x] = observation[x]
  BY <1>5 DEF Live
<1>8. BindsOnePlan'
  <2>1. \A x \in Live' : teaching'[observation'[x].teaching] = observation'[x].plan
    BY <1>1, <1>2, <1>3, <1>5, <1>6, <1>7 DEF Tables, BindsOnePlan, Teaches
  <2>2. \A a \in Analyses : analysis[a] # None =>
           \A x \in analysis[a].basis : observation'[x].plan = analysis[a].plan
    <3> SUFFICES ASSUME NEW a \in Analyses, analysis[a] # None, NEW x \in analysis[a].basis
                 PROVE  observation'[x].plan = analysis[a].plan
      OBVIOUS
    <3>1. x \in Observations /\ observation[x] # None /\ observation[x].plan = analysis[a].plan
      BY DEF Tables, BasisLives, BindsOnePlan, TablesTyped, Optional, AnalysisRecords
    <3> QED
      BY <1>1, <1>5, <3>1
  <2> QED
    BY <1>3, <2>1, <2>2 DEF Tables, BindsOnePlan
<1>9. BasisLives'
  BY <1>1, <1>3, <1>5, <1>6, BasisStays
<1>10. HistoryReplays' /\ Recorded'
  BY <1>3, <1>5, <1>1 DEF Tables, HistoryReplays, Recorded, Replayed, TablesTyped
<1> QED
  BY <1>3, <1>4, <1>8, <1>9, <1>10 DEF Tables, Grows

LEMMA DeletionTables ==
  ASSUME Tables, NEW p \in Plans, ObservationDeleted(p)
  PROVE  Tables' /\ Grows
<1>1. PICK o \in LiveOf(p) : StoreDeletion(o)
  BY DEF ObservationDeleted
<1>2. /\ tombstones' = tombstones \cup {o} /\ Advances(p)
      /\ UNCHANGED <<observation, teaching, answers, proposal, evidence, analysis>>
  BY <1>1 DEF ObservationDeleted, StoreDeletion
<1>3. o \in Observations /\ observation[o] # None /\ observation[o].plan = p /\ o \in answers
  BY <1>1 DEF LiveOf, Live, Tables, Recorded
<1>4. Live' = Live \ {o}
  BY <1>2 DEF Live
<1>5. TablesTyped'
  BY <1>2, <1>3, Advanced DEF Tables, TablesTyped
<1>6. BindsOnePlan' /\ HistoryReplays' /\ Recorded'
  BY <1>2, <1>3, <1>4 DEF Tables, BindsOnePlan, HistoryReplays, Recorded, Replayed
<1>7. BasisLives'
  BY <1>2, <1>3, <1>4, BasisStays
<1> QED
  BY <1>2, <1>5, <1>6, <1>7 DEF Tables, Grows

LEMMA BegunTables ==
  ASSUME Tables, NEW p \in Plans, AnalysisBegun(p)
  PROVE  Tables' /\ Grows
<1>1. PICK a \in Analyses, basis \in SUBSET LiveOf(p), ready \in BOOLEAN :
         /\ analysis[a] = None
         /\ analysis' = [analysis EXCEPT ![a] =
              [plan |-> p, basis |-> basis, begun |-> revision[p] + 1,
               run |-> IF ready THEN "running" ELSE "none",
               key |-> IF ready THEN "running" ELSE "succeeded"]]
  BY DEF AnalysisBegun
<1> DEFINE r == [plan |-> p, basis |-> basis, begun |-> revision[p] + 1,
                 run |-> IF ready THEN "running" ELSE "none",
                 key |-> IF ready THEN "running" ELSE "succeeded"]
<1>2. /\ UNCHANGED <<teaching, observation, tombstones, answers, proposal, evidence>> /\ Advances(p)
  BY DEF AnalysisBegun
<1>3. /\ \A o \in basis : o \in Live /\ observation[o] # None /\ observation[o].plan = p
      /\ basis \subseteq Observations
  BY DEF LiveOf, Live
<1>4. r \in AnalysisRecords /\ r.basis = basis /\ r.plan = p /\ r.begun = revision[p] + 1
  BY <1>2, <1>3, Advanced DEF AnalysisRecords
<1>5. analysis' = [analysis EXCEPT ![a] = r]
  BY <1>1
<1> HIDE DEF r
<1>6. r # None
  BY <1>4, NoneAssumption
<1>7. analysis'[a] = r /\ \A b \in Analyses \ {a} : analysis'[b] = analysis[b]
  BY <1>5 DEF Tables, TablesTyped
<1>8. TablesTyped'
  BY <1>2, <1>4, <1>5, Advanced DEF Tables, TablesTyped, Optional
<1>9. Live' = Live
  BY <1>2 DEF Live
<1>10. proposal[a] = None
  BY <1>1 DEF Tables, Recorded
<1>11. BindsOnePlan' /\ HistoryReplays' /\ Recorded'
  <2>1. Recorded'
    BY <1>2, <1>7, <1>10 DEF Tables, Recorded
  <2>2. HistoryReplays'
    BY <1>2 DEF Tables, HistoryReplays, Replayed
  <2>3. BindsOnePlan'
    BY <1>2, <1>3, <1>4, <1>7, <1>9, <1>10 DEF Tables, BindsOnePlan
  <2> QED
    BY <2>1, <2>2, <2>3
<1>12. BasisLives'
  <2> SUFFICES ASSUME NEW b \in Analyses, analysis'[b] # None
               PROVE  /\ \A o \in analysis'[b].basis : observation'[o] # None
                      /\ analysis'[b].begun <= revision'[analysis'[b].plan]
                      /\ revision'[analysis'[b].plan] = analysis'[b].begun =>
                            analysis'[b].basis \subseteq Live'
    BY DEF BasisLives
  <2>1. CASE b = a
    BY <1>2, <1>3, <1>4, <1>7, <1>9, <2>1, Advanced
  <2>2. CASE b # a
    <3>1. /\ analysis'[b] = analysis[b] /\ analysis[b].plan \in Plans /\ analysis[b].begun \in Nat
      BY <1>7, <2>2 DEF Tables, TablesTyped, Optional, AnalysisRecords
    <3>2. /\ \A o \in analysis[b].basis : observation[o] # None
          /\ analysis[b].begun <= revision[analysis[b].plan]
          /\ revision[analysis[b].plan] = analysis[b].begun => analysis[b].basis \subseteq Live
      BY <3>1 DEF Tables, BasisLives
    <3> QED
      BY <1>2, <1>9, <3>1, <3>2, Advanced
  <2> QED
    BY <2>1, <2>2
<1> QED
  BY <1>2, <1>6, <1>7, <1>8, <1>11, <1>12 DEF Tables, Grows

(* An analysis that ends keeps what it is of. *)
LEMMA Ending ==
  ASSUME Tables, NEW a \in Analyses, analysis[a] # None,
         NEW run \in {"stale", "unattributed", "succeeded"}, NEW key \in {"failed", "succeeded"},
         analysis' = [analysis EXCEPT ![a].run = run, ![a].key = key]
  PROVE  /\ analysis' \in [Analyses -> Optional(AnalysisRecords)]
         /\ \A b \in Analyses : analysis[b] # None <=> analysis'[b] # None
         /\ \A b \in Analyses : analysis[b] # None =>
               /\ analysis'[b].basis = analysis[b].basis /\ analysis'[b].plan = analysis[b].plan
               /\ analysis'[b].begun = analysis[b].begun
<1> DEFINE r == [analysis[a] EXCEPT !.run = run, !.key = key]
<1>1. analysis[a] \in AnalysisRecords
  BY DEF Tables, TablesTyped, Optional
<1>2. /\ r \in AnalysisRecords /\ r.basis = analysis[a].basis /\ r.plan = analysis[a].plan
      /\ r.begun = analysis[a].begun
  BY <1>1 DEF AnalysisRecords
<1>3. analysis' = [analysis EXCEPT ![a] = r]
  BY DEF Tables, TablesTyped
<1> HIDE DEF r
<1>4. r # None
  BY <1>2, NoneAssumption
<1>5. analysis'[a] = r /\ \A b \in Analyses \ {a} : analysis'[b] = analysis[b]
  BY <1>3 DEF Tables, TablesTyped
<1>6. analysis' \in [Analyses -> Optional(AnalysisRecords)]
  BY <1>2, <1>3 DEF Tables, TablesTyped, Optional
<1> QED
  BY <1>2, <1>4, <1>5, <1>6

LEMMA EndedTables == ASSUME Tables, AnalysisEnded PROVE Tables' /\ Grows
<1>1. PICK a \in Analyses, run \in {"stale", "unattributed"}, key \in {"failed", "succeeded"} :
         analysis[a] # None /\ analysis' = [analysis EXCEPT ![a].run = run, ![a].key = key]
  BY DEF AnalysisEnded
<1>2. UNCHANGED <<revision, teaching, observation, tombstones, answers, proposal, evidence>>
  BY DEF AnalysisEnded, stream
<1>3. /\ analysis' \in [Analyses -> Optional(AnalysisRecords)]
      /\ \A b \in Analyses : analysis[b] # None <=> analysis'[b] # None
      /\ \A b \in Analyses : analysis[b] # None =>
            /\ analysis'[b].basis = analysis[b].basis /\ analysis'[b].plan = analysis[b].plan
            /\ analysis'[b].begun = analysis[b].begun
  BY <1>1, Ending
<1>4. Live' = Live
  BY <1>2 DEF Live
<1>5. TablesTyped'
  BY <1>2, <1>3 DEF Tables, TablesTyped
<1>6. HistoryReplays' /\ Recorded'
  BY <1>2, <1>3 DEF Tables, HistoryReplays, Replayed, Recorded
<1>7. BindsOnePlan'
  BY <1>2, <1>3, <1>4 DEF Tables, BindsOnePlan, Recorded
<1>8. BasisLives'
  BY <1>2, <1>3, <1>4 DEF Tables, BasisLives
<1> QED
  BY <1>2, <1>3, <1>5, <1>6, <1>7, <1>8 DEF Tables, Grows

LEMMA ProposedTables ==
  ASSUME Tables, NEW p \in Plans, AnalysisProposed(p)
  PROVE  Tables' /\ Grows
<1>1. PICK a \in Analyses :
         /\ analysis[a] # None /\ p = analysis[a].plan /\ UnchangedSince(a)
         /\ \E basis \in SUBSET analysis[a].basis :
              proposal' = [proposal EXCEPT ![a] = ProposalOn(p, basis)]
         /\ analysis' = [analysis EXCEPT ![a].run = "succeeded", ![a].key = "succeeded"]
  BY DEF AnalysisProposed
<1>2. PICK basis \in SUBSET analysis[a].basis :
         proposal' = [proposal EXCEPT ![a] = ProposalOn(p, basis)]
  BY <1>1
<1>3. UNCHANGED <<teaching, observation, tombstones, answers, evidence>> /\ Advances(p)
  BY DEF AnalysisProposed
<1>4. /\ analysis' \in [Analyses -> Optional(AnalysisRecords)]
      /\ \A b \in Analyses : analysis[b] # None <=> analysis'[b] # None
      /\ \A b \in Analyses : analysis[b] # None =>
            /\ analysis'[b].basis = analysis[b].basis /\ analysis'[b].plan = analysis[b].plan
            /\ analysis'[b].begun = analysis[b].begun
  BY <1>1, Ending
<1> DEFINE r == ProposalOn(p, basis)
<1>5. /\ r \in ProposalRecords /\ r.plan = p /\ r.basis = basis /\ r.status = "proposed"
      /\ r.decisions = 0
  BY <1>1, <1>2 DEF ProposalOn, ProposalRecords, Tables, TablesTyped, Optional, AnalysisRecords
<1> HIDE DEF r
<1>6. r # None /\ proposal' = [proposal EXCEPT ![a] = r]
  BY <1>2, <1>5, NoneAssumption DEF r
<1>7. proposal'[a] = r /\ \A b \in Analyses \ {a} : proposal'[b] = proposal[b]
  BY <1>6 DEF Tables, TablesTyped
<1>8. Live' = Live
  BY <1>3 DEF Live
<1>9. TablesTyped'
  BY <1>3, <1>4, <1>5, <1>6, Advanced DEF Tables, TablesTyped, Optional
<1>10. HistoryReplays'
  BY <1>3 DEF Tables, HistoryReplays, Replayed
<1>11. Recorded'
  BY <1>1, <1>3, <1>4, <1>5, <1>7 DEF Tables, Recorded, DecisionsOf
<1>12. BindsOnePlan'
  <2>1. \A b \in Analyses : proposal'[b] # None =>
          proposal'[b].basis \subseteq analysis'[b].basis /\ proposal'[b].plan = analysis'[b].plan
    BY <1>1, <1>2, <1>4, <1>5, <1>7 DEF Tables, BindsOnePlan, Recorded
  <2>2. \A b \in Analyses : analysis'[b] # None =>
          \A o \in analysis'[b].basis : observation[o].plan = analysis'[b].plan
    BY <1>4 DEF Tables, BindsOnePlan
  <2> QED
    BY <1>3, <1>8, <2>1, <2>2 DEF Tables, BindsOnePlan
<1>13. BasisLives'
  <2> SUFFICES ASSUME NEW b \in Analyses, analysis'[b] # None
               PROVE  /\ \A o \in analysis'[b].basis : observation'[o] # None
                      /\ analysis'[b].begun <= revision'[analysis'[b].plan]
                      /\ revision'[analysis'[b].plan] = analysis'[b].begun =>
                            analysis'[b].basis \subseteq Live'
    BY DEF BasisLives
  <2>1. /\ analysis[b] # None /\ analysis'[b].plan = analysis[b].plan
        /\ analysis'[b].basis = analysis[b].basis /\ analysis'[b].begun = analysis[b].begun
    BY <1>4
  <2>2. analysis[b].plan \in Plans /\ analysis[b].begun \in Nat
    BY <2>1 DEF Tables, TablesTyped, Optional, AnalysisRecords
  <2>3. /\ \A o \in analysis[b].basis : observation[o] # None
        /\ analysis[b].begun <= revision[analysis[b].plan]
        /\ revision[analysis[b].plan] = analysis[b].begun => analysis[b].basis \subseteq Live
    BY <2>1 DEF Tables, BasisLives
  <2> QED
    BY <1>3, <1>8, <2>1, <2>2, <2>3, Advanced
<1> QED
  BY <1>4, <1>6, <1>7, <1>9, <1>10, <1>11, <1>12, <1>13 DEF Tables, Grows

LEMMA DecisionTables ==
  ASSUME Tables, NEW p \in Plans, DecisionWritten(p)
  PROVE  Tables' /\ Grows
<1>1. PICK a \in Analyses, action \in {"accept", "reject", "revert"},
           effect \in {None} \cup EvidenceOn(p) :
         /\ proposal[a] # None /\ Grounds(a, p)
         /\ Decided(proposal[a].status, action) # "invalid"
         /\ StoreDecision(a, Decided(proposal[a].status, action), effect)
  BY DEF DecisionWritten
<1> DEFINE status == Decided(proposal[a].status, action)
           r == [proposal[a] EXCEPT !.status = status, !.decisions = @ + 1]
<1>2. /\ UNCHANGED <<teaching, observation, tombstones, answers, analysis>> /\ Advances(p)
      /\ evidence' = IF effect = None THEN evidence ELSE [evidence EXCEPT ![a] = effect]
      /\ proposal' = [proposal EXCEPT ![a].status = status, ![a].decisions = @ + 1]
  BY <1>1 DEF DecisionWritten, StoreDecision
<1>3. proposal[a] \in ProposalRecords /\ proposal[a].decisions = DecisionsOf(proposal[a].status)
  BY <1>1 DEF Tables, TablesTyped, Optional, Recorded
<1>4. /\ status \in {"accepted", "rejected", "reverted"}
      /\ DecisionsOf(status) = proposal[a].decisions + 1
  <2>1. \/ action = "accept" /\ proposal[a].status = "proposed" /\ status = "accepted"
        \/ action = "reject" /\ proposal[a].status = "proposed" /\ status = "rejected"
        \/ action = "revert" /\ proposal[a].status = "accepted" /\ status = "reverted"
    BY <1>1 DEF Decided
  <2> QED
    BY <1>3, <2>1 DEF DecisionsOf
<1> HIDE DEF status
<1>5. /\ r \in ProposalRecords /\ r.plan = proposal[a].plan /\ r.basis = proposal[a].basis
      /\ r.status = status /\ r.decisions = DecisionsOf(status)
  <2>1. DecisionsOf(status) \in 0..2
    BY DEF DecisionsOf
  <2> QED
    BY <1>3, <1>4, <2>1 DEF ProposalRecords
<1>6. proposal' = [proposal EXCEPT ![a] = r]
  BY <1>2 DEF Tables, TablesTyped
<1> HIDE DEF r
<1>7. r # None
  BY <1>5, NoneAssumption
<1>8. proposal'[a] = r /\ \A b \in Analyses \ {a} : proposal'[b] = proposal[b]
  BY <1>6 DEF Tables, TablesTyped
<1>9. TablesTyped'
  BY <1>2, <1>5, <1>6, Advanced DEF Tables, TablesTyped, Optional
<1>10. Live' = Live
  BY <1>2 DEF Live
<1>11. BindsOnePlan'
  BY <1>1, <1>2, <1>5, <1>8, <1>10 DEF Tables, BindsOnePlan
<1>12. HistoryReplays'
  <2>1. effect # None => Applies(effect)
    BY <1>1 DEF EvidenceOn
  <2>2. \A b \in Analyses : evidence'[b] = evidence[b] \/ evidence'[b] = effect
    BY <1>2 DEF Tables, Recorded
  <2> QED
    BY <2>1, <2>2 DEF Tables, HistoryReplays, Replayed
<1>13. Recorded'
  <2>1. evidence' = [b \in Analyses |-> evidence'[b]]
    BY <1>2 DEF Tables, Recorded
  <2> QED
    BY <1>1, <1>2, <1>5, <1>8, <2>1 DEF Tables, Recorded
<1>14. BasisLives'
  BY <1>2, <1>10, BasisStays
<1> QED
  BY <1>1, <1>2, <1>7, <1>8, <1>9, <1>11, <1>12, <1>13, <1>14 DEF Tables, Grows

LEMMA RestingTables == ASSUME Tables, Resting PROVE Tables' /\ Grows
BY DEF Resting, stream, Tables, TablesTyped, BindsOnePlan, HistoryReplays, Replayed, Recorded,
   BasisLives, Live, Grows

LEMMA StepTables == ASSUME Inv, [Next]_vars PROVE Tables' /\ Grows
BY InvTables, StepKind, TeachingTables, ObservationTables, DeletionTables, BegunTables,
   ProposedTables, DecisionTables, EndedTables, RestingTables DEF Written

-----------------------------------------------------------------------------
(* The page.                                                                *)
ScreenShape ==
    screen = [plan |-> screen.plan, revision |-> screen.revision,
              teachings |-> screen.teachings, list |-> screen.list, cards |-> screen.cards]
PlanShown == screen.plan \in PlanOrNone
CardsExist == \A card \in screen.cards :
                 card.analysis \in Analyses /\ proposal[card.analysis] # None
RequestShape == request = [h \in Handlers |-> request[h]]
WaitsForAnalysis ==
    request["analyze"] # None /\ request["analyze"].step = "waiting" =>
      request["analyze"].analysis \in Analyses /\ analysis[request["analyze"].analysis] # None

LEMMA CardsAre == ASSUME NEW p PROVE \A card \in Cards(p) :
                     card.analysis \in Analyses /\ proposal[card.analysis] # None
BY DEF Cards

LEMMA ScreenStep ==
  ASSUME Inv, [Next]_vars
  PROVE  (ScreenShape /\ PlanShown /\ CardsExist)'
<1>1. ScreenShape /\ PlanShown /\ CardsExist
  BY DEF Inv, PageFits, TypeOK, ScreenShape, PlanShown, CardsExist
<1>2. \A a \in Analyses : proposal[a] # None => proposal'[a] # None
  BY StepTables DEF Grows
<1>3. CASE UNCHANGED screen
  BY <1>1, <1>2, <1>3 DEF ScreenShape, PlanShown, CardsExist
<1>4. ASSUME NEW h \in Handlers, Answered(h) PROVE (ScreenShape /\ PlanShown /\ CardsExist)'
  <2>1. screen' = [screen EXCEPT !.revision = request[h].revision]
    BY <1>4 DEF Answered
  <2>2. ScreenShape' /\ screen'.plan = screen.plan /\ screen'.cards = screen.cards
    BY <1>1, <2>1 DEF ScreenShape
  <2> QED
    BY <1>1, <1>2, <2>2 DEF PlanShown, CardsExist
<1>5. ASSUME NEW h \in Handlers, Load(h) PROVE (ScreenShape /\ PlanShown /\ CardsExist)'
  <2> DEFINE p == request[h].plan
  <2>1. \/ screen' = [screen EXCEPT !.list = LiveOf(p)]
        \/ screen' = [screen EXCEPT !.revision = revision[p], !.teachings = TeachingsOf(p),
                                    !.cards = Cards(p)]
    BY <1>5 DEF Load
  <2> HIDE DEF p
  <2>2. /\ ScreenShape' /\ screen'.plan = screen.plan
        /\ screen'.cards = screen.cards \/ screen'.cards = Cards(p)
    BY <1>1, <2>1 DEF ScreenShape
  <2> QED
    BY <1>1, <1>2, <2>2, CardsAre DEF PlanShown, CardsExist
<1>6. ASSUME NEW p \in Plans, OpenPlan(p) PROVE (ScreenShape /\ PlanShown /\ CardsExist)'
  <2>1. screen' = [screen EXCEPT !.plan = p, !.list = {}]
    BY <1>6 DEF OpenPlan
  <2>2. ScreenShape' /\ screen'.plan = p /\ screen'.cards = screen.cards
    BY <1>1, <2>1 DEF ScreenShape
  <2> QED
    BY <1>1, <1>2, <2>2 DEF PlanShown, CardsExist, PlanOrNone
<1>7. CASE OpenLoaded
  <2>1. screen' = [plan |-> screen.plan, revision |-> revision[screen.plan],
                   teachings |-> TeachingsOf(screen.plan), list |-> LiveOf(screen.plan),
                   cards |-> Cards(screen.plan)]
    BY <1>7 DEF OpenLoaded
  <2>2. ScreenShape' /\ screen'.plan = screen.plan /\ screen'.cards = Cards(screen.plan)
    BY <2>1 DEF ScreenShape
  <2> QED
    BY <1>1, <1>2, <2>2, CardsAre DEF PlanShown, CardsExist
<1>8. CASE Crash
  BY <1>8 DEF Crash, EmptyScreen, ScreenShape, PlanShown, CardsExist, PlanOrNone
<1>9. \/ UNCHANGED screen \/ OpenLoaded \/ Crash \/ \E p \in Plans : OpenPlan(p)
      \/ \E h \in Handlers : Answered(h) \/ Load(h)
  BY DEF Next, User, vars, RecordTeaching, SaveObservation, PrepareDelete, Confirm, Analyze,
     DecideCorrection, DeleteObservation, ModelAnswers, Stale, Attribute, EndWithout, AnalysisThrows
<1> QED
  BY <1>3, <1>4, <1>5, <1>6, <1>7, <1>8, <1>9

(* A handler's requests are its own; that of the analysis begins with it.    *)
LEMMA RequestStep ==
  ASSUME Inv, [Next]_vars
  PROVE  RequestShape' /\ WaitsForAnalysis'
<1>1. RequestShape /\ WaitsForAnalysis
  BY DEF Inv, PageFits, RequestShape, WaitsForAnalysis
<1>2. \A a \in Analyses : analysis[a] # None => analysis'[a] # None
  BY StepTables DEF Grows
<1>3. ASSUME NEW h \in Handlers, NEW r, request' = [request EXCEPT ![h] = r],
             h # "analyze" \/ r = None \/ r.step # "waiting"
                \/ (r.analysis \in Analyses /\ analysis'[r.analysis] # None)
      PROVE  RequestShape' /\ WaitsForAnalysis'
  <2>1. RequestShape' /\ (h # "analyze" => request'["analyze"] = request["analyze"])
                      /\ (h = "analyze" => request'["analyze"] = r)
    BY <1>1, <1>3 DEF RequestShape, Handlers
  <2> QED
    BY <1>1, <1>2, <1>3, <2>1 DEF WaitsForAnalysis
<1>4. \A h, p, number : h \in Handlers /\ Answer(h, p, number) => RequestShape' /\ WaitsForAnalysis'
  BY <1>3 DEF Answer
<1>5. \A h, p : h \in Handlers /\ (Refused(h) \/ Conflict(h, p) \/ Commit(h, p)) =>
         RequestShape' /\ WaitsForAnalysis'
  BY <1>3, <1>4 DEF Refused, Conflict, Commit
<1>6. CASE UNCHANGED request
  BY <1>1, <1>2, <1>6 DEF RequestShape, WaitsForAnalysis
<1>7. "record" \in Handlers /\ "observe" \in Handlers /\ "analyze" \in Handlers
      /\ "correct" \in Handlers
  BY DEF Handlers
<1>8. ASSUME NEW t \in Teachings, RecordTeaching(t) PROVE RequestShape' /\ WaitsForAnalysis'
  BY <1>5, <1>7, <1>8 DEF RecordTeaching, Committing
<1>9. ASSUME NEW o \in Observations, NEW t \in Teachings, NEW q \in Qualities,
             SaveObservation(o, t, q)
      PROVE  RequestShape' /\ WaitsForAnalysis'
  BY <1>5, <1>7, <1>9 DEF SaveObservation, ObservationsAdd, Unacceptable, Committing
<1>10. ASSUME NEW o \in Observations, PrepareDelete(o) PROVE RequestShape' /\ WaitsForAnalysis'
  BY <1>3, <1>6, <1>7, <1>10 DEF PrepareDelete
<1>11. ASSUME NEW step, Confirm(step) PROVE RequestShape' /\ WaitsForAnalysis'
  <2> DEFINE r == IF step = "declined" THEN None ELSE [request["observe"] EXCEPT !.step = step]
  <2>1. request' = [request EXCEPT !["observe"] = r]
    BY <1>1, <1>7, <1>11 DEF Confirm, RequestShape
  <2> HIDE DEF r
  <2> QED
    BY <1>3, <1>7, <2>1
<1>12. CASE DeleteObservation
  BY <1>5, <1>7, <1>12 DEF DeleteObservation
<1>13. ASSUME NEW a \in Analyses, Analyze(a) PROVE RequestShape' /\ WaitsForAnalysis'
  <2> DEFINE p == Shown.plan
             basis == Shown.observations
  <2>1. \/ Refused("analyze") \/ Conflict("analyze", p)
        \/ analysis[a] = None /\ basis \subseteq LiveOf(p) /\ BeginAnalysis(a, p, basis)
    BY <1>13 DEF Analyze, AnalyzeInternal
  <2>2. p \in Plans
    BY <1>13, ScreenPlan DEF Analyze, Idle, Shown
  <2> HIDE DEF p, basis
  <2>3. CASE basis \subseteq LiveOf(p) /\ BeginAnalysis(a, p, basis)
    <3> DEFINE ready == ReadyForAttribution(basis)
               r == [plan |-> p, basis |-> basis, begun |-> revision[p] + 1,
                     run |-> IF ready THEN "running" ELSE "none",
                     key |-> IF ready THEN "running" ELSE "succeeded"]
    <3>1. analysis' = [analysis EXCEPT ![a] = r]
      BY <2>3 DEF BeginAnalysis
    <3>2. r \in AnalysisRecords
      BY <2>2, <2>3 DEF AnalysisRecords, Inv, TypeOK, LiveOf, Live
    <3> HIDE DEF r
    <3>3. analysis'[a] # None
      BY <3>1, <3>2, NoneAssumption DEF Inv, TypeOK
    <3>4. \/ request' = [request EXCEPT !["analyze"] =
                           [step |-> "waiting", plan |-> p, analysis |-> a]]
          \/ Answer("analyze", p, revision[p] + 1)
      BY <2>3 DEF BeginAnalysis
    <3> QED
      BY <1>3, <1>4, <1>7, <3>3, <3>4
  <2> QED
    BY <1>5, <1>7, <2>1, <2>3
<1>14. ASSUME NEW a \in Analyses, ModelAnswers(a) PROVE RequestShape' /\ WaitsForAnalysis'
  BY <1>4, <1>5, <1>7, <1>14
     DEF ModelAnswers, Stale, Attribute, EndWithout, AnalysisThrows
<1>15. ASSUME NEW card \in screen.cards, NEW action, NEW effect,
              DecideCorrection(card, action, effect)
       PROVE  RequestShape' /\ WaitsForAnalysis'
  BY <1>5, <1>7, <1>15 DEF DecideCorrection, CommitCorrection
<1>16. ASSUME NEW h \in Handlers, Answered(h) \/ Load(h) PROVE RequestShape' /\ WaitsForAnalysis'
  BY <1>3, <1>16 DEF Answered, Load
<1>17. CASE Crash
  BY <1>7, <1>17 DEF Crash, RequestShape, WaitsForAnalysis
<1>18. CASE UNCHANGED vars \/ OpenLoaded \/ \E p \in Plans : OpenPlan(p)
  BY <1>6, <1>18 DEF vars, OpenLoaded, OpenPlan
<1> QED
  BY <1>8, <1>9, <1>10, <1>11, <1>12, <1>13, <1>14, <1>15, <1>16, <1>17, <1>18 DEF Next, User

LEMMA CrashesStep == ASSUME Inv, [Next]_vars PROVE crashes' \in 0..MaxCrashes
<1>1. crashes \in 0..MaxCrashes /\ MaxCrashes \in Nat
  BY BoundAssumption DEF Inv, TypeOK
<1>2. CASE Crash
  BY <1>1, <1>2 DEF Crash
<1>3. Crash \/ crashes' = crashes
  BY DEF Next, User, vars, RecordTeaching, SaveObservation, PrepareDelete, Confirm, Analyze,
     DecideCorrection, DeleteObservation, ModelAnswers, Stale, Attribute, EndWithout,
     AnalysisThrows, OpenLoaded, OpenPlan, Answered, Load
<1> QED
  BY <1>1, <1>2, <1>3

LEMMA StepInv == Inv /\ [Next]_vars => Inv'
<1> SUFFICES ASSUME Inv, [Next]_vars PROVE Inv'
  OBVIOUS
<1> QED
  BY StepTables, ScreenStep, RequestStep, CrashesStep
     DEF Inv, Tables, TablesTyped, TypeOK, PageFits, ScreenShape, PlanShown, CardsExist,
         RequestShape, WaitsForAnalysis

(* Everything recorded belongs to one plan, and the history of a plan can be *)
(* read again whatever was deleted since (applyEffectEvidence).             *)
THEOREM HistoryStaysReadable == Spec => []FeedbackConsistent
<1>1. Inv => FeedbackConsistent
  BY DEF Inv, FeedbackConsistent
<1> QED
  BY <1>1, InitInv, StepInv, PTL DEF Spec

-----------------------------------------------------------------------------
(* The revision of a stream tells its contents.                             *)
LEMMA SameContent ==
  ASSUME NEW q, TeachingsOf(q)' = TeachingsOf(q), LiveOf(q)' = LiveOf(q),
         \A a \in Analyses :
           /\ (proposal'[a] # None /\ proposal'[a].plan = q) <=>
                 (proposal[a] # None /\ proposal[a].plan = q)
           /\ proposal[a] # None /\ proposal[a].plan = q =>
                 proposal'[a] = proposal[a] /\ evidence'[a] = evidence[a]
  PROVE  ContentOf(q)' = ContentOf(q)
<1> DEFINE own == {a \in Analyses : proposal[a] # None /\ proposal[a].plan = q}
<1>1. {a \in Analyses : proposal'[a] # None /\ proposal'[a].plan = q} = own
  OBVIOUS
<1>2. \A a \in own : proposal'[a] = proposal[a] /\ evidence'[a] = evidence[a]
  OBVIOUS
<1>3. Cards(q)' = Cards(q)
  <2>1. Cards(q)' = {[analysis |-> a, status |-> proposal'[a].status,
                      decisions |-> proposal'[a].decisions] : a \in own}
    BY <1>1 DEF Cards
  <2>2. Cards(q) = {[analysis |-> a, status |-> proposal[a].status,
                     decisions |-> proposal[a].decisions] : a \in own}
    BY DEF Cards
  <2> HIDE DEF own
  <2> QED
    BY <1>2, <2>1, <2>2
<1>4. {<<a, evidence'[a]>> : a \in own} = {<<a, evidence[a]>> : a \in own}
  <2> HIDE DEF own
  <2> QED
    BY <1>2
<1> QED
  BY <1>1, <1>3, <1>4 DEF ContentOf

LEMMA OthersKept ==
  ASSUME Inv, NEW p \in Plans, Written(p), NEW q \in Plans, q # p
  PROVE  ContentOf(q)' = ContentOf(q)
<1>1. Tables
  BY InvTables
<1>2. CASE TeachingWritten(p)
  <2>1. PICK t \in Teachings : /\ teaching[t] = None /\ teaching' = [teaching EXCEPT ![t] = p]
                              /\ UNCHANGED <<observation, tombstones, proposal, evidence>>
    BY <1>2 DEF TeachingWritten, StoreTeaching
  <2>2. TeachingsOf(q)' = TeachingsOf(q)
    BY <1>1, <2>1, NoneAssumption DEF TeachingsOf, Tables, TablesTyped
  <2>3. LiveOf(q)' = LiveOf(q)
    BY <2>1 DEF LiveOf, Live
  <2> QED
    BY <2>1, <2>2, <2>3, SameContent
<1>3. CASE ObservationWritten(p)
  <2>1. PICK o \in Observations, t \in Teachings, x \in Qualities :
           /\ observation[o] = None
           /\ StoreObservation(o, [plan |-> p, teaching |-> t, quality |-> x])
    BY <1>3 DEF ObservationWritten
  <2> DEFINE r == [plan |-> p, teaching |-> t, quality |-> x]
  <2>2. /\ observation' = [observation EXCEPT ![o] = r] /\ r.plan = p
        /\ UNCHANGED <<teaching, tombstones, proposal, evidence>>
    BY <2>1 DEF StoreObservation
  <2> HIDE DEF r
  <2>3. LiveOf(q)' = LiveOf(q)
    BY <1>1, <2>1, <2>2 DEF LiveOf, Live, Tables, TablesTyped
  <2>4. TeachingsOf(q)' = TeachingsOf(q)
    BY <2>2 DEF TeachingsOf
  <2> QED
    BY <2>2, <2>3, <2>4, SameContent
<1>4. CASE ObservationDeleted(p)
  <2>1. PICK o \in LiveOf(p) : StoreDeletion(o)
    BY <1>4 DEF ObservationDeleted
  <2>2. /\ tombstones' = tombstones \cup {o} /\ observation[o].plan = p
        /\ UNCHANGED <<observation, teaching, proposal, evidence>>
    BY <2>1 DEF StoreDeletion, LiveOf
  <2>3. LiveOf(q)' = LiveOf(q) /\ TeachingsOf(q)' = TeachingsOf(q)
    BY <2>2 DEF LiveOf, Live, TeachingsOf
  <2> QED
    BY <2>2, <2>3, SameContent
<1>5. CASE AnalysisBegun(p)
  BY <1>5, SameContent DEF AnalysisBegun, LiveOf, Live, TeachingsOf
<1>6. CASE AnalysisProposed(p)
  <2>1. PICK a \in Analyses :
           /\ analysis[a] # None /\ p = analysis[a].plan
           /\ \E basis : proposal' = [proposal EXCEPT ![a] = ProposalOn(p, basis)]
    BY <1>6 DEF AnalysisProposed
  <2>2. PICK basis : proposal' = [proposal EXCEPT ![a] = ProposalOn(p, basis)]
    BY <2>1
  <2>3. ProposalOn(p, basis).plan = p
    BY DEF ProposalOn
  <2>4. proposal[a] # None => proposal[a].plan = p
    BY <1>1, <2>1 DEF Tables, BindsOnePlan
  <2>5. UNCHANGED <<teaching, observation, tombstones, evidence>>
    BY <1>6 DEF AnalysisProposed
  <2>6. /\ proposal'[a].plan = p /\ \A b \in Analyses \ {a} : proposal'[b] = proposal[b]
    BY <1>1, <2>2, <2>3 DEF Tables, TablesTyped
  <2>7. LiveOf(q)' = LiveOf(q) /\ TeachingsOf(q)' = TeachingsOf(q)
    BY <2>5 DEF LiveOf, Live, TeachingsOf
  <2> QED
    BY <2>4, <2>5, <2>6, <2>7, SameContent
<1>7. CASE DecisionWritten(p)
  <2>1. PICK a, status, effect :
           a \in Analyses /\ proposal[a] # None /\ Grounds(a, p) /\ StoreDecision(a, status, effect)
    BY <1>7 DEF DecisionWritten
  <2>2. /\ UNCHANGED <<teaching, observation, tombstones>> /\ proposal[a].plan = p
        /\ evidence' = IF effect = None THEN evidence ELSE [evidence EXCEPT ![a] = effect]
        /\ proposal' = [proposal EXCEPT ![a].status = status, ![a].decisions = @ + 1]
    BY <2>1 DEF StoreDecision, Grounds
  <2>3. proposal[a] \in ProposalRecords
    BY <1>1, <2>1 DEF Tables, TablesTyped, Optional
  <2>4. /\ proposal'[a].plan = p
        /\ \A b \in Analyses \ {a} : proposal'[b] = proposal[b] /\ evidence'[b] = evidence[b]
    BY <1>1, <2>2, <2>3 DEF Tables, TablesTyped, Recorded, ProposalRecords
  <2>5. LiveOf(q)' = LiveOf(q) /\ TeachingsOf(q)' = TeachingsOf(q)
    BY <2>2 DEF LiveOf, Live, TeachingsOf
  <2> QED
    BY <2>2, <2>4, <2>5, SameContent
<1> QED
  BY <1>2, <1>3, <1>4, <1>5, <1>6, <1>7 DEF Written

LEMMA StreamStep ==
  ASSUME Inv, [Next]_vars, NEW q \in Plans
  PROVE  /\ ContentOf(q)' # ContentOf(q) => revision'[q] = revision[q] + 1
         /\ revision'[q] \in {revision[q], revision[q] + 1}
<1>1. CASE Resting \/ AnalysisEnded
  BY <1>1 DEF Resting, AnalysisEnded, stream, ContentOf, TeachingsOf, LiveOf, Live, Cards
<1>2. ASSUME NEW p \in Plans, Written(p)
      PROVE  /\ ContentOf(q)' # ContentOf(q) => revision'[q] = revision[q] + 1
             /\ revision'[q] \in {revision[q], revision[q] + 1}
  <2>1. Advances(p)
    BY <1>2 DEF Written, TeachingWritten, ObservationWritten, ObservationDeleted,
       AnalysisBegun, AnalysisProposed, DecisionWritten
  <2>2. revision'[p] = revision[p] + 1 /\ \A r \in Plans \ {p} : revision'[r] = revision[r]
    BY <2>1, InvTables, Advanced
  <2> QED
    BY <1>2, <2>2, OthersKept
<1> QED
  BY <1>1, <1>2, StepKind

(* Whoever saw the revision of a stream saw what is in it: no write leaves   *)
(* the revision as it was, not even that of an analysis that ends hours      *)
(* later (the feedback_stream of sqliteStore.ts).                           *)
THEOREM RevisionTellsContents == Spec => WritesAdvanceTheStream
<1>1. Inv /\ [Next]_vars =>
        [\A p \in Plans :
           /\ ContentOf(p)' # ContentOf(p) => revision'[p] = revision[p] + 1
           /\ revision'[p] \in {revision[p], revision[p] + 1}]_vars
  BY StreamStep
<1> QED
  BY <1>1, InitInv, StepInv, PTL DEF Spec, WritesAdvanceTheStream

-----------------------------------------------------------------------------
(* What proposals rest on.                                                  *)
LEMMA ProposalStep ==
  ASSUME Inv, [Next]_vars, NEW a \in Analyses, proposal'[a] # proposal[a]
  PROVE  /\ proposal'[a].basis \subseteq Live
         /\ proposal[a] = None => revision[proposal'[a].plan] = analysis[a].begun
<1>1. Tables
  BY InvTables
<1>2. PICK p \in Plans : AnalysisProposed(p) \/ DecisionWritten(p)
  BY StepKind DEF Resting, AnalysisEnded, stream, Written, TeachingWritten, StoreTeaching,
     ObservationWritten, StoreObservation, ObservationDeleted, StoreDeletion, AnalysisBegun
<1>3. CASE AnalysisProposed(p)
  <2>1. PICK b \in Analyses :
           /\ analysis[b] # None /\ p = analysis[b].plan /\ UnchangedSince(b)
           /\ \E basis \in SUBSET analysis[b].basis :
                proposal' = [proposal EXCEPT ![b] = ProposalOn(p, basis)]
    BY <1>3 DEF AnalysisProposed
  <2>2. PICK basis \in SUBSET analysis[b].basis :
           proposal' = [proposal EXCEPT ![b] = ProposalOn(p, basis)]
    BY <2>1
  <2>3. b = a /\ proposal'[a] = ProposalOn(p, basis)
    BY <1>1, <2>2 DEF Tables, TablesTyped
  <2>4. proposal'[a].plan = p /\ proposal'[a].basis = basis
    BY <2>3 DEF ProposalOn
  <2>5. analysis[a].basis \subseteq Live
    BY <1>1, <2>1, <2>3 DEF Tables, BasisLives, UnchangedSince
  <2> QED
    BY <2>1, <2>2, <2>3, <2>4, <2>5 DEF UnchangedSince
<1>4. CASE DecisionWritten(p)
  <2>1. PICK b, status, effect :
           b \in Analyses /\ proposal[b] # None /\ Grounds(b, p) /\ StoreDecision(b, status, effect)
    BY <1>4 DEF DecisionWritten
  <2>2. /\ proposal[b].basis \subseteq Live
        /\ proposal' = [proposal EXCEPT ![b].status = status, ![b].decisions = @ + 1]
    BY <2>1 DEF StoreDecision, Grounds, LiveOf
  <2>3. proposal[b] \in ProposalRecords
    BY <1>1, <2>1 DEF Tables, TablesTyped, Optional
  <2>4. b = a /\ proposal'[a].basis = proposal[a].basis
    BY <1>1, <2>2, <2>3 DEF Tables, TablesTyped, ProposalRecords
  <2> QED
    BY <2>1, <2>2, <2>4
<1> QED
  BY <1>2, <1>3, <1>4

LEMMA KnowledgeStep ==
  ASSUME Inv, [Next]_vars, NEW p \in Plans, KnowledgeState(p) # "unknown"
  PROVE  KnowledgeState(p)' # "unknown"
<1>1. Tables /\ Tables'
  BY InvTables, StepTables
<1>2. PICK o \in Observations : observation[o] # None /\ observation[o].plan = p
  <2>1. CASE LiveOf(p) # {}
    BY <2>1 DEF LiveOf, Live
  <2>2. CASE \E o \in tombstones : observation[o].plan = p
    BY <1>1, <2>2 DEF Tables, TablesTyped, Recorded
  <2> QED
    BY <2>1, <2>2 DEF KnowledgeState
<1>3. observation'[o] = observation[o]
  <2>1. CASE UNCHANGED observation
    BY <2>1
  <2>2. ASSUME NEW q \in Plans, ObservationWritten(q) PROVE observation'[o] = observation[o]
    BY <1>1, <1>2, <2>2 DEF ObservationWritten, StoreObservation, Tables, TablesTyped
  <2> QED
    BY <2>1, <2>2, StepKind DEF Resting, AnalysisEnded, stream, Written, TeachingWritten,
       StoreTeaching, ObservationDeleted, StoreDeletion, AnalysisBegun, AnalysisProposed,
       DecisionWritten, StoreDecision
<1>4. o \in LiveOf(p)' \/ o \in tombstones'
  BY <1>2, <1>3 DEF LiveOf, Live
<1> QED
  BY <1>2, <1>3, <1>4 DEF KnowledgeState

(* A proposal appears, and is decided on, only while what it rests on is      *)
(* there, and the deletion of an observation is not forgotten                *)
(* (finishFeedbackAnalysis, commitCorrectionDecision, feedbackKnowledgeState).*)
THEOREM ProposalsKeepTheirGrounds == Spec => EvidenceIsKept
<1>1. Inv /\ [Next]_vars =>
        [\A a \in Analyses : proposal'[a] # proposal[a] =>
           /\ proposal'[a].basis \subseteq Live
           /\ proposal[a] = None => revision[proposal'[a].plan] = analysis[a].begun]_vars
  BY ProposalStep
<1>2. Inv /\ [Next]_vars =>
        [\A p \in Plans : KnowledgeState(p) # "unknown" => KnowledgeState(p)' # "unknown"]_vars
  BY KnowledgeStep
<1> QED
  BY <1>1, <1>2, InitInv, StepInv, PTL
     DEF Spec, EvidenceIsKept, ProposalsRestOnEvidence, DeletionIsNotForgotten

-----------------------------------------------------------------------------
(* DraftClosing.                                                            *)

(* The fields of the controller. *)
RunFits ==
    /\ at # "start" => runs # <<>> /\ sent # Nothing /\ page.dirty /\ ~page.conflict
    /\ page.conflict => page.blocked /\ page.dirty /\ page.remote # Nothing
    /\ page.key # Nothing => page.dirty

(* The messages under way, and what the run waits for. *)
OneWaits ==
    /\ (at = "start") = (Underway(toMain) = {} /\ Underway(toPage) = {})
    /\ Underway(toMain) = {} \/ Underway(toPage) = {}
    /\ \A q \in {toMain, toPage} : \A i, j \in Underway(q) : i = j

ToMainFits(m) ==
    /\ m.op = "save" => at = "save" /\ m = sent
    /\ m.op = "reload" => at = "reload"
    /\ m.op = "done" => (m.saved => m.kept)

ToPageFits(m) ==
    /\ m.op = "saved" => at = "save" /\ last = sent.content
    /\ m.op \in {"conflict", "error"} => at = "save"
    /\ m.op = "reloaded" => at = "reload"

MessagesFit ==
    /\ \A i \in DOMAIN toMain : ToMainFits(toMain[i])
    /\ \A i \in DOMAIN toPage : ToPageFits(toPage[i])

(* What is not dirty, or was applied under a key that is still used, is the   *)
(* text of the row.                                                         *)
Applied(k) == k # Nothing /\ ledger[k] # Nothing /\ ledger[k].status = "applied"

LastIsKept ==
    /\ closed # "dropped"
    /\ ~page.dirty => page.content = last
    /\ Applied(page.key) => last = ledger[page.key].of[1]
    /\ at = "save" => /\ sent.key \in Keys
                      /\ Applied(sent.key) => last = ledger[sent.key].of[1]
                      /\ \/ page.key = sent.key
                         \/ page.key # Nothing /\ ledger[page.key] = Nothing

(* A revision that the page has or is told of is not of another client's text *)
(* that it was never given.                                                 *)
Known(x) ==
    /\ x <= store.revision
    /\ x = store.revision /\ x > 0 /\ store.by = "other" => x \in seen

RevisionsKnown ==
    /\ Known(page.revision)
    /\ \A i \in DOMAIN toMain : toMain[i].op = "save" => Known(toMain[i].expected)
    /\ \A i \in DOMAIN toPage :
         /\ toPage[i].op = "saved" => Known(toPage[i].revision)
         /\ toPage[i].op \in {"loaded", "reloaded"} => toPage[i].revision <= store.revision
    /\ \A k \in Keys : Applied(k) => Known(ledger[k].revision)

(* While no other client saved and no answer was lost, the page has the       *)
(* revision of the row or is about to be told of it.                         *)
Told(i) == i \in DOMAIN toPage /\ toPage[i].op = "saved"

Undisturbed ==
    used["others"] = 0 /\ ~lost =>
      /\ at # "reload" /\ ~page.conflict
      /\ \A k \in Keys : ledger[k] # Nothing => ledger[k].status = "applied"
      /\ page.revision = store.revision \/ \E j \in DOMAIN toPage : Told(j)
      /\ page.key # Nothing => ledger[page.key] = Nothing \/ \E j \in DOMAIN toPage : Told(j)
      /\ \A i \in DOMAIN toMain : toMain[i].op = "save" =>
           toMain[i].expected = store.revision /\ ledger[toMain[i].key] = Nothing
      /\ \A i \in DOMAIN toPage :
           /\ toPage[i].op # "conflict"
           /\ toPage[i].op \in {"loaded", "saved"} =>
                toPage[i].revision = store.revision \/ \E j \in DOMAIN toPage : j > i /\ Told(j)

DraftInv ==
    /\ DraftTypeOK /\ RunFits /\ OneWaits /\ MessagesFit
    /\ LastIsKept /\ RevisionsKnown /\ Undisturbed

-----------------------------------------------------------------------------
(* Sequences.                                                               *)

LEMMA AppendIs ==
  ASSUME NEW S, NEW q \in Seq(S), NEW m \in S, NEW r, r = Append(q, m)
  PROVE  /\ r \in Seq(S) /\ Len(r) = Len(q) + 1 /\ DOMAIN r = 1..(Len(q) + 1)
         /\ DOMAIN q = 1..Len(q) /\ r # <<>>
         /\ \A i \in 1..Len(q) : r[i] = q[i]
         /\ r[Len(q) + 1] = m
OBVIOUS

LEMMA TailIs ==
  ASSUME NEW S, NEW q \in Seq(S), q # <<>>, NEW r, r = Tail(q)
  PROVE  /\ r \in Seq(S) /\ Len(r) = Len(q) - 1 /\ DOMAIN r = 1..(Len(q) - 1)
         /\ DOMAIN q = 1..Len(q) /\ Len(q) >= 1 /\ Len(q) \in Nat
         /\ \A i \in 1..(Len(q) - 1) : r[i] = q[i + 1]
         /\ Head(q) = q[1] /\ q[1] \in S
OBVIOUS

Single(q) == \A i, j \in Underway(q) : i = j

LEMMA UnderwayAppend ==
  ASSUME NEW S, NEW q \in Seq(S), NEW m \in S, NEW r, r = Append(q, m)
  PROVE  /\ ~Waits(m) => Underway(r) = Underway(q)
         /\ Waits(m) /\ Underway(q) = {} => Underway(r) = {Len(q) + 1}
<1>1. /\ DOMAIN r = 1..(Len(q) + 1) /\ DOMAIN q = 1..Len(q) /\ Len(q) \in Nat
      /\ \A i \in 1..Len(q) : r[i] = q[i]
      /\ r[Len(q) + 1] = m
  BY AppendIs
<1>2. \A i \in DOMAIN r : i \in DOMAIN q \/ i = Len(q) + 1
  BY <1>1
<1>3. DOMAIN q \subseteq DOMAIN r /\ Len(q) + 1 \in DOMAIN r
  BY <1>1
<1> QED
  BY <1>1, <1>2, <1>3 DEF Underway

LEMMA UnderwayTail ==
  ASSUME NEW S, NEW q \in Seq(S), q # <<>>, NEW r, r = Tail(q)
  PROVE  /\ Underway(q) = {} => Underway(r) = {}
         /\ Single(q) => Single(r)
         /\ Single(q) /\ Waits(Head(q)) => Underway(r) = {}
         /\ ~Waits(Head(q)) /\ Underway(q) # {} => Underway(r) # {}
         /\ Waits(Head(q)) => Underway(q) # {}
<1>1. /\ DOMAIN r = 1..(Len(q) - 1) /\ DOMAIN q = 1..Len(q) /\ Len(q) >= 1 /\ Len(q) \in Nat
      /\ \A i \in 1..(Len(q) - 1) : r[i] = q[i + 1]
      /\ Head(q) = q[1]
  BY TailIs
<1>2. \A i \in Underway(r) : i \in Nat /\ i > 0 /\ i + 1 \in Underway(q)
  BY <1>1 DEF Underway
<1>3. 1 \in DOMAIN q
  BY <1>1
<1>4. Waits(Head(q)) => 1 \in Underway(q)
  BY <1>1, <1>3 DEF Underway
<1>5. ASSUME ~Waits(Head(q)), NEW i \in Underway(q) PROVE i - 1 \in Underway(r)
  <2>1. i \in DOMAIN q /\ Waits(q[i]) /\ i # 1
    BY <1>1, <1>5 DEF Underway
  <2>2. i - 1 \in DOMAIN r /\ r[i - 1] = q[i]
    BY <1>1, <2>1
  <2> QED
    BY <2>1, <2>2 DEF Underway
<1>6. Single(q) => Single(r)
  <2> SUFFICES ASSUME Single(q), NEW i \in Underway(r), NEW j \in Underway(r) PROVE i = j
    BY DEF Single
  <2>1. i + 1 = j + 1 /\ i \in Nat /\ j \in Nat
    BY <1>2 DEF Single
  <2> QED
    BY <2>1
<1>7. Single(q) /\ Waits(Head(q)) => Underway(r) = {}
  <2> SUFFICES ASSUME Single(q), Waits(Head(q)), NEW i \in Underway(r) PROVE FALSE
    OBVIOUS
  <2>1. i + 1 = 1 /\ i \in Nat /\ i > 0
    BY <1>2, <1>4 DEF Single
  <2> QED
    BY <2>1
<1> QED
  BY <1>2, <1>4, <1>5, <1>6, <1>7

LEMMA NothingIs ==
  /\ Nothing \notin Texts /\ Nothing \notin Nat /\ Nothing \notin LedgerRecords
  /\ Nothing \notin SaveRequests /\ Empty \in Texts
BY DraftAssumption

LEMMA MainMessage ==
  ASSUME NEW m \in MainMessages
  PROVE  /\ m.op \in {"load", "reload", "save", "done"}
         /\ m.op = "save" => m \in SaveRequests /\ m.content \in Texts
                             /\ m.expected \in Nat /\ m.key \in Nat
         /\ m.op = "done" => m.id \in Nat /\ m.saved \in BOOLEAN /\ m.kept \in BOOLEAN
BY DEF MainMessages, SaveRequests

LEMMA PageMessage ==
  ASSUME NEW m \in PageMessages
  PROVE  /\ m.op \in {"loaded", "reloaded", "saved", "conflict", "error", "flush"}
         /\ m.op \in {"loaded", "reloaded"} => m.content \in Texts /\ m.revision \in Nat
         /\ m.op = "saved" => m.revision \in Nat
         /\ m.op = "flush" => m.id \in Nat
BY DEF PageMessages

(* The types, and what they say of the keys. *)
LEMMA TypesAre ==
  ASSUME DraftTypeOK
  PROVE  /\ page.content \in Texts /\ page.revision \in Nat /\ page.dirty \in BOOLEAN
         /\ page.conflict \in BOOLEAN /\ page.blocked \in BOOLEAN
         /\ page.remote \in Texts \cup {Nothing} /\ page.key \in Keys \cup {Nothing}
         /\ Keys = 1..Len(ledger) /\ Len(ledger) \in Nat /\ Nothing \notin Keys
         /\ \A k \in Keys : ledger[k] \in LedgerRecords \cup {Nothing}
         /\ store.content \in Texts /\ store.revision \in Nat /\ store.by \in {"page", "other"}
         /\ used["others"] \in Nat /\ lost \in BOOLEAN
BY NothingIs DEF DraftTypeOK, Keys

KeyTaken == ledger' = Append(ledger, Nothing)

LEMMA KeyIs ==
  ASSUME DraftTypeOK, KeyTaken
  PROVE  /\ ledger' \in Seq(LedgerRecords \cup {Nothing})
         /\ NewKey \notin Keys /\ NewKey # Nothing /\ NewKey \in Nat
         /\ Keys' = Keys \cup {NewKey} /\ ledger'[NewKey] = Nothing
         /\ \A k \in Keys : ledger'[k] = ledger[k]
<1>1. ledger \in Seq(LedgerRecords \cup {Nothing}) /\ Nothing \in LedgerRecords \cup {Nothing}
  BY DEF DraftTypeOK
<1>2. /\ ledger' \in Seq(LedgerRecords \cup {Nothing}) /\ DOMAIN ledger' = 1..(Len(ledger) + 1)
      /\ DOMAIN ledger = 1..Len(ledger) /\ Len(ledger) \in Nat
      /\ \A i \in 1..Len(ledger) : ledger'[i] = ledger[i]
      /\ ledger'[Len(ledger) + 1] = Nothing
  BY <1>1, AppendIs DEF KeyTaken
<1> QED
  BY <1>2, NothingIs DEF NewKey, Keys

-----------------------------------------------------------------------------
(* Steps that send and receive nothing.                                     *)

LEMMA SameMessages ==
  ASSUME DraftInv, UNCHANGED <<toMain, toPage, at, sent>>, last' = last \/ at = "start"
  PROVE  OneWaits' /\ MessagesFit'
<1>1. OneWaits'
  BY DEF DraftInv, OneWaits, Underway, Waits
<1>2. MessagesFit'
  BY DEF DraftInv, MessagesFit, ToMainFits, ToPageFits
<1> QED
  BY <1>1, <1>2

(* What an entry says is not changed by a new key. *)
SameEntries ==
    /\ Keys \subseteq Keys' /\ \A k \in Keys : ledger'[k] = ledger[k]
    /\ \A k \in Keys' : k \in Keys \/ ledger'[k] = Nothing

LEMMA EntriesStay ==
  ASSUME DraftTypeOK, ledger' = ledger \/ KeyTaken
  PROVE  SameEntries /\ ledger' \in Seq(LedgerRecords \cup {Nothing})
BY KeyIs DEF SameEntries, DraftTypeOK, Keys

LEMMA SameRevisions ==
  ASSUME DraftInv, SameEntries, UNCHANGED <<toMain, toPage, store, seen>>,
         page'.revision = page.revision
  PROVE  RevisionsKnown'
<1>1. \A k \in Keys' : Applied(k)' => k \in Keys /\ Applied(k) /\ ledger'[k] = ledger[k]
  BY DEF SameEntries, Applied
<1> QED
  BY <1>1 DEF DraftInv, RevisionsKnown, Known

LEMMA StillUndisturbed ==
  ASSUME DraftInv, SameEntries, UNCHANGED <<toMain, toPage, store, at, lost>>,
         used'["others"] = used["others"], page'.revision = page.revision,
         page'.conflict => page.conflict,
         page'.key = page.key \/ page'.key = Nothing \/ ledger'[page'.key] = Nothing
  PROVE  Undisturbed'
<1> SUFFICES ASSUME used["others"] = 0, ~lost PROVE Undisturbed'
  BY DEF Undisturbed
<1>1. /\ at # "reload" /\ ~page.conflict
      /\ page'.key # Nothing => ledger'[page'.key] = Nothing \/ \E j \in DOMAIN toPage : Told(j)
  BY TypesAre DEF DraftInv, Undisturbed, SameEntries
<1>2. \A k \in Keys' : ledger'[k] # Nothing => ledger'[k].status = "applied"
  BY DEF DraftInv, Undisturbed, SameEntries
<1>3. \A i \in DOMAIN toMain : toMain[i].op = "save" =>
        toMain[i].expected = store.revision /\ ledger'[toMain[i].key] = Nothing
  BY DEF DraftInv, Undisturbed, SameEntries, LastIsKept, MessagesFit, ToMainFits
<1> QED
  BY <1>1, <1>2, <1>3 DEF DraftInv, Undisturbed, Told

LEMMA SetContentInv ==
  ASSUME DraftInv, NEW text \in Texts, SetContent(text)
  PROVE  DraftInv'
<1>1. /\ page' = [page EXCEPT !.content = text, !.dirty = TRUE,
                              !.key = IF page.conflict THEN @ ELSE NewKey]
      /\ IF page.conflict THEN UNCHANGED ledger ELSE KeyTaken
      /\ UNCHANGED <<runs, at, sent, toMain, toPage, store, main, closed, last, seen, lost>>
      /\ used' = [used EXCEPT !["typed"] = @ + 1]
  BY DEF SetContent, KeyTaken, TakeKey, Count, channel, process, history
<1>2. DraftTypeOK
  BY DEF DraftInv
<1>3. SameEntries /\ ledger' \in Seq(LedgerRecords \cup {Nothing})
  BY <1>1, <1>2, EntriesStay
<1>4. /\ page'.content = text /\ page'.dirty = TRUE /\ page'.revision = page.revision
      /\ page'.conflict = page.conflict /\ page'.blocked = page.blocked
      /\ page'.remote = page.remote
      /\ page'.key = IF page.conflict THEN page.key ELSE NewKey
  BY <1>1, <1>2 DEF DraftTypeOK
<1>5. ~page.conflict => page'.key \in Keys' /\ page'.key # Nothing /\ ledger'[page'.key] = Nothing
  BY <1>1, <1>2, <1>4, KeyIs
<1>6. page'.key \in Keys' \cup {Nothing}
  BY <1>2, <1>3, <1>4, <1>5, TypesAre DEF SameEntries
<1>7. used' \in [{"typed", "saves", "loads", "closes", "others", "faults"} -> Nat]
      /\ used'["others"] = used["others"]
  BY <1>1, <1>2 DEF DraftTypeOK
<1>8. DraftTypeOK'
  <2>1. page' \in [content : Texts, revision : Nat, dirty : BOOLEAN, conflict : BOOLEAN,
                   blocked : BOOLEAN, remote : Texts \cup {Nothing}, key : (Keys \cup {Nothing})']
    BY <1>1, <1>2, <1>4, <1>6 DEF DraftTypeOK
  <2> QED
    BY <1>1, <1>2, <1>3, <1>7, <2>1 DEF DraftTypeOK
<1>9. RunFits'
  BY <1>1, <1>4, NothingIs DEF DraftInv, RunFits
<1>10. OneWaits' /\ MessagesFit'
  BY <1>1, SameMessages
<1>11. LastIsKept'
  BY <1>1, <1>2, <1>3, <1>4, <1>5, TypesAre
  DEF DraftInv, LastIsKept, RunFits, Applied, SameEntries, DraftTypeOK
<1>12. RevisionsKnown'
  BY <1>1, <1>3, <1>4, SameRevisions
<1>13. Undisturbed'
  BY <1>1, <1>3, <1>4, <1>5, <1>7, StillUndisturbed
<1> QED
  BY <1>8, <1>9, <1>10, <1>11, <1>12, <1>13 DEF DraftInv

(* Steps that leave the draft alone: they add a call, or concern the window.  *)
LEMMA WindowInv ==
  ASSUME DraftInv, UNCHANGED <<page, at, sent, toMain, toPage, store, ledger, last, seen, lost>>,
         runs' = runs \/ runs' = Append(runs, Nothing),
         main' \in [current : Nat \cup {Nothing}, armed : BOOLEAN, dialogs : Nat],
         closed' = closed \/ closed' \in {"asked", "saved"},
         used' \in [{"typed", "saves", "loads", "closes", "others", "faults"} -> Nat],
         used'["others"] = used["others"]
  PROVE  DraftInv'
<1>1. DraftTypeOK /\ RunFits
  BY DEF DraftInv
<1>2. runs' \in Seq(Nat \cup {Nothing}) /\ (runs # <<>> => runs' # <<>>)
  <2>1. runs \in Seq(Nat \cup {Nothing}) /\ Nothing \in Nat \cup {Nothing}
    BY <1>1 DEF DraftTypeOK
  <2>2. CASE runs' = runs
    BY <2>1, <2>2
  <2>3. CASE runs' = Append(runs, Nothing)
    BY <2>1, <2>3, AppendIs
  <2> QED
    BY <2>2, <2>3
<1>3. DraftTypeOK'
  <2>1. Keys' = Keys
    BY DEF Keys
  <2>2. closed' \in {"no", "asked", "saved", "dropped"}
    BY <1>1 DEF DraftTypeOK
  <2> QED
    BY <1>1, <1>2, <2>1, <2>2 DEF DraftTypeOK
<1>4. RunFits'
  BY <1>1, <1>2 DEF RunFits
<1>5. SameEntries
  BY <1>1, EntriesStay
<1>6. OneWaits' /\ MessagesFit' /\ RevisionsKnown' /\ Undisturbed'
  BY <1>5, SameMessages, SameRevisions, StillUndisturbed
<1>7. LastIsKept'
  BY DEF DraftInv, LastIsKept, Applied, Keys
<1> QED
  BY <1>3, <1>4, <1>6, <1>7 DEF DraftInv

LEMMA CountIs ==
  ASSUME DraftTypeOK, NEW what \in {"typed", "saves", "loads", "closes", "faults"}, NEW bound,
         Count(what, bound)
  PROVE  /\ used' \in [{"typed", "saves", "loads", "closes", "others", "faults"} -> Nat]
         /\ used'["others"] = used["others"]
<1>1. used' = [used EXCEPT ![what] = used[what] + 1]
  BY DEF Count
<1>2. used \in [{"typed", "saves", "loads", "closes", "others", "faults"} -> Nat]
  BY DEF DraftTypeOK
<1>3. what # "others" /\ used[what] + 1 \in Nat
  BY <1>2
<1> QED
  BY <1>1, <1>2, <1>3

LEMMA WindowSteps ==
  ASSUME DraftInv, Save \/ OnTimeout \/ ConfirmForceQuit
  PROVE  DraftInv'
<1>1. DraftTypeOK
  BY DEF DraftInv
<1>2. CASE Save
  BY <1>1, <1>2, CountIs, WindowInv DEF Save, channel, process, history, DraftTypeOK
<1>3. CASE OnTimeout
  <2>1. main' \in [current : Nat \cup {Nothing}, armed : BOOLEAN, dialogs : Nat]
    <3>1. main \in [current : Nat \cup {Nothing}, armed : BOOLEAN, dialogs : Nat]
      BY <1>1 DEF DraftTypeOK
    <3>2. PICK n \in Nat : n = main.dialogs + 1
      BY <3>1
    <3>3. main' = [main EXCEPT !.armed = FALSE, !.dialogs = n]
      BY <1>3, <3>2 DEF OnTimeout
    <3> QED
      BY <3>1, <3>3
  <2> QED
    BY <1>1, <1>3, <2>1, WindowInv DEF OnTimeout, controller, channel, history, DraftTypeOK
<1>4. CASE ConfirmForceQuit
  <2>1. main \in [current : Nat \cup {Nothing}, armed : BOOLEAN, dialogs : Nat] /\ main.dialogs > 0
    BY <1>1, <1>4 DEF ConfirmForceQuit, DraftTypeOK
  <2>2. CASE Finish("asked")
    BY <1>1, <1>4, <2>1, <2>2, WindowInv
    DEF ConfirmForceQuit, Finish, controller, channel, history, DraftTypeOK
  <2>3. CASE main' = [main EXCEPT !.dialogs = @ - 1, !.current = Nothing] /\ UNCHANGED closed
    <3>1. PICK n \in Nat : n = main.dialogs - 1
      BY <2>1
    <3>2. main' = [main EXCEPT !.dialogs = n, !.current = Nothing]
      BY <2>3, <3>1
    <3>3. main' \in [current : Nat \cup {Nothing}, armed : BOOLEAN, dialogs : Nat]
      BY <2>1, <3>2
    <3> QED
      BY <1>1, <1>4, <2>3, <3>3, WindowInv
      DEF ConfirmForceQuit, controller, channel, history, DraftTypeOK
  <2> QED
    BY <1>4, <2>2, <2>3 DEF ConfirmForceQuit
<1> QED
  BY <1>2, <1>3, <1>4

LEMMA ResolveKeepLocalInv ==
  ASSUME DraftInv, ResolveKeepLocal
  PROVE  DraftInv'
<1>1. /\ page.conflict /\ KeyTaken /\ runs' = Append(runs, Nothing)
      /\ page' = [page EXCEPT !.conflict = FALSE, !.blocked = FALSE, !.dirty = TRUE,
                              !.key = NewKey]
      /\ UNCHANGED <<at, sent, toMain, toPage, store, main, closed, last, seen, lost, used>>
  BY DEF ResolveKeepLocal, KeyTaken, TakeKey, channel, process, history
<1>2. DraftTypeOK
  BY DEF DraftInv
<1>3. SameEntries /\ ledger' \in Seq(LedgerRecords \cup {Nothing})
  BY <1>1, <1>2, EntriesStay
<1>4. NewKey # Nothing /\ NewKey \in Keys' /\ ledger'[NewKey] = Nothing
  BY <1>1, <1>2, KeyIs
<1>5. runs' \in Seq(Nat \cup {Nothing}) /\ runs' # <<>>
  <2>1. runs \in Seq(Nat \cup {Nothing}) /\ Nothing \in Nat \cup {Nothing}
    BY <1>2 DEF DraftTypeOK
  <2> QED
    BY <1>1, <2>1, AppendIs
<1>6. /\ page' \in [content : Texts, revision : Nat, dirty : BOOLEAN, conflict : BOOLEAN,
                    blocked : BOOLEAN, remote : Texts \cup {Nothing},
                    key : (Keys \cup {Nothing})']
      /\ page'.dirty /\ ~page'.conflict /\ page'.key = NewKey
      /\ page'.revision = page.revision /\ at = "start"
  BY <1>1, <1>2, <1>4 DEF DraftTypeOK, DraftInv, RunFits
<1>7. DraftTypeOK'
  BY <1>1, <1>2, <1>3, <1>5, <1>6 DEF DraftTypeOK
<1>8. RunFits'
  BY <1>1, <1>6 DEF RunFits
<1>9. OneWaits' /\ MessagesFit' /\ RevisionsKnown' /\ Undisturbed'
  BY <1>1, <1>3, <1>4, <1>6, SameMessages, SameRevisions, StillUndisturbed
<1>10. LastIsKept'
  BY <1>1, <1>4, <1>6 DEF DraftInv, LastIsKept, Applied
<1> QED
  BY <1>7, <1>8, <1>9, <1>10 DEF DraftInv

LEMMA ResolveUseRemoteInv ==
  ASSUME DraftInv, ResolveUseRemote
  PROVE  DraftInv'
<1>1. /\ page.conflict /\ page'.content = last'
      /\ page' = [page EXCEPT !.content = IF page.remote = Nothing THEN @ ELSE page.remote,
                              !.dirty = FALSE, !.blocked = FALSE, !.conflict = FALSE,
                              !.key = Nothing]
      /\ UNCHANGED <<runs, at, sent, toMain, toPage, store, ledger, main, closed, seen, lost, used>>
  BY DEF ResolveUseRemote, channel, process
<1>2. DraftTypeOK
  BY DEF DraftInv
<1>3. SameEntries
  BY <1>1, <1>2, EntriesStay
<1>4. /\ page' \in [content : Texts, revision : Nat, dirty : BOOLEAN, conflict : BOOLEAN,
                    blocked : BOOLEAN, remote : Texts \cup {Nothing},
                    key : (Keys \cup {Nothing})']
      /\ ~page'.dirty /\ ~page'.conflict /\ page'.key = Nothing
      /\ page'.revision = page.revision /\ at = "start"
  BY <1>1, <1>2 DEF DraftTypeOK, DraftInv, RunFits, Keys
<1>5. last' \in Texts
  BY <1>1, <1>4
<1>6. DraftTypeOK'
  BY <1>1, <1>2, <1>4, <1>5 DEF DraftTypeOK
<1>7. RunFits'
  BY <1>1, <1>4 DEF RunFits
<1>8. OneWaits' /\ MessagesFit' /\ RevisionsKnown' /\ Undisturbed'
  BY <1>1, <1>3, <1>4, SameMessages, SameRevisions, StillUndisturbed
<1>9. LastIsKept'
  BY <1>1, <1>4 DEF DraftInv, LastIsKept, Applied
<1> QED
  BY <1>6, <1>7, <1>8, <1>9 DEF DraftInv

LEMMA OtherSavesInv ==
  ASSUME DraftInv, OtherSaves
  PROVE  DraftInv'
<1>1. /\ used' = [used EXCEPT !["others"] = @ + 1]
      /\ UNCHANGED <<page, runs, at, sent, toMain, toPage, ledger, main, closed, last, seen, lost>>
  BY DEF OtherSaves, Count, controller, channel, process, history
<1>2. PICK t \in Texts : store' = [content |-> t, revision |-> store.revision + 1, by |-> "other"]
  BY DEF OtherSaves
<1>3. DraftTypeOK
  BY DEF DraftInv
<1>4. /\ used' \in [{"typed", "saves", "loads", "closes", "others", "faults"} -> Nat]
      /\ used'["others"] # 0
  BY <1>1, <1>3 DEF DraftTypeOK
<1>5. DraftTypeOK'
  BY <1>1, <1>2, <1>3, <1>4 DEF DraftTypeOK, Keys
<1>6. RunFits'
  BY <1>1 DEF DraftInv, RunFits
<1>7. OneWaits' /\ MessagesFit'
  BY <1>1, SameMessages
<1>8. LastIsKept'
  BY <1>1 DEF DraftInv, LastIsKept, Applied, Keys
<1>9. \A x \in Nat : x <= store.revision => Known(x)'
  BY <1>2, <1>3, TypesAre DEF Known
<1>10. RevisionsKnown'
  <2>1. \A i \in DOMAIN toMain : toMain[i].op = "save" => toMain[i].expected \in Nat
    BY <1>3, MainMessage DEF DraftTypeOK
  <2>2. \A i \in DOMAIN toPage : toPage[i].op \in {"saved", "loaded", "reloaded"}
                                   => toPage[i].revision \in Nat
    BY <1>3, PageMessage DEF DraftTypeOK
  <2>3. \A k \in Keys : Applied(k) => ledger[k].revision \in Nat
    BY <1>3, TypesAre DEF Applied, LedgerRecords
  <2>4. \A i \in DOMAIN toPage : toPage[i].op \in {"loaded", "reloaded"}
                                   => toPage[i].revision <= store'.revision
    BY <1>2, <1>3, <2>2, TypesAre DEF DraftInv, RevisionsKnown
  <2> QED
    BY <1>1, <1>3, <1>9, <2>1, <2>2, <2>3, <2>4, TypesAre
    DEF DraftInv, RevisionsKnown, Known, Applied, Keys
<1>11. Undisturbed'
  BY <1>4 DEF Undisturbed
<1> QED
  BY <1>5, <1>6, <1>7, <1>8, <1>10, <1>11 DEF DraftInv

-----------------------------------------------------------------------------
(* What sending and receiving does to the messages under way.               *)

LEMMA ChannelsAre == ASSUME DraftInv PROVE toMain \in Seq(MainMessages) /\ toPage \in Seq(PageMessages)
BY DEF DraftInv, DraftTypeOK

LEMMA SentMain ==
  ASSUME DraftInv, NEW m \in MainMessages, toMain' = Append(toMain, m), toPage' = toPage,
         \/ ~Waits(m) /\ at' = at
         \/ Waits(m) /\ at = "start" /\ at' # "start"
  PROVE  OneWaits'
<1>1. /\ ~Waits(m) => Underway(toMain') = Underway(toMain)
      /\ Waits(m) /\ Underway(toMain) = {} => Underway(toMain') = {Len(toMain) + 1}
  BY ChannelsAre, UnderwayAppend
<1>2. Underway(toPage') = Underway(toPage)
  OBVIOUS
<1>3. OneWaits
  BY DEF DraftInv
<1>4. Underway(toMain)' = Underway(toMain') /\ Underway(toPage)' = Underway(toPage')
  BY DEF Underway, Waits
<1> QED
  BY <1>1, <1>2, <1>3, <1>4 DEF OneWaits

LEMMA SentPage ==
  ASSUME DraftInv, NEW m \in PageMessages, toPage' = Append(toPage, m), toMain' = toMain,
         ~Waits(m), at' = at
  PROVE  OneWaits'
<1>1. Underway(toPage') = Underway(toPage)
  BY ChannelsAre, UnderwayAppend
<1>2. Underway(toMain)' = Underway(toMain') /\ Underway(toPage)' = Underway(toPage')
  BY DEF Underway, Waits
<1> QED
  BY <1>1, <1>2 DEF OneWaits, DraftInv

(* The page takes a message, and may answer. *)
LEMMA TookPage ==
  ASSUME DraftInv, toPage # <<>>, toPage' = Tail(toPage),
         toMain' = toMain \/ \E m \in MainMessages : ~Waits(m) /\ toMain' = Append(toMain, m),
         \/ ~Waits(PageAnswer) /\ at' = at
         \/ Waits(PageAnswer) /\ at' = "start"
  PROVE  OneWaits'
<1>1. Underway(toMain') = Underway(toMain)
  BY ChannelsAre, UnderwayAppend
<1>2. /\ Underway(toPage) = {} => Underway(toPage') = {}
      /\ Single(toPage) => Single(toPage')
      /\ Single(toPage) /\ Waits(PageAnswer) => Underway(toPage') = {}
      /\ ~Waits(PageAnswer) /\ Underway(toPage) # {} => Underway(toPage') # {}
      /\ Waits(PageAnswer) => Underway(toPage) # {}
  BY ChannelsAre, UnderwayTail DEF PageAnswer
<1>3. Single(toPage) /\ Single(toMain) /\ OneWaits
  BY DEF DraftInv, OneWaits, Single
<1>4. Single(toMain')
  BY <1>1, <1>3 DEF Single
<1>5. Underway(toMain)' = Underway(toMain') /\ Underway(toPage)' = Underway(toPage')
  BY DEF Underway, Waits
<1>6. /\ (at' = "start") = (Underway(toMain') = {} /\ Underway(toPage') = {})
      /\ Underway(toMain') = {} \/ Underway(toPage') = {}
  BY <1>1, <1>2, <1>3 DEF OneWaits
<1> QED
  BY <1>2, <1>3, <1>4, <1>5, <1>6 DEF OneWaits, Single

LEMMA TookPageAsks ==
  ASSUME DraftInv, toPage # <<>>, toPage' = Tail(toPage), Waits(PageAnswer),
         NEW m \in MainMessages, Waits(m), toMain' = Append(toMain, m), at' # "start"
  PROVE  OneWaits'
<1>1. Single(toPage) /\ Single(toMain) /\ OneWaits
  BY DEF DraftInv, OneWaits, Single
<1>2. Underway(toPage') = {} /\ Underway(toPage) # {}
  BY <1>1, ChannelsAre, UnderwayTail DEF PageAnswer
<1>3. Underway(toMain) = {}
  BY <1>1, <1>2 DEF OneWaits
<1>4. Underway(toMain') = {Len(toMain) + 1}
  BY <1>3, ChannelsAre, UnderwayAppend
<1>5. Underway(toMain)' = Underway(toMain') /\ Underway(toPage)' = Underway(toPage')
  BY DEF Underway, Waits
<1> QED
  BY <1>2, <1>4, <1>5 DEF OneWaits

(* The main process takes a message, and answers what waits for an answer. *)
LEMMA TookMain ==
  ASSUME DraftInv, toMain # <<>>, toMain' = Tail(toMain), at' = at,
         \/ ~Waits(Request) /\ toPage' = toPage
         \/ \E m \in PageMessages : Waits(m) = Waits(Request) /\ toPage' = Append(toPage, m)
  PROVE  OneWaits'
<1>1. Single(toPage) /\ Single(toMain) /\ OneWaits
  BY DEF DraftInv, OneWaits, Single
<1>2. /\ Underway(toMain) = {} => Underway(toMain') = {}
      /\ Single(toMain')
      /\ Waits(Request) => Underway(toMain') = {} /\ Underway(toMain) # {}
      /\ ~Waits(Request) /\ Underway(toMain) # {} => Underway(toMain') # {}
  BY <1>1, ChannelsAre, UnderwayTail DEF Request
<1>3. Underway(toMain)' = Underway(toMain') /\ Underway(toPage)' = Underway(toPage')
  BY DEF Underway, Waits
<1>4. CASE ~Waits(Request)
  <2>1. Underway(toPage') = Underway(toPage)
    BY <1>4, ChannelsAre, UnderwayAppend
  <2>2. Single(toPage')
    BY <1>1, <2>1 DEF Single
  <2> QED
    BY <1>1, <1>2, <1>3, <1>4, <2>1, <2>2 DEF OneWaits, Single
<1>5. CASE Waits(Request)
  <2>1. PICK m \in PageMessages : Waits(m) /\ toPage' = Append(toPage, m)
    BY <1>5
  <2>2. Underway(toPage) = {} /\ at # "start"
    BY <1>1, <1>2, <1>5 DEF OneWaits
  <2>3. Underway(toPage') = {Len(toPage) + 1}
    BY <2>1, <2>2, ChannelsAre, UnderwayAppend
  <2> QED
    BY <1>2, <1>3, <1>5, <2>2, <2>3 DEF OneWaits, Single
<1> QED
  BY <1>4, <1>5

(* What is under way after a message was taken. *)
LEMMA PageRest ==
  ASSUME DraftInv, toPage # <<>>, toPage' = Tail(toPage)
  PROVE  /\ toPage' \in Seq(PageMessages) /\ PageAnswer \in PageMessages
         /\ 1 \in DOMAIN toPage /\ PageAnswer = toPage[1]
         /\ \A i \in DOMAIN toPage' :
              i \in Nat /\ i + 1 \in DOMAIN toPage /\ toPage'[i] = toPage[i + 1]
         /\ \A j \in DOMAIN toPage :
              j \in Nat /\ (j # 1 => j - 1 \in DOMAIN toPage' /\ toPage'[j - 1] = toPage[j])
         /\ Waits(PageAnswer) =>
              /\ \A i \in DOMAIN toPage' : ~Waits(toPage'[i])
              /\ \A i \in DOMAIN toMain : ~Waits(toMain[i])
<1>1. toPage \in Seq(PageMessages)
  BY DEF DraftInv, DraftTypeOK
<1>2. /\ toPage' \in Seq(PageMessages) /\ Len(toPage') = Len(toPage) - 1
      /\ DOMAIN toPage' = 1..(Len(toPage) - 1)
      /\ DOMAIN toPage = 1..Len(toPage) /\ Len(toPage) >= 1 /\ Len(toPage) \in Nat
      /\ \A i \in 1..(Len(toPage) - 1) : toPage'[i] = toPage[i + 1]
      /\ Head(toPage) = toPage[1] /\ toPage[1] \in PageMessages
  BY <1>1, TailIs
<1>3. \A i \in DOMAIN toPage' :
        i \in Nat /\ i + 1 \in DOMAIN toPage /\ toPage'[i] = toPage[i + 1]
  BY <1>2
<1>4. \A j \in DOMAIN toPage :
        j \in Nat /\ (j # 1 => j - 1 \in DOMAIN toPage' /\ toPage'[j - 1] = toPage[j])
  <2> SUFFICES ASSUME NEW j \in DOMAIN toPage, j # 1
               PROVE  j \in Nat /\ j - 1 \in DOMAIN toPage' /\ toPage'[j - 1] = toPage[j]
    BY <1>2
  <2>1. j - 1 \in 1..(Len(toPage) - 1) /\ (j - 1) + 1 = j /\ j \in Nat
    BY <1>2
  <2> QED
    BY <1>2, <2>1
<1>5. ASSUME Waits(PageAnswer)
      PROVE  /\ \A i \in DOMAIN toPage' : ~Waits(toPage'[i])
             /\ \A i \in DOMAIN toMain : ~Waits(toMain[i])
  <2>1. Single(toPage) /\ (Underway(toMain) = {} \/ Underway(toPage) = {})
    BY DEF DraftInv, OneWaits, Single
  <2>2. Underway(toPage') = {} /\ Underway(toPage) # {}
    BY <1>1, <1>5, <2>1, UnderwayTail DEF PageAnswer
  <2> QED
    BY <2>1, <2>2 DEF Underway
<1> QED
  BY <1>2, <1>3, <1>4, <1>5 DEF PageAnswer

LEMMA MainRest ==
  ASSUME DraftInv, toMain # <<>>, toMain' = Tail(toMain)
  PROVE  /\ toMain' \in Seq(MainMessages) /\ Request \in MainMessages
         /\ 1 \in DOMAIN toMain /\ Request = toMain[1]
         /\ \A i \in DOMAIN toMain' :
              i \in Nat /\ i + 1 \in DOMAIN toMain /\ toMain'[i] = toMain[i + 1]
         /\ Waits(Request) =>
              /\ \A i \in DOMAIN toMain' : ~Waits(toMain'[i])
              /\ \A i \in DOMAIN toPage : ~Waits(toPage[i])
              /\ at # "start"
<1>1. toMain \in Seq(MainMessages)
  BY DEF DraftInv, DraftTypeOK
<1>2. /\ toMain' \in Seq(MainMessages) /\ Len(toMain') = Len(toMain) - 1
      /\ DOMAIN toMain' = 1..(Len(toMain) - 1)
      /\ DOMAIN toMain = 1..Len(toMain) /\ Len(toMain) >= 1 /\ Len(toMain) \in Nat
      /\ \A i \in 1..(Len(toMain) - 1) : toMain'[i] = toMain[i + 1]
      /\ Head(toMain) = toMain[1] /\ toMain[1] \in MainMessages
  BY <1>1, TailIs
<1>3. \A i \in DOMAIN toMain' :
        i \in Nat /\ i + 1 \in DOMAIN toMain /\ toMain'[i] = toMain[i + 1]
  BY <1>2
<1>4. ASSUME Waits(Request)
      PROVE  /\ \A i \in DOMAIN toMain' : ~Waits(toMain'[i])
             /\ \A i \in DOMAIN toPage : ~Waits(toPage[i])
             /\ at # "start"
  <2>1. Single(toMain) /\ OneWaits
    BY DEF DraftInv, OneWaits, Single
  <2>2. Underway(toMain') = {} /\ Underway(toMain) # {}
    BY <1>1, <1>4, <2>1, UnderwayTail DEF Request
  <2> QED
    BY <2>1, <2>2 DEF Underway, OneWaits
<1> QED
  BY <1>2, <1>3, <1>4 DEF Request

LEMMA Grown ==
  ASSUME NEW S, NEW q \in Seq(S), NEW m \in S, NEW r, r = Append(q, m)
  PROVE  /\ r \in Seq(S)
         /\ \A i \in DOMAIN q : i \in DOMAIN r /\ r[i] = q[i] /\ i \in Nat /\ i < Len(q) + 1
         /\ Len(q) + 1 \in DOMAIN r /\ r[Len(q) + 1] = m
         /\ \A i \in DOMAIN r : (i \in DOMAIN q /\ r[i] = q[i]) \/ (i = Len(q) + 1 /\ r[i] = m)
BY AppendIs

(* Nothing is asked to be saved, and the page is told nothing new. *)
NoNewSaves ==
    \A i \in DOMAIN toMain' : toMain'[i].op = "save" =>
      \E k \in DOMAIN toMain : toMain[k] = toMain'[i]
NoNewNews ==
    \A i \in DOMAIN toPage' : toPage'[i].op \in {"saved", "loaded", "reloaded"} =>
      \E k \in DOMAIN toPage : toPage[k] = toPage'[i]

KnownNext(x) ==
    /\ x <= store'.revision
    /\ x = store'.revision /\ x > 0 /\ store'.by = "other" => x \in seen'

LEMMA RevisionsStayKnown ==
  ASSUME DraftInv, SameEntries, UNCHANGED store, seen \subseteq seen', NoNewSaves, NoNewNews,
         KnownNext(page'.revision)
  PROVE  RevisionsKnown'
<1>1. \A x : Known(x) => KnownNext(x)
  BY DEF Known, KnownNext
<1>2. \A k \in Keys' : Applied(k)' => k \in Keys /\ Applied(k) /\ ledger'[k] = ledger[k]
  BY DEF SameEntries, Applied
<1>3. RevisionsKnown
  BY DEF DraftInv
<1>4. \A i \in DOMAIN toMain' : toMain'[i].op = "save" => KnownNext(toMain'[i].expected)
  BY <1>1, <1>3 DEF NoNewSaves, RevisionsKnown
<1>5. \A i \in DOMAIN toPage' :
        /\ toPage'[i].op = "saved" => KnownNext(toPage'[i].revision)
        /\ toPage'[i].op \in {"loaded", "reloaded"} => toPage'[i].revision <= store.revision
  BY <1>1, <1>3 DEF NoNewNews, RevisionsKnown
<1>6. \A k \in Keys' : Applied(k)' => KnownNext(ledger'[k].revision)
  BY <1>1, <1>2, <1>3 DEF RevisionsKnown
<1> QED
  BY <1>4, <1>5, <1>6 DEF RevisionsKnown, Known, KnownNext

LEMMA QueueUndisturbed ==
  ASSUME DraftInv, toPage # <<>>, toPage' = Tail(toPage), used["others"] = 0, ~lost
  PROVE  /\ \A i \in DOMAIN toPage' :
              /\ toPage'[i].op # "conflict"
              /\ toPage'[i].op \in {"loaded", "saved"} =>
                   toPage'[i].revision = store.revision
                   \/ \E j \in DOMAIN toPage' : j > i /\ toPage'[j].op = "saved"
         /\ PageAnswer.op \in {"loaded", "saved"} =>
              PageAnswer.revision = store.revision
              \/ \E j \in DOMAIN toPage' : toPage'[j].op = "saved"
         /\ PageAnswer.op = "saved" => PageAnswer.revision = store.revision
         /\ PageAnswer.op # "saved" /\ (\E j \in DOMAIN toPage : Told(j)) =>
              \E j \in DOMAIN toPage' : toPage'[j].op = "saved"
         /\ PageAnswer.op # "conflict"
<1>1. /\ 1 \in DOMAIN toPage /\ PageAnswer = toPage[1]
      /\ \A i \in DOMAIN toPage' :
           i \in Nat /\ i + 1 \in DOMAIN toPage /\ toPage'[i] = toPage[i + 1]
      /\ \A j \in DOMAIN toPage :
           j \in Nat /\ (j # 1 => j - 1 \in DOMAIN toPage' /\ toPage'[j - 1] = toPage[j])
      /\ Waits(PageAnswer) => \A i \in DOMAIN toPage' : ~Waits(toPage'[i])
  BY PageRest
<1>2. \A i \in DOMAIN toPage :
        /\ toPage[i].op # "conflict"
        /\ toPage[i].op \in {"loaded", "saved"} =>
             toPage[i].revision = store.revision \/ \E j \in DOMAIN toPage : j > i /\ Told(j)
  BY DEF DraftInv, Undisturbed
<1>3. ASSUME NEW i \in DOMAIN toPage, NEW j \in DOMAIN toPage, j > i, Told(j)
      PROVE  /\ j - 1 \in DOMAIN toPage' /\ toPage'[j - 1].op = "saved" /\ j - 1 > i - 1
  <2>1. toPage[1] = PageAnswer /\ i \in Nat /\ j \in Nat /\ j # 1
    <3>1. i >= 1 /\ i \in Nat /\ j \in Nat
      BY <1>3, ChannelsAre
    <3> QED
      BY <1>1, <1>3, <3>1
  <2> QED
    BY <1>1, <1>3, <2>1 DEF Told
<1>4. \A i \in DOMAIN toPage' :
        /\ toPage'[i].op # "conflict"
        /\ toPage'[i].op \in {"loaded", "saved"} =>
             toPage'[i].revision = store.revision
             \/ \E j \in DOMAIN toPage' : j > i /\ toPage'[j].op = "saved"
  <2> SUFFICES ASSUME NEW i \in DOMAIN toPage'
               PROVE  /\ toPage'[i].op # "conflict"
                      /\ toPage'[i].op \in {"loaded", "saved"} =>
                           toPage'[i].revision = store.revision
                           \/ \E j \in DOMAIN toPage' : j > i /\ toPage'[j].op = "saved"
    OBVIOUS
  <2>1. i + 1 \in DOMAIN toPage /\ toPage'[i] = toPage[i + 1] /\ (i + 1) - 1 = i
    BY <1>1
  <2> QED
    BY <1>2, <1>3, <2>1
<1>5. PageAnswer.op \in {"loaded", "saved"} =>
        PageAnswer.revision = store.revision
        \/ \E j \in DOMAIN toPage' : toPage'[j].op = "saved"
  BY <1>1, <1>2, <1>3
<1>6. PageAnswer.op = "saved" => PageAnswer.revision = store.revision
  BY <1>1, <1>5 DEF Waits
<1>7. PageAnswer.op # "saved" /\ (\E j \in DOMAIN toPage : Told(j)) =>
        \E j \in DOMAIN toPage' : toPage'[j].op = "saved"
  BY <1>1 DEF Told
<1> QED
  BY <1>1, <1>2, <1>4, <1>5, <1>6, <1>7

(* The end of a call of save(). *)
LEMMA EndRunIs ==
  ASSUME DraftInv, runs # <<>>, NEW saved \in BOOLEAN, EndRun(saved)
  PROVE  /\ runs' \in Seq(Nat \cup {Nothing}) /\ at' = "start" /\ sent' = Nothing
         /\ \/ toMain' = toMain
            \/ \E m \in MainMessages :
                 /\ m.op = "done" /\ ~Waits(m) /\ m.saved = saved /\ m.kept = (page.content = last)
                 /\ toMain' = Append(toMain, m)
<1>1. runs \in Seq(Nat \cup {Nothing})
  BY DEF DraftInv, DraftTypeOK
<1>2. runs' \in Seq(Nat \cup {Nothing}) /\ Head(runs) \in Nat \cup {Nothing}
  BY <1>1, TailIs DEF EndRun
<1>3. CASE Head(runs) = Nothing
  BY <1>2, <1>3 DEF EndRun
<1>4. CASE Head(runs) # Nothing
  <2>1. PICK m : m = [op |-> "done", id |-> Head(runs), saved |-> saved, kept |-> page.content = last]
    OBVIOUS
  <2>2. m \in MainMessages /\ m.op = "done" /\ m.saved = saved /\ m.kept = (page.content = last)
    BY <1>2, <1>4, <2>1 DEF MainMessages
  <2>3. toMain' = Append(toMain, m)
    BY <1>4, <2>1 DEF EndRun
  <2> QED
    BY <1>2, <2>2, <2>3 DEF EndRun, Waits
<1> QED
  BY <1>3, <1>4

-----------------------------------------------------------------------------
(* The page takes a message.                                                *)

(* At most the end of a call is told to the main process. *)
Reports ==
    \/ toMain' = toMain
    \/ \E m \in MainMessages : /\ m.op = "done" /\ ~Waits(m) /\ (m.saved => m.kept)
                               /\ toMain' = Append(toMain, m)

LEMMA ReportsAre ==
  ASSUME DraftInv, Reports
  PROVE  /\ toMain' \in Seq(MainMessages) /\ NoNewSaves
         /\ \A i \in DOMAIN toMain' :
              \/ i \in DOMAIN toMain /\ toMain'[i] = toMain[i]
              \/ toMain'[i].op = "done" /\ (toMain'[i].saved => toMain'[i].kept)
         /\ \A i \in DOMAIN toMain : i \in DOMAIN toMain' /\ toMain'[i] = toMain[i]
<1>1. CASE toMain' = toMain
  BY <1>1, ChannelsAre DEF NoNewSaves
<1>2. CASE toMain' # toMain
  <2>1. PICK m \in MainMessages : /\ m.op = "done" /\ (m.saved => m.kept)
                                  /\ toMain' = Append(toMain, m)
    BY <1>2 DEF Reports
  <2>2. /\ toMain' \in Seq(MainMessages)
        /\ \A i \in DOMAIN toMain : i \in DOMAIN toMain' /\ toMain'[i] = toMain[i]
        /\ \A i \in DOMAIN toMain' : (i \in DOMAIN toMain /\ toMain'[i] = toMain[i]) \/ toMain'[i] = m
    BY <2>1, ChannelsAre, Grown
  <2> QED
    BY <2>1, <2>2 DEF NoNewSaves
<1> QED
  BY <1>1, <1>2

LEMMA TookFits ==
  ASSUME DraftInv, toPage # <<>>, toPage' = Tail(toPage), Reports,
         Waits(PageAnswer) \/ (at' = at /\ sent' = sent /\ (last' = last \/ at = "start"))
  PROVE  MessagesFit'
<1>1. /\ \A i \in DOMAIN toPage' : i + 1 \in DOMAIN toPage /\ toPage'[i] = toPage[i + 1]
      /\ Waits(PageAnswer) =>
           /\ \A i \in DOMAIN toPage' : ~Waits(toPage'[i])
           /\ \A i \in DOMAIN toMain : ~Waits(toMain[i])
  BY PageRest
<1>2. \A i \in DOMAIN toMain' :
        \/ i \in DOMAIN toMain /\ toMain'[i] = toMain[i]
        \/ toMain'[i].op = "done" /\ (toMain'[i].saved => toMain'[i].kept)
  BY ReportsAre
<1>3. MessagesFit
  BY DEF DraftInv
<1>4. CASE Waits(PageAnswer)
  BY <1>1, <1>2, <1>3, <1>4 DEF MessagesFit, ToMainFits, ToPageFits, Waits
<1>5. CASE at' = at /\ sent' = sent /\ (last' = last \/ at = "start")
  BY <1>1, <1>2, <1>3, <1>5 DEF MessagesFit, ToMainFits, ToPageFits
<1> QED
  BY <1>4, <1>5

LEMMA TookNews == ASSUME DraftInv, toPage # <<>>, toPage' = Tail(toPage) PROVE NoNewNews
BY PageRest DEF NoNewNews

LEMMA TookUndisturbed ==
  ASSUME DraftInv, toPage # <<>>, toPage' = Tail(toPage), NoNewSaves, SameEntries,
         UNCHANGED <<store, lost>>, used'["others"] = used["others"],
         PageAnswer.op # "conflict", PageAnswer.op # "reloaded",
         at' # "reload" \/ at' = at, page'.conflict => page.conflict,
         \/ PageAnswer.op = "saved" /\ page'.revision = PageAnswer.revision
         \/ PageAnswer.op = "loaded" /\ page'.revision = PageAnswer.revision
         \/ PageAnswer.op \notin {"saved", "loaded"} /\ page'.revision = page.revision,
         \/ page'.key = Nothing \/ ledger'[page'.key] = Nothing
         \/ page'.key = page.key /\ PageAnswer.op # "saved"
  PROVE  Undisturbed'
<1> SUFFICES ASSUME used["others"] = 0, ~lost PROVE Undisturbed'
  BY DEF Undisturbed
<1>1. /\ \A i \in DOMAIN toPage' :
           /\ toPage'[i].op # "conflict"
           /\ toPage'[i].op \in {"loaded", "saved"} =>
                toPage'[i].revision = store.revision
                \/ \E j \in DOMAIN toPage' : j > i /\ toPage'[j].op = "saved"
      /\ PageAnswer.op \in {"loaded", "saved"} =>
           PageAnswer.revision = store.revision
           \/ \E j \in DOMAIN toPage' : toPage'[j].op = "saved"
      /\ PageAnswer.op # "saved" /\ (\E j \in DOMAIN toPage : Told(j)) =>
           \E j \in DOMAIN toPage' : toPage'[j].op = "saved"
  BY QueueUndisturbed
<1>2. /\ at # "reload" /\ ~page.conflict
      /\ \A k \in Keys : ledger[k] # Nothing => ledger[k].status = "applied"
      /\ page.revision = store.revision \/ \E j \in DOMAIN toPage : Told(j)
      /\ page.key # Nothing => ledger[page.key] = Nothing \/ \E j \in DOMAIN toPage : Told(j)
      /\ \A i \in DOMAIN toMain : toMain[i].op = "save" =>
           toMain[i].expected = store.revision /\ ledger[toMain[i].key] = Nothing
  BY DEF DraftInv, Undisturbed
<1>3. \A k \in Keys' : ledger'[k] # Nothing => ledger'[k].status = "applied"
  BY <1>2 DEF SameEntries
<1>4. page'.revision = store.revision \/ \E j \in DOMAIN toPage' : toPage'[j].op = "saved"
  BY <1>1, <1>2
<1>5. page'.key # Nothing =>
        ledger'[page'.key] = Nothing \/ \E j \in DOMAIN toPage' : toPage'[j].op = "saved"
  BY <1>1, <1>2, TypesAre DEF SameEntries, DraftInv
<1>6. \A i \in DOMAIN toMain' : toMain'[i].op = "save" =>
        toMain'[i].expected = store.revision /\ ledger'[toMain'[i].key] = Nothing
  <2>1. \A i \in DOMAIN toMain : toMain[i].op = "save" => toMain[i].key \in Keys
    BY DEF DraftInv, MessagesFit, ToMainFits, LastIsKept
  <2> QED
    BY <1>2, <2>1 DEF NoNewSaves, SameEntries
<1> QED
  BY <1>1, <1>2, <1>3, <1>4, <1>5, <1>6 DEF Undisturbed, Told

PageTypes(p, ks) ==
    p \in [content : Texts, revision : Nat, dirty : BOOLEAN, conflict : BOOLEAN,
           blocked : BOOLEAN, remote : Texts \cup {Nothing}, key : ks \cup {Nothing}]

LEMMA SaveAppliedInv ==
  ASSUME DraftInv, SaveApplied
  PROVE  DraftInv'
<1> DEFINE done == page.content = sent.content
<1>1. /\ toPage # <<>> /\ PageAnswer.op = "saved" /\ toPage' = Tail(toPage)
      /\ at' = "start" /\ sent' = Nothing
      /\ page' = [page EXCEPT !.revision = PageAnswer.revision, !.conflict = FALSE,
                              !.dirty = ~done, !.key = IF done THEN Nothing ELSE NewKey]
      /\ IF done THEN ledger' = ledger ELSE KeyTaken
      /\ UNCHANGED <<runs, toMain, store, main, closed, last, seen, lost, used>>
  BY DEF SaveApplied, Arrives, SavedText, NewBase, KeyTaken, TakeKey, process, history
<1>2. DraftTypeOK
  BY DEF DraftInv
<1>3. SameEntries /\ ledger' \in Seq(LedgerRecords \cup {Nothing})
  BY <1>1, <1>2, EntriesStay
<1>4. /\ PageAnswer \in PageMessages /\ toPage' \in Seq(PageMessages) /\ PageAnswer = toPage[1]
      /\ 1 \in DOMAIN toPage
  BY <1>1, PageRest
<1>5. PageAnswer.revision \in Nat
  BY <1>1, <1>4, PageMessage
<1>6. at = "save" /\ last = sent.content /\ Known(PageAnswer.revision)
  BY <1>1, <1>4 DEF DraftInv, MessagesFit, ToPageFits, RevisionsKnown
<1>7. ~done => NewKey \in Keys' /\ NewKey # Nothing /\ ledger'[NewKey] = Nothing
  BY <1>1, <1>2, KeyIs
<1>8. /\ PageTypes(page', Keys') /\ page'.revision = PageAnswer.revision /\ ~page'.conflict
      /\ page'.dirty = ~done /\ page'.content = page.content
      /\ page'.key = IF done THEN Nothing ELSE NewKey
  BY <1>1, <1>2, <1>5, <1>7 DEF DraftTypeOK, PageTypes
<1>9. DraftTypeOK'
  BY <1>1, <1>2, <1>3, <1>4, <1>8 DEF DraftTypeOK, PageTypes
<1>10. RunFits'
  BY <1>1, <1>8 DEF RunFits
<1>11. Reports /\ NoNewSaves
  BY <1>1, ReportsAre DEF Reports
<1>12. Waits(PageAnswer)
  BY <1>1 DEF Waits
<1>13. OneWaits' /\ MessagesFit'
  BY <1>1, <1>11, <1>12, TookPage, TookFits
<1>14. LastIsKept'
  BY <1>1, <1>6, <1>7, <1>8 DEF DraftInv, LastIsKept, Applied
<1>15. RevisionsKnown'
  <2>1. KnownNext(page'.revision)
    BY <1>1, <1>6, <1>8 DEF Known, KnownNext
  <2> QED
    BY <1>1, <1>3, <1>11, <2>1, TookNews, RevisionsStayKnown
<1>16. Undisturbed'
  BY <1>1, <1>3, <1>7, <1>8, <1>11, TookUndisturbed
<1> QED
  BY <1>9, <1>10, <1>13, <1>14, <1>15, <1>16 DEF DraftInv

(* The run is over, or waits for nothing more. *)
LEMMA StartedFits ==
  ASSUME DraftInv, at' = "start", UNCHANGED <<page, ledger, last, closed>>
  PROVE  RunFits' /\ LastIsKept'
BY DEF DraftInv, RunFits, LastIsKept, Applied, Keys

LEMMA SaveConflictsInv ==
  ASSUME DraftInv, SaveConflicts
  PROVE  DraftInv'
<1>1. /\ toPage # <<>> /\ PageAnswer.op = "conflict" /\ toPage' = Tail(toPage) /\ at' = "reload"
      /\ UNCHANGED <<page, runs, sent, store, ledger, main, closed, last, seen, lost, used>>
  BY DEF SaveConflicts, Arrives, process, history
<1>2. PICK m : m = [op |-> "reload"]
  OBVIOUS
<1>3. m \in MainMessages /\ m.op = "reload" /\ Waits(m) /\ toMain' = Append(toMain, m)
  BY <1>2 DEF MainMessages, Waits, SaveConflicts
<1>4. /\ toPage' \in Seq(PageMessages) /\ PageAnswer = toPage[1] /\ 1 \in DOMAIN toPage
      /\ \A i \in DOMAIN toPage' : ~Waits(toPage'[i])
      /\ \A i \in DOMAIN toMain : ~Waits(toMain[i])
  BY <1>1, PageRest DEF Waits
<1>5. at = "save"
  BY <1>1, <1>4 DEF DraftInv, MessagesFit, ToPageFits
<1>6. /\ toMain' \in Seq(MainMessages)
      /\ \A i \in DOMAIN toMain' : (i \in DOMAIN toMain /\ toMain'[i] = toMain[i]) \/ toMain'[i] = m
  BY <1>3, ChannelsAre, Grown
<1>7. DraftTypeOK'
  BY <1>1, <1>4, <1>6 DEF DraftInv, DraftTypeOK, Keys
<1>8. RunFits' /\ LastIsKept'
  BY <1>1, <1>5 DEF DraftInv, RunFits, LastIsKept, Applied, Keys
<1>9. OneWaits'
  BY <1>1, <1>3, TookPageAsks DEF Waits
<1>10. MessagesFit'
  BY <1>1, <1>3, <1>4, <1>6 DEF DraftInv, MessagesFit, ToMainFits, ToPageFits, Waits
<1>11. RevisionsKnown'
  <2>1. NoNewSaves
    BY <1>3, <1>6 DEF NoNewSaves
  <2>2. KnownNext(page'.revision) /\ SameEntries
    BY <1>1, EntriesStay DEF DraftInv, RevisionsKnown, Known, KnownNext
  <2> QED
    BY <1>1, <2>1, <2>2, TookNews, RevisionsStayKnown
<1>12. Undisturbed'
  BY <1>1, QueueUndisturbed DEF Undisturbed
<1> QED
  BY <1>7, <1>8, <1>9, <1>10, <1>11, <1>12 DEF DraftInv

LEMMA SaveFailsInv ==
  ASSUME DraftInv, SaveFails
  PROVE  DraftInv'
<1>1. /\ toPage # <<>> /\ PageAnswer.op = "error" /\ toPage' = Tail(toPage) /\ EndRun(FALSE)
      /\ UNCHANGED <<page, store, ledger, main, closed, last, seen, lost, used>>
  BY DEF SaveFails, Arrives, process, history
<1>2. /\ toPage' \in Seq(PageMessages) /\ PageAnswer = toPage[1] /\ 1 \in DOMAIN toPage
  BY <1>1, PageRest
<1>3. runs # <<>>
  BY <1>1, <1>2 DEF DraftInv, MessagesFit, ToPageFits, RunFits
<1>4. /\ runs' \in Seq(Nat \cup {Nothing}) /\ at' = "start" /\ sent' = Nothing /\ Reports
  BY <1>1, <1>3, EndRunIs DEF Reports
<1>5. toMain' \in Seq(MainMessages) /\ NoNewSaves
  BY <1>4, ReportsAre
<1>6. DraftTypeOK'
  BY <1>1, <1>2, <1>4, <1>5 DEF DraftInv, DraftTypeOK, Keys
<1>7. RunFits' /\ LastIsKept'
  BY <1>1, <1>4, StartedFits
<1>8. OneWaits' /\ MessagesFit'
  BY <1>1, <1>4, TookPage, TookFits DEF Waits, Reports
<1>9. SameEntries
  BY <1>1, EntriesStay DEF DraftInv
<1>10. RevisionsKnown'
  <2>1. KnownNext(page'.revision)
    BY <1>1 DEF DraftInv, RevisionsKnown, Known, KnownNext
  <2> QED
    BY <1>1, <1>5, <1>9, <2>1, TookNews, RevisionsStayKnown
<1>11. Undisturbed'
  BY <1>1, <1>4, <1>5, <1>9, TookUndisturbed
<1> QED
  BY <1>6, <1>7, <1>8, <1>10, <1>11 DEF DraftInv

(* What was loaded for a conflict is received only by the run that asked. *)
LEMMA ReloadedIs ==
  ASSUME DraftInv, toPage # <<>>, PageAnswer.op = "reloaded", toPage' = Tail(toPage)
  PROVE  /\ toPage' \in Seq(PageMessages) /\ at = "reload" /\ runs # <<>> /\ page.dirty
         /\ PageAnswer.content \in Texts /\ PageAnswer.revision \in Nat
         /\ PageAnswer.revision <= store.revision
         /\ ~(used["others"] = 0 /\ ~lost) /\ Waits(PageAnswer)
<1>1. /\ toPage' \in Seq(PageMessages) /\ PageAnswer = toPage[1] /\ 1 \in DOMAIN toPage
      /\ PageAnswer \in PageMessages
  BY PageRest
<1> QED
  BY <1>1, PageMessage
  DEF DraftInv, MessagesFit, ToPageFits, RunFits, RevisionsKnown, Undisturbed, Waits

LEMMA ReloadedInv ==
  ASSUME DraftInv, Reloaded
  PROVE  DraftInv'
<1>1. /\ toPage # <<>> /\ PageAnswer.op = "reloaded" /\ toPage' = Tail(toPage) /\ EndRun(FALSE)
      /\ page' = [page EXCEPT !.revision = PageAnswer.revision, !.remote = PageAnswer.content,
                              !.conflict = TRUE, !.blocked = TRUE]
      /\ seen' = seen \cup {PageAnswer.revision}
      /\ UNCHANGED <<store, ledger, main, closed, last, lost, used>>
  BY DEF Reloaded, Arrives, process
<1>2. /\ toPage' \in Seq(PageMessages) /\ at = "reload" /\ runs # <<>> /\ page.dirty
      /\ PageAnswer.content \in Texts /\ PageAnswer.revision \in Nat
      /\ PageAnswer.revision <= store.revision
      /\ ~(used["others"] = 0 /\ ~lost) /\ Waits(PageAnswer)
  BY <1>1, ReloadedIs
<1>3. runs' \in Seq(Nat \cup {Nothing}) /\ at' = "start" /\ sent' = Nothing /\ Reports
  BY <1>1, <1>2, EndRunIs DEF Reports
<1>4. toMain' \in Seq(MainMessages) /\ NoNewSaves
  BY <1>3, ReportsAre
<1>5. DraftTypeOK
  BY DEF DraftInv
<1>6. /\ PageTypes(page', Keys) /\ page'.revision = PageAnswer.revision
      /\ page'.remote # Nothing /\ page'.blocked /\ page'.dirty = page.dirty
      /\ page'.content = page.content /\ page'.key = page.key
  BY <1>1, <1>2, <1>5, NothingIs DEF DraftTypeOK, PageTypes
<1>7. DraftTypeOK'
  BY <1>1, <1>2, <1>3, <1>4, <1>5, <1>6 DEF DraftTypeOK, PageTypes, Keys
<1>8. RunFits' /\ LastIsKept'
  BY <1>1, <1>2, <1>3, <1>6 DEF DraftInv, RunFits, LastIsKept, Applied, Keys
<1>9. OneWaits' /\ MessagesFit'
  BY <1>1, <1>2, <1>3, TookPage, TookFits DEF Reports
<1>10. RevisionsKnown'
  <2>1. KnownNext(page'.revision) /\ SameEntries
    BY <1>1, <1>2, <1>5, <1>6, EntriesStay DEF KnownNext
  <2> QED
    BY <1>1, <1>4, <2>1, TookNews, RevisionsStayKnown
<1>11. Undisturbed'
  BY <1>1, <1>2 DEF Undisturbed
<1> QED
  BY <1>7, <1>8, <1>9, <1>10, <1>11 DEF DraftInv

LEMMA ReloadFailsInv ==
  ASSUME DraftInv, ReloadFails
  PROVE  DraftInv'
<1>1. /\ toPage # <<>> /\ PageAnswer.op = "reloaded" /\ toPage' = Tail(toPage)
      /\ Count("faults", MaxFaults) /\ runs' = Tail(runs) /\ at' = "start" /\ sent' = Nothing
      /\ UNCHANGED <<page, toMain, store, ledger, main, closed, last, seen, lost>>
  BY DEF ReloadFails, Arrives, process, history
<1>2. /\ toPage' \in Seq(PageMessages) /\ runs # <<>> /\ ~(used["others"] = 0 /\ ~lost)
      /\ Waits(PageAnswer)
  BY <1>1, ReloadedIs
<1>3. DraftTypeOK /\ runs \in Seq(Nat \cup {Nothing})
  BY DEF DraftInv, DraftTypeOK
<1>4. runs' \in Seq(Nat \cup {Nothing})
  BY <1>1, <1>2, <1>3, TailIs
<1>5. /\ used' \in [{"typed", "saves", "loads", "closes", "others", "faults"} -> Nat]
      /\ used'["others"] = used["others"]
  BY <1>1, <1>3, CountIs
<1>6. DraftTypeOK'
  BY <1>1, <1>2, <1>3, <1>4, <1>5 DEF DraftTypeOK, Keys
<1>7. RunFits' /\ LastIsKept'
  BY <1>1, StartedFits
<1>8. Reports /\ NoNewSaves
  BY <1>1, ReportsAre DEF Reports
<1>9. OneWaits' /\ MessagesFit'
  BY <1>1, <1>2, <1>8, TookPage, TookFits
<1>10. RevisionsKnown'
  <2>1. KnownNext(page'.revision) /\ SameEntries
    BY <1>1, EntriesStay DEF DraftInv, RevisionsKnown, Known, KnownNext
  <2> QED
    BY <1>1, <1>8, <2>1, TookNews, RevisionsStayKnown
<1>11. Undisturbed'
  BY <1>1, <1>2, <1>5 DEF Undisturbed
<1> QED
  BY <1>6, <1>7, <1>9, <1>10, <1>11 DEF DraftInv

LEMMA LoadedInv ==
  ASSUME DraftInv, Loaded
  PROVE  DraftInv'
<1> DEFINE empty == ~page.dirty /\ page.content = Empty
<1>1. /\ toPage # <<>> /\ PageAnswer.op = "loaded" /\ toPage' = Tail(toPage)
      /\ page' = [page EXCEPT !.revision = PageAnswer.revision,
                              !.content = IF empty THEN PageAnswer.content ELSE @]
      /\ last' = IF empty THEN PageAnswer.content ELSE last
      /\ seen' = seen \cup {PageAnswer.revision}
      /\ UNCHANGED <<runs, at, sent, toMain, store, ledger, main, closed, lost, used>>
  BY DEF Loaded, Arrives, process
<1>2. /\ toPage' \in Seq(PageMessages) /\ PageAnswer = toPage[1] /\ 1 \in DOMAIN toPage
      /\ PageAnswer \in PageMessages
  BY <1>1, PageRest
<1>3. /\ PageAnswer.content \in Texts /\ PageAnswer.revision \in Nat
      /\ PageAnswer.revision <= store.revision
  BY <1>1, <1>2, PageMessage DEF DraftInv, RevisionsKnown
<1>4. DraftTypeOK
  BY DEF DraftInv
<1>5. /\ PageTypes(page', Keys) /\ page'.revision = PageAnswer.revision
      /\ page'.conflict = page.conflict /\ page'.remote = page.remote
      /\ page'.blocked = page.blocked /\ page'.dirty = page.dirty /\ page'.key = page.key
      /\ page'.content = IF empty THEN PageAnswer.content ELSE page.content
  BY <1>1, <1>3, <1>4 DEF DraftTypeOK, PageTypes
<1>6. empty => at = "start" /\ page.key = Nothing
  BY DEF DraftInv, RunFits
<1>7. DraftTypeOK'
  BY <1>1, <1>2, <1>3, <1>4, <1>5 DEF DraftTypeOK, PageTypes, Keys
<1>8. RunFits' /\ LastIsKept'
  BY <1>1, <1>5, <1>6 DEF DraftInv, RunFits, LastIsKept, Applied, Keys
<1>9. Reports /\ NoNewSaves
  BY <1>1, ReportsAre DEF Reports
<1>10. OneWaits' /\ MessagesFit'
  BY <1>1, <1>6, <1>9, TookPage, TookFits DEF Waits
<1>11. SameEntries
  BY <1>1, <1>4, EntriesStay
<1>12. RevisionsKnown'
  <2>1. KnownNext(page'.revision)
    BY <1>1, <1>3, <1>5 DEF KnownNext
  <2> QED
    BY <1>1, <1>9, <1>11, <2>1, TookNews, RevisionsStayKnown
<1>13. Undisturbed'
  BY <1>1, <1>5, <1>9, <1>11, TookUndisturbed
<1> QED
  BY <1>7, <1>8, <1>10, <1>12, <1>13 DEF DraftInv

LEMMA FlushInv ==
  ASSUME DraftInv, Flush
  PROVE  DraftInv'
<1>1. /\ toPage # <<>> /\ PageAnswer.op = "flush" /\ toPage' = Tail(toPage)
      /\ runs' = Append(runs, PageAnswer.id)
      /\ UNCHANGED <<page, at, sent, toMain, store, ledger, main, closed, last, seen, lost, used>>
  BY DEF Flush, Arrives, process, history
<1>2. /\ toPage' \in Seq(PageMessages) /\ PageAnswer \in PageMessages
  BY <1>1, PageRest
<1>3. DraftTypeOK /\ runs \in Seq(Nat \cup {Nothing}) /\ PageAnswer.id \in Nat \cup {Nothing}
  BY <1>1, <1>2, PageMessage DEF DraftInv, DraftTypeOK
<1>4. runs' \in Seq(Nat \cup {Nothing}) /\ runs' # <<>>
  BY <1>1, <1>3, AppendIs
<1>5. DraftTypeOK'
  BY <1>1, <1>2, <1>3, <1>4 DEF DraftTypeOK, Keys
<1>6. RunFits' /\ LastIsKept'
  BY <1>1, <1>4 DEF DraftInv, RunFits, LastIsKept, Applied, Keys
<1>7. Reports /\ NoNewSaves
  BY <1>1, ReportsAre DEF Reports
<1>8. OneWaits' /\ MessagesFit'
  BY <1>1, <1>7, TookPage, TookFits DEF Waits
<1>9. SameEntries
  BY <1>1, <1>3, EntriesStay
<1>10. RevisionsKnown'
  <2>1. KnownNext(page'.revision)
    BY <1>1 DEF DraftInv, RevisionsKnown, Known, KnownNext
  <2> QED
    BY <1>1, <1>7, <1>9, <2>1, TookNews, RevisionsStayKnown
<1>11. Undisturbed'
  BY <1>1, <1>7, <1>9, TookUndisturbed
<1> QED
  BY <1>5, <1>6, <1>8, <1>10, <1>11 DEF DraftInv

-----------------------------------------------------------------------------
(* The page and the window send a message.                                  *)

LEMMA TurnInv ==
  ASSUME DraftInv, Turn
  PROVE  DraftInv'
<1>1. /\ runs # <<>> /\ at = "start"
      /\ UNCHANGED <<toPage, store, main, closed, last, seen, lost, used>>
  BY DEF Turn, process, history
<1>2. DraftTypeOK
  BY DEF DraftInv
<1>3. /\ \A i \in DOMAIN toPage : ~Waits(toPage[i])
      /\ \A i \in DOMAIN toMain : ~Waits(toMain[i])
  BY <1>1 DEF DraftInv, OneWaits, Underway
<1>4. CASE page.dirty /\ ~page.blocked
  <2>1. PICK key : key = IF page.key = Nothing THEN NewKey ELSE page.key
    OBVIOUS
  <2>2. PICK m : m = [op |-> "save", content |-> page.content, expected |-> page.revision,
                      key |-> key]
    OBVIOUS
  <2>3. /\ page' = [page EXCEPT !.key = key] /\ at' = "save" /\ sent' = m
        /\ IF page.key = Nothing THEN KeyTaken ELSE ledger' = ledger
        /\ toMain' = Append(toMain, m) /\ runs' = runs
    BY <1>4, <2>1, <2>2 DEF Turn, KeyTaken, TakeKey
  <2>4. SameEntries /\ ledger' \in Seq(LedgerRecords \cup {Nothing})
    BY <1>2, <2>3, EntriesStay
  <2>5. key \in Keys' /\ key \in Nat /\ key # Nothing
    BY <1>2, <2>1, <2>3, <2>4, KeyIs, TypesAre DEF SameEntries
  <2>6. /\ m \in SaveRequests /\ m \in MainMessages /\ m # Nothing /\ Waits(m)
        /\ m.op = "save" /\ m.content = page.content /\ m.expected = page.revision /\ m.key = key
    BY <1>2, <2>2, <2>5, TypesAre, NothingIs DEF SaveRequests, MainMessages, Waits
  <2>7. /\ PageTypes(page', Keys') /\ page'.key = key /\ page'.content = page.content
        /\ page'.revision = page.revision /\ page'.dirty = page.dirty
        /\ page'.conflict = page.conflict /\ page'.blocked = page.blocked
        /\ page'.remote = page.remote
    BY <1>2, <2>3, <2>5 DEF DraftTypeOK, PageTypes
  <2>8. /\ toMain' \in Seq(MainMessages)
        /\ \A i \in DOMAIN toMain' : (i \in DOMAIN toMain /\ toMain'[i] = toMain[i]) \/ toMain'[i] = m
    BY <2>3, <2>6, ChannelsAre, Grown
  <2>9. DraftTypeOK'
    BY <1>1, <1>2, <2>3, <2>4, <2>6, <2>7, <2>8 DEF DraftTypeOK, PageTypes
  <2>10. RunFits'
    BY <1>1, <1>4, <2>3, <2>6, <2>7 DEF DraftInv, RunFits
  <2>11. OneWaits'
    BY <1>1, <2>3, <2>6, SentMain
  <2>12. MessagesFit'
    BY <1>1, <1>3, <2>3, <2>6, <2>8 DEF DraftInv, MessagesFit, ToMainFits, ToPageFits, Waits
  <2>13. page.key = Nothing => ledger'[key] = Nothing
    BY <1>2, <2>1, <2>3, KeyIs
  <2>14. LastIsKept'
    <3>1. Applied(key)' => last = ledger'[key].of[1]
      BY <1>2, <2>1, <2>4, <2>13, TypesAre DEF DraftInv, LastIsKept, Applied, SameEntries
    <3> QED
      BY <1>1, <1>4, <2>3, <2>5, <2>6, <2>7, <3>1 DEF DraftInv, LastIsKept, Applied
  <2>15. RevisionsKnown'
    <3>1. \A k \in Keys' : Applied(k)' => k \in Keys /\ Applied(k) /\ ledger'[k] = ledger[k]
      BY <2>4 DEF SameEntries, Applied
    <3> QED
      BY <1>1, <2>6, <2>7, <2>8, <3>1 DEF DraftInv, RevisionsKnown, Known
  <2>16. Undisturbed'
    <3> SUFFICES ASSUME used["others"] = 0, ~lost PROVE Undisturbed'
      BY <1>1 DEF Undisturbed
    <3>1. /\ ~page.conflict /\ page.revision = store.revision
          /\ page.key # Nothing => ledger[page.key] = Nothing
          /\ \A k \in Keys : ledger[k] # Nothing => ledger[k].status = "applied"
      BY <1>3 DEF DraftInv, Undisturbed, Told, Waits
    <3>2. ledger'[key] = Nothing
      BY <1>2, <2>1, <2>4, <2>13, <3>1, TypesAre DEF SameEntries
    <3>3. \A k \in Keys' : ledger'[k] # Nothing => ledger'[k].status = "applied"
      BY <2>4, <3>1 DEF SameEntries
    <3>4. \A i \in DOMAIN toMain' : toMain'[i].op = "save" =>
            toMain'[i].expected = store.revision /\ ledger'[toMain'[i].key] = Nothing
      BY <1>3, <2>6, <2>8, <3>1, <3>2 DEF Waits
    <3> QED
      BY <1>1, <2>3, <2>7, <3>1, <3>2, <3>3, <3>4 DEF DraftInv, Undisturbed, Told
  <2> QED
    BY <2>9, <2>10, <2>11, <2>12, <2>14, <2>15, <2>16 DEF DraftInv
<1>5. CASE ~(page.dirty /\ ~page.blocked)
  <2>1. EndRun(~page.dirty) /\ page' = page /\ ledger' = ledger
    BY <1>5 DEF Turn
  <2>2. /\ runs' \in Seq(Nat \cup {Nothing}) /\ at' = "start" /\ sent' = Nothing
        /\ \/ toMain' = toMain
           \/ \E m \in MainMessages :
                /\ m.op = "done" /\ ~Waits(m) /\ m.saved = ~page.dirty
                /\ m.kept = (page.content = last) /\ toMain' = Append(toMain, m)
    BY <1>1, <1>2, <2>1, EndRunIs, TypesAre
  <2>3. ~page.dirty => page.content = last
    BY DEF DraftInv, LastIsKept
  <2>4. Reports
    BY <2>2, <2>3 DEF Reports
  <2>5. /\ toMain' \in Seq(MainMessages) /\ NoNewSaves
        /\ \A i \in DOMAIN toMain' :
             \/ i \in DOMAIN toMain /\ toMain'[i] = toMain[i]
             \/ toMain'[i].op = "done" /\ (toMain'[i].saved => toMain'[i].kept)
    BY <2>4, ReportsAre
  <2>6. DraftTypeOK'
    BY <1>1, <1>2, <2>1, <2>2, <2>5 DEF DraftTypeOK, Keys
  <2>7. RunFits' /\ LastIsKept'
    BY <1>1, <2>1, <2>2, StartedFits
  <2>8. OneWaits'
    <3>1. CASE toMain' = toMain
      BY <1>1, <2>2, <3>1 DEF DraftInv, OneWaits, Underway, Waits
    <3>2. CASE toMain' # toMain
      BY <1>1, <2>2, <3>2, SentMain
    <3> QED
      BY <3>1, <3>2
  <2>9. MessagesFit'
    BY <1>1, <1>3, <2>5 DEF DraftInv, MessagesFit, ToMainFits, ToPageFits, Waits
  <2>10. SameEntries /\ NoNewNews
    BY <1>1, <1>2, <2>1, EntriesStay DEF NoNewNews
  <2>11. RevisionsKnown'
    <3>1. KnownNext(page'.revision)
      BY <1>1, <2>1 DEF DraftInv, RevisionsKnown, Known, KnownNext
    <3> QED
      BY <1>1, <2>5, <2>10, <3>1, RevisionsStayKnown
  <2>12. Undisturbed'
    BY <1>1, <1>3, <2>1, <2>2, <2>5 DEF DraftInv, Undisturbed, Told, Waits, NoNewSaves, Keys
  <2> QED
    BY <2>6, <2>7, <2>8, <2>9, <2>11, <2>12 DEF DraftInv
<1> QED
  BY <1>4, <1>5

LEMMA RequestLoadInv ==
  ASSUME DraftInv, RequestLoad
  PROVE  DraftInv'
<1>1. /\ Count("loads", MaxLoads)
      /\ UNCHANGED <<page, runs, at, sent, toPage, store, ledger, main, closed, last, seen, lost>>
  BY DEF RequestLoad, controller, process, history
<1>2. PICK m : m = [op |-> "load"]
  OBVIOUS
<1>3. m \in MainMessages /\ m.op = "load" /\ ~Waits(m) /\ toMain' = Append(toMain, m)
  BY <1>2 DEF MainMessages, Waits, RequestLoad
<1>4. /\ toMain' \in Seq(MainMessages)
      /\ \A i \in DOMAIN toMain' : (i \in DOMAIN toMain /\ toMain'[i] = toMain[i]) \/ toMain'[i] = m
  BY <1>3, ChannelsAre, Grown
<1>5. DraftTypeOK
  BY DEF DraftInv
<1>6. /\ used' \in [{"typed", "saves", "loads", "closes", "others", "faults"} -> Nat]
      /\ used'["others"] = used["others"]
  BY <1>1, <1>5, CountIs
<1>7. DraftTypeOK'
  BY <1>1, <1>4, <1>5, <1>6 DEF DraftTypeOK, Keys
<1>8. RunFits' /\ LastIsKept'
  BY <1>1 DEF DraftInv, RunFits, LastIsKept, Applied, Keys
<1>9. OneWaits'
  BY <1>1, <1>3, SentMain
<1>10. MessagesFit'
  BY <1>1, <1>3, <1>4 DEF DraftInv, MessagesFit, ToMainFits, ToPageFits
<1>11. NoNewSaves /\ NoNewNews /\ SameEntries
  BY <1>1, <1>3, <1>4, <1>5, EntriesStay DEF NoNewSaves, NoNewNews
<1>12. RevisionsKnown'
  <2>1. KnownNext(page'.revision)
    BY <1>1 DEF DraftInv, RevisionsKnown, Known, KnownNext
  <2> QED
    BY <1>1, <1>11, <2>1, RevisionsStayKnown
<1>13. Undisturbed'
  BY <1>1, <1>6, <1>11 DEF DraftInv, Undisturbed, Told, NoNewSaves, Keys
<1> QED
  BY <1>7, <1>8, <1>9, <1>10, <1>12, <1>13 DEF DraftInv

(* What the page is told of is told still, after another message was sent. *)
LEMMA StillTold ==
  ASSUME DraftInv, NEW m \in PageMessages, toPage' = Append(toPage, m)
  PROVE  /\ toPage' \in Seq(PageMessages)
         /\ \A i \in DOMAIN toPage' : (i \in DOMAIN toPage /\ toPage'[i] = toPage[i]) \/ toPage'[i] = m
         /\ \A j : Told(j) => Told(j)'
         /\ m.op = "saved" => \E j \in DOMAIN toPage' :
              Told(j)' /\ \A i \in DOMAIN toPage' : j > i \/ (toPage'[i] = m /\ i = j)
<1>1. /\ toPage' \in Seq(PageMessages)
      /\ \A i \in DOMAIN toPage :
           i \in DOMAIN toPage' /\ toPage'[i] = toPage[i] /\ i \in Nat /\ i < Len(toPage) + 1
      /\ Len(toPage) + 1 \in DOMAIN toPage' /\ toPage'[Len(toPage) + 1] = m
      /\ \A i \in DOMAIN toPage' :
           (i \in DOMAIN toPage /\ toPage'[i] = toPage[i]) \/ (i = Len(toPage) + 1 /\ toPage'[i] = m)
  BY ChannelsAre, Grown
<1>2. \A i \in DOMAIN toPage' : Len(toPage) + 1 > i \/ (toPage'[i] = m /\ i = Len(toPage) + 1)
  <2>1. Len(toPage) \in Nat
    BY ChannelsAre
  <2> QED
    BY <1>1, <2>1
<1> QED
  BY <1>1, <1>2 DEF Told

LEMMA OnCloseInv ==
  ASSUME DraftInv, OnClose
  PROVE  DraftInv'
<1>1. DraftTypeOK
  BY DEF DraftInv
<1>2. PICK n \in Nat : n = used.closes + 1
  BY <1>1 DEF DraftTypeOK
<1>3. PICK m : m = [op |-> "flush", id |-> n]
  OBVIOUS
<1>4. /\ Count("closes", MaxCloses)
      /\ main' = [main EXCEPT !.current = n, !.armed = TRUE]
      /\ toPage' = Append(toPage, m)
      /\ UNCHANGED <<page, runs, at, sent, toMain, store, ledger, closed, last, seen, lost>>
  BY <1>2, <1>3 DEF OnClose, Watched, Say, controller, history
<1>5. m \in PageMessages /\ m.op = "flush" /\ ~Waits(m)
  BY <1>3 DEF PageMessages, Waits
<1>6. /\ toPage' \in Seq(PageMessages)
      /\ \A i \in DOMAIN toPage' : (i \in DOMAIN toPage /\ toPage'[i] = toPage[i]) \/ toPage'[i] = m
      /\ \A j : Told(j) => Told(j)'
  BY <1>4, <1>5, StillTold
<1>7. /\ used' \in [{"typed", "saves", "loads", "closes", "others", "faults"} -> Nat]
      /\ used'["others"] = used["others"]
  BY <1>1, <1>4, CountIs
<1>8. main' \in [current : Nat \cup {Nothing}, armed : BOOLEAN, dialogs : Nat]
  BY <1>1, <1>4 DEF DraftTypeOK
<1>9. DraftTypeOK'
  BY <1>1, <1>4, <1>6, <1>7, <1>8 DEF DraftTypeOK, Keys
<1>10. RunFits' /\ LastIsKept'
  BY <1>4 DEF DraftInv, RunFits, LastIsKept, Applied, Keys
<1>11. OneWaits'
  BY <1>4, <1>5, SentPage
<1>12. MessagesFit'
  BY <1>4, <1>5, <1>6 DEF DraftInv, MessagesFit, ToMainFits, ToPageFits
<1>13. NoNewSaves /\ NoNewNews /\ SameEntries
  BY <1>1, <1>4, <1>5, <1>6, EntriesStay DEF NoNewSaves, NoNewNews
<1>14. RevisionsKnown'
  <2>1. KnownNext(page'.revision)
    BY <1>4 DEF DraftInv, RevisionsKnown, Known, KnownNext
  <2> QED
    BY <1>4, <1>13, <2>1, RevisionsStayKnown
<1>15. Undisturbed'
  <2> SUFFICES ASSUME used["others"] = 0, ~lost PROVE Undisturbed'
    BY <1>4, <1>7 DEF Undisturbed
  <2>1. \A i \in DOMAIN toPage' :
          /\ toPage'[i].op # "conflict"
          /\ toPage'[i].op \in {"loaded", "saved"} =>
               toPage'[i].revision = store.revision \/ \E j \in DOMAIN toPage' : j > i /\ Told(j)'
    BY <1>5, <1>6 DEF DraftInv, Undisturbed, Told
  <2>2. (\E j \in DOMAIN toPage : Told(j)) => \E j \in DOMAIN toPage' : Told(j)'
    BY <1>6 DEF Told
  <2> QED
    BY <1>4, <2>1, <2>2 DEF DraftInv, Undisturbed, Keys
<1> QED
  BY <1>9, <1>10, <1>11, <1>12, <1>14, <1>15 DEF DraftInv

-----------------------------------------------------------------------------
(* The main process takes a message.                                        *)

LEMMA NewsFits ==
  ASSUME DraftInv, toMain # <<>>, toMain' = Tail(toMain), UNCHANGED <<at, sent>>,
         NEW m \in PageMessages, toPage' = Append(toPage, m), ToPageFits(m)',
         last' = last \/ Waits(Request)
  PROVE  MessagesFit'
<1>1. /\ \A i \in DOMAIN toMain' : i + 1 \in DOMAIN toMain /\ toMain'[i] = toMain[i + 1]
      /\ Waits(Request) => \A i \in DOMAIN toPage : ~Waits(toPage[i])
  BY MainRest
<1>2. \A i \in DOMAIN toPage' : (i \in DOMAIN toPage /\ toPage'[i] = toPage[i]) \/ toPage'[i] = m
  BY StillTold
<1>3. \A i \in DOMAIN toMain' : ToMainFits(toMain'[i])
  BY <1>1 DEF DraftInv, MessagesFit
<1>4. \A i \in DOMAIN toPage' :
        /\ toPage'[i].op = "saved" => at = "save" /\ last' = sent.content
        /\ toPage'[i].op \in {"conflict", "error"} => at = "save"
        /\ toPage'[i].op = "reloaded" => at = "reload"
  BY <1>1, <1>2 DEF DraftInv, MessagesFit, ToPageFits, Waits
<1> QED
  BY <1>3, <1>4 DEF MessagesFit, ToMainFits, ToPageFits

LEMMA LoadDraftInv ==
  ASSUME DraftInv, LoadDraft
  PROVE  DraftInv'
<1>1. /\ toMain # <<>> /\ Request.op \in {"load", "reload"} /\ toMain' = Tail(toMain)
      /\ UNCHANGED <<page, runs, at, sent, store, ledger, main, closed, last, seen, lost, used>>
  BY DEF LoadDraft, Handles, controller, process, history
<1>2. PICK m : m = [op |-> IF Request.op = "load" THEN "loaded" ELSE "reloaded",
                    content |-> store.content, revision |-> store.revision]
  OBVIOUS
<1>3. DraftTypeOK
  BY DEF DraftInv
<1>4. /\ m \in PageMessages /\ m.op \in {"loaded", "reloaded"} /\ Waits(m) = Waits(Request)
      /\ m.op = "reloaded" => Request.op = "reload"
      /\ m.revision = store.revision /\ toPage' = Append(toPage, m)
  BY <1>1, <1>2, <1>3, TypesAre DEF LoadDraft, Say, PageMessages, Waits
<1>5. /\ toMain' \in Seq(MainMessages) /\ 1 \in DOMAIN toMain /\ Request = toMain[1]
      /\ \A i \in DOMAIN toMain' : i + 1 \in DOMAIN toMain /\ toMain'[i] = toMain[i + 1]
  BY <1>1, MainRest
<1>6. m.op = "reloaded" => at = "reload"
  BY <1>4, <1>5 DEF DraftInv, MessagesFit, ToMainFits
<1>7. /\ toPage' \in Seq(PageMessages)
      /\ \A i \in DOMAIN toPage' : (i \in DOMAIN toPage /\ toPage'[i] = toPage[i]) \/ toPage'[i] = m
      /\ \A j : Told(j) => Told(j)'
  BY <1>4, StillTold
<1>8. DraftTypeOK'
  BY <1>1, <1>3, <1>5, <1>7 DEF DraftTypeOK, Keys
<1>9. RunFits' /\ LastIsKept'
  BY <1>1 DEF DraftInv, RunFits, LastIsKept, Applied, Keys
<1>10. OneWaits'
  BY <1>1, <1>4, TookMain
<1>11. MessagesFit'
  <2>1. ToPageFits(m)'
    BY <1>1, <1>4, <1>6 DEF ToPageFits
  <2> QED
    BY <1>1, <1>4, <2>1, NewsFits
<1>12. RevisionsKnown'
  <2>1. m.revision <= store.revision
    BY <1>3, <1>4, TypesAre
  <2> QED
    BY <1>1, <1>4, <1>5, <1>7, <2>1 DEF DraftInv, RevisionsKnown, Known, Applied, Keys
<1>13. Undisturbed'
  <2> SUFFICES ASSUME used["others"] = 0, ~lost PROVE Undisturbed'
    BY <1>1 DEF Undisturbed
  <2>1. \A i \in DOMAIN toPage' :
          /\ toPage'[i].op # "conflict"
          /\ toPage'[i].op \in {"loaded", "saved"} =>
               toPage'[i].revision = store.revision \/ \E j \in DOMAIN toPage' : j > i /\ Told(j)'
    BY <1>4, <1>7 DEF DraftInv, Undisturbed, Told
  <2>2. (\E j \in DOMAIN toPage : Told(j)) => \E j \in DOMAIN toPage' : Told(j)'
    BY <1>7 DEF Told
  <2> QED
    BY <1>1, <1>5, <2>1, <2>2 DEF DraftInv, Undisturbed, Keys
<1> QED
  BY <1>8, <1>9, <1>10, <1>11, <1>12, <1>13 DEF DraftInv

(* A save that is handled is the one that the page waits for. *)
LEMMA SaveIs ==
  ASSUME DraftInv, toMain # <<>>, Request.op = "save", toMain' = Tail(toMain)
  PROVE  /\ toMain' \in Seq(MainMessages) /\ 1 \in DOMAIN toMain /\ Request = toMain[1]
         /\ at = "save" /\ sent = Request /\ Request \in SaveRequests /\ Request.key \in Keys
         /\ Request.content \in Texts /\ Request.expected \in Nat /\ page.dirty
         /\ \A i \in DOMAIN toMain' : ~Waits(toMain'[i])
         /\ \A i \in DOMAIN toPage : ~Waits(toPage[i])
         /\ Applied(Request.key) => last = ledger[Request.key].of[1]
         /\ page.key = Request.key \/ (page.key # Nothing /\ ledger[page.key] = Nothing)
         /\ Waits(Request)
<1>1. /\ toMain' \in Seq(MainMessages) /\ Request \in MainMessages
      /\ 1 \in DOMAIN toMain /\ Request = toMain[1] /\ Waits(Request)
      /\ \A i \in DOMAIN toMain' : ~Waits(toMain'[i])
      /\ \A i \in DOMAIN toPage : ~Waits(toPage[i])
  BY MainRest DEF Waits
<1>2. at = "save" /\ sent = Request /\ page.dirty
  BY <1>1 DEF DraftInv, MessagesFit, ToMainFits, RunFits
<1> QED
  BY <1>1, <1>2, MainMessage DEF DraftInv, LastIsKept

LEMMA RefusedInv ==
  ASSUME DraftInv, toMain # <<>>, Request.op = "save", toMain' = Tail(toMain),
         NEW m \in PageMessages, m.op = "error", toPage' = Append(toPage, m),
         UNCHANGED <<page, runs, at, sent, store, ledger, main, closed, last, seen, lost>>,
         used' \in [{"typed", "saves", "loads", "closes", "others", "faults"} -> Nat],
         used'["others"] = used["others"]
  PROVE  DraftInv'
<1>1. /\ toMain' \in Seq(MainMessages) /\ at = "save" /\ Waits(Request)
      /\ \A i \in DOMAIN toMain' : ~Waits(toMain'[i])
      /\ \A i \in DOMAIN toPage : ~Waits(toPage[i])
  BY SaveIs
<1>2. /\ toPage' \in Seq(PageMessages)
      /\ \A i \in DOMAIN toPage' : (i \in DOMAIN toPage /\ toPage'[i] = toPage[i]) \/ toPage'[i] = m
      /\ \A j : Told(j) => Told(j)'
  BY StillTold
<1>3. DraftTypeOK'
  BY <1>1, <1>2 DEF DraftInv, DraftTypeOK, Keys
<1>4. RunFits' /\ LastIsKept'
  BY DEF DraftInv, RunFits, LastIsKept, Applied, Keys
<1>5. OneWaits'
  BY <1>1, TookMain DEF Waits
<1>6. MessagesFit'
  <2>1. ToPageFits(m)'
    BY <1>1 DEF ToPageFits
  <2> QED
    BY <2>1, NewsFits
<1>7. NoNewSaves /\ NoNewNews /\ SameEntries
  BY <1>1, <1>2, EntriesStay DEF NoNewSaves, NoNewNews, Waits, DraftInv
<1>8. RevisionsKnown'
  <2>1. KnownNext(page'.revision)
    BY DEF DraftInv, RevisionsKnown, Known, KnownNext
  <2> QED
    BY <1>7, <2>1, RevisionsStayKnown
<1>9. Undisturbed'
  <2> SUFFICES ASSUME used["others"] = 0, ~lost PROVE Undisturbed'
    BY DEF Undisturbed
  <2>1. \A i \in DOMAIN toPage' :
          /\ toPage'[i].op # "conflict"
          /\ toPage'[i].op \in {"loaded", "saved"} => toPage'[i].revision = store.revision
    BY <1>1, <1>2 DEF DraftInv, Undisturbed, Told, Waits
  <2>2. (\E j \in DOMAIN toPage : Told(j)) => \E j \in DOMAIN toPage' : Told(j)'
    BY <1>2 DEF Told
  <2> QED
    BY <1>1, <2>1, <2>2 DEF DraftInv, Undisturbed, Keys, Waits
<1> QED
  BY <1>3, <1>4, <1>5, <1>6, <1>8, <1>9 DEF DraftInv

(* What the handler says of a save. *)
LEMMA OutcomeIs ==
  ASSUME DraftInv, NEW r \in SaveRequests, r.key \in Keys, NEW m, m = Outcome(r)
  PROVE  /\ m \in PageMessages /\ m.op \in {"saved", "conflict", "error"}
         /\ m.op = "saved" =>
              \/ ledger[r.key] = Nothing /\ IsCurrent(r) /\ m.revision = store.revision + 1
              \/ /\ Applied(r.key) /\ ledger[r.key].of = Fingerprint(r)
                 /\ m.revision = ledger[r.key].revision
         /\ ledger[r.key] = Nothing /\ IsCurrent(r) => m.op = "saved"
<1>1. /\ store.revision \in Nat /\ ledger[r.key] \in LedgerRecords \cup {Nothing} /\ r.key # Nothing
  BY TypesAre DEF DraftInv
<1>2. CASE ledger[r.key] = Nothing
  BY <1>1, <1>2 DEF Outcome, PageMessages
<1>3. CASE ledger[r.key] # Nothing
  <2>1. ledger[r.key].status = "applied" => ledger[r.key].revision \in Nat
    BY <1>1, <1>3 DEF LedgerRecords
  <2> QED
    BY <1>1, <1>3, <2>1 DEF Outcome, PageMessages, Applied
<1> QED
  BY <1>2, <1>3

LEMMA EntryIs ==
  ASSUME DraftTypeOK, NEW k \in Keys, NEW e \in LedgerRecords, ledger' = [ledger EXCEPT ![k] = e]
  PROVE  /\ ledger' \in Seq(LedgerRecords \cup {Nothing}) /\ Keys' = Keys /\ ledger'[k] = e
         /\ \A h \in Keys : h # k => ledger'[h] = ledger[h]
<1>1. ledger \in Seq(LedgerRecords \cup {Nothing}) /\ k \in DOMAIN ledger
  BY DEF DraftTypeOK, Keys
<1>2. ledger \in [1..Len(ledger) -> LedgerRecords \cup {Nothing}] /\ Len(ledger) \in Nat
  BY <1>1
<1>3. ledger' \in [1..Len(ledger) -> LedgerRecords \cup {Nothing}]
  BY <1>1, <1>2
<1> QED
  BY <1>1, <1>2, <1>3 DEF Keys

LEMMA NoCommitInv ==
  ASSUME DraftInv, toMain # <<>>, Request.op = "save", toMain' = Tail(toMain),
         NoCommit(Request), NEW m \in PageMessages, toPage' = Append(toPage, m),
         m.op = "error" \/ m = Outcome(Request),
         UNCHANGED <<page, runs, at, sent, main, closed, lost>>,
         used' \in [{"typed", "saves", "loads", "closes", "others", "faults"} -> Nat],
         used'["others"] = used["others"]
  PROVE  DraftInv'
<1>0. PICK k : k = Request.key
  OBVIOUS
<1>1. /\ k = Request.key /\ toMain' \in Seq(MainMessages) /\ 1 \in DOMAIN toMain /\ Request = toMain[1]
      /\ at = "save" /\ sent = Request /\ Request \in SaveRequests /\ k \in Keys
      /\ Request.content \in Texts /\ Request.expected \in Nat /\ page.dirty
      /\ \A i \in DOMAIN toMain' : ~Waits(toMain'[i])
      /\ \A i \in DOMAIN toPage : ~Waits(toPage[i])
      /\ Applied(k) => last = ledger[k].of[1]
      /\ page.key = k \/ (page.key # Nothing /\ ledger[page.key] = Nothing)
      /\ Waits(Request)
  BY <1>0, SaveIs
<1>2. DraftTypeOK
  BY DEF DraftInv
<1>3. PICK e : e = [of |-> Fingerprint(Request), status |-> "conflict"]
  OBVIOUS
<1>4. /\ ledger[k] # Nothing \/ ~IsCurrent(Request)
      /\ ledger' = IF ledger[k] # Nothing THEN ledger ELSE [ledger EXCEPT ![k] = e]
      /\ UNCHANGED <<store, last, seen>>
  BY <1>0, <1>3 DEF NoCommit
<1>5. /\ e \in LedgerRecords /\ e # Nothing /\ e.status = "conflict"
  BY <1>1, <1>3, NothingIs DEF LedgerRecords, Fingerprint, Fingerprints
<1>6. /\ ledger' \in Seq(LedgerRecords \cup {Nothing}) /\ Keys' = Keys
      /\ \A h \in Keys : ledger'[h] = ledger[h] \/ (h = k /\ ledger[h] = Nothing /\ ledger'[h] = e)
  <2>1. CASE ledger[k] # Nothing
    BY <1>2, <1>4, <2>1 DEF DraftTypeOK, Keys
  <2>2. CASE ledger[k] = Nothing
    <3>1. ledger' = [ledger EXCEPT ![k] = e]
      BY <1>4, <2>2
    <3>2. /\ ledger' \in Seq(LedgerRecords \cup {Nothing}) /\ Keys' = Keys /\ ledger'[k] = e
          /\ \A h \in Keys : h # k => ledger'[h] = ledger[h]
      BY <1>1, <1>2, <1>5, <3>1, EntryIs
    <3> QED
      BY <2>2, <3>2
  <2> QED
    BY <2>1, <2>2
<1>7. /\ toPage' \in Seq(PageMessages)
      /\ \A i \in DOMAIN toPage' : (i \in DOMAIN toPage /\ toPage'[i] = toPage[i]) \/ toPage'[i] = m
  BY StillTold
<1>8. m.op \in {"saved", "conflict", "error"} /\ Waits(m)
      /\ (m.op = "saved" => /\ Applied(k) /\ ledger[k].of = Fingerprint(Request)
                            /\ m.revision = ledger[k].revision)
  BY <1>1, <1>4, OutcomeIs DEF Waits
<1>9. DraftTypeOK'
  BY <1>1, <1>2, <1>4, <1>6, <1>7 DEF DraftTypeOK
<1>10. RunFits'
  BY <1>4 DEF DraftInv, RunFits
<1>11. OneWaits'
  BY <1>1, <1>8, TookMain
<1>12. MessagesFit'
  <2>1. m.op = "saved" => last = sent.content
    <3>1. Fingerprint(Request)[1] = Request.content
      BY DEF Fingerprint
    <3> QED
      BY <1>1, <1>8, <3>1
  <2>2. ToPageFits(m)'
    BY <1>1, <1>4, <1>8, <2>1 DEF ToPageFits
  <2> QED
    BY <1>1, <2>2, NewsFits
<1>13. \A h : Applied(h)' /\ h \in Keys => Applied(h) /\ ledger'[h] = ledger[h]
  BY <1>5, <1>6 DEF Applied
<1>14. LastIsKept'
  <2>1. page.key # k => ledger'[page.key] = Nothing
    BY <1>1, <1>2, <1>6, TypesAre
  <2>2. Applied(k)' => last = ledger'[k].of[1]
    BY <1>1, <1>13
  <2> QED
    BY <1>1, <1>4, <1>6, <2>1, <2>2 DEF DraftInv, LastIsKept, Applied
<1>15. RevisionsKnown'
  <2>1. \A i \in DOMAIN toMain' : toMain'[i].op # "save"
    BY <1>1 DEF Waits
  <2>2. m.op # "loaded" /\ m.op # "reloaded" /\ (m.op = "saved" => Known(m.revision))
    BY <1>1, <1>8 DEF DraftInv, RevisionsKnown
  <2> QED
    BY <1>4, <1>6, <1>7, <1>13, <2>1, <2>2 DEF DraftInv, RevisionsKnown, Known
<1>16. Undisturbed'
  <2>1. used["others"] = 0 /\ ~lost =>
          Request.expected = store.revision /\ ledger[k] = Nothing
    BY <1>1 DEF DraftInv, Undisturbed
  <2> QED
    BY <1>4, <2>1 DEF Undisturbed, IsCurrent
<1> QED
  BY <1>9, <1>10, <1>11, <1>12, <1>14, <1>15, <1>16 DEF DraftInv

LEMMA CommitSaveInv ==
  ASSUME DraftInv, toMain # <<>>, Request.op = "save", toMain' = Tail(toMain),
         CommitSave(Request), NEW m \in PageMessages, toPage' = Append(toPage, m),
         \/ m = Outcome(Request) /\ lost' = lost
         \/ m.op = "error" /\ lost' = TRUE,
         UNCHANGED <<page, runs, at, sent, main, closed>>,
         used' \in [{"typed", "saves", "loads", "closes", "others", "faults"} -> Nat],
         used'["others"] = used["others"]
  PROVE  DraftInv'
<1>0. PICK k : k = Request.key
  OBVIOUS
<1>1. /\ k = Request.key /\ toMain' \in Seq(MainMessages) /\ 1 \in DOMAIN toMain /\ Request = toMain[1]
      /\ at = "save" /\ sent = Request /\ Request \in SaveRequests /\ k \in Keys
      /\ Request.content \in Texts /\ Request.expected \in Nat /\ page.dirty
      /\ \A i \in DOMAIN toMain' : ~Waits(toMain'[i])
      /\ \A i \in DOMAIN toPage : ~Waits(toPage[i])
      /\ page.key = k \/ (page.key # Nothing /\ ledger[page.key] = Nothing)
      /\ Waits(Request)
  BY <1>0, SaveIs
<1>2. DraftTypeOK /\ store.revision \in Nat
  BY TypesAre DEF DraftInv
<1>3. PICK n \in Nat : n = store.revision + 1
  BY <1>2
<1>4. PICK e : e = [of |-> Fingerprint(Request), status |-> "applied", revision |-> n]
  OBVIOUS
<1>5. /\ ledger[k] = Nothing /\ store.revision = Request.expected
      /\ store' = [content |-> Request.content, revision |-> n, by |-> "page"]
      /\ ledger' = [ledger EXCEPT ![k] = e]
      /\ last' = Request.content /\ UNCHANGED seen
  BY <1>0, <1>3, <1>4 DEF CommitSave, IsCurrent
<1>6. /\ e \in LedgerRecords /\ e # Nothing /\ e.status = "applied" /\ e.revision = n
      /\ e.of[1] = Request.content
  BY <1>1, <1>3, <1>4, NothingIs DEF LedgerRecords, Fingerprint, Fingerprints
<1>7. /\ ledger' \in Seq(LedgerRecords \cup {Nothing}) /\ Keys' = Keys /\ ledger'[k] = e
      /\ \A h \in Keys : h # k => ledger'[h] = ledger[h]
  BY <1>1, <1>2, <1>5, <1>6, EntryIs
<1>8. /\ toPage' \in Seq(PageMessages)
      /\ \A i \in DOMAIN toPage' : (i \in DOMAIN toPage /\ toPage'[i] = toPage[i]) \/ toPage'[i] = m
      /\ m.op = "saved" => \E j \in DOMAIN toPage' :
           Told(j)' /\ \A i \in DOMAIN toPage' : j > i \/ (toPage'[i] = m /\ i = j)
  BY StillTold
<1>9. m.op \in {"saved", "error"} /\ Waits(m) /\ (m.op = "saved" => m.revision = n)
      /\ (m.op = "error" => lost')
  BY <1>1, <1>3, <1>5, OutcomeIs DEF Waits, IsCurrent, Applied
<1>10. DraftTypeOK'
  <2>1. lost' \in BOOLEAN
    BY <1>2 DEF DraftTypeOK
  <2> QED
    BY <1>1, <1>2, <1>3, <1>5, <1>7, <1>8, <2>1 DEF DraftTypeOK
<1>11. RunFits'
  BY DEF DraftInv, RunFits
<1>12. OneWaits'
  BY <1>1, <1>9, TookMain
<1>13. MessagesFit'
  <2>1. ToPageFits(m)'
    BY <1>1, <1>5, <1>9 DEF ToPageFits
  <2> QED
    BY <1>1, <2>1, NewsFits
<1>14. LastIsKept'
  <2>1. page.key # k => ledger'[page.key] = Nothing
    BY <1>1, <1>2, <1>7, TypesAre
  <2> QED
    BY <1>1, <1>5, <1>6, <1>7, <2>1 DEF DraftInv, LastIsKept, Applied
<1>15. \A x \in Nat : x <= store.revision => KnownNext(x)
  BY <1>2, <1>3, <1>5 DEF KnownNext
<1>16. KnownNext(n)
  BY <1>3, <1>5 DEF KnownNext
<1>17. RevisionsKnown'
  <2>1. \A i \in DOMAIN toMain' : toMain'[i].op # "save"
    BY <1>1 DEF Waits
  <2>2. \A i \in DOMAIN toPage' :
          /\ toPage'[i].op = "saved" => KnownNext(toPage'[i].revision)
          /\ toPage'[i].op \in {"loaded", "reloaded"} => toPage'[i].revision <= store'.revision
    <3> SUFFICES ASSUME NEW i \in DOMAIN toPage'
                 PROVE  /\ toPage'[i].op = "saved" => KnownNext(toPage'[i].revision)
                        /\ toPage'[i].op \in {"loaded", "reloaded"}
                             => toPage'[i].revision <= store'.revision
      OBVIOUS
    <3>1. CASE toPage'[i] = m
      BY <1>9, <1>16, <3>1
    <3>2. CASE toPage'[i] # m
      <4>1. i \in DOMAIN toPage /\ toPage'[i] = toPage[i] /\ ~Waits(toPage[i])
            /\ toPage[i] \in PageMessages
        BY <1>1, <1>8, <3>2, ChannelsAre
      <4>2. toPage[i].op = "loaded" =>
              toPage[i].revision \in Nat /\ toPage[i].revision <= store.revision
        BY <4>1, PageMessage DEF DraftInv, RevisionsKnown
      <4> QED
        BY <1>2, <1>3, <1>5, <4>1, <4>2 DEF Waits
    <3> QED
      BY <3>1, <3>2
  <2>3. \A h \in Keys : Applied(h)' => KnownNext(ledger'[h].revision)
    <3> SUFFICES ASSUME NEW h \in Keys, Applied(h)' PROVE KnownNext(ledger'[h].revision)
      OBVIOUS
    <3>1. CASE h = k
      BY <1>6, <1>7, <1>16, <3>1
    <3>2. CASE h # k
      <4>1. Applied(h) /\ ledger'[h] = ledger[h] /\ Known(ledger[h].revision)
        BY <1>7, <3>2 DEF Applied, DraftInv, RevisionsKnown
      <4>2. ledger[h].revision \in Nat
        BY <1>2, <4>1, TypesAre DEF Applied, LedgerRecords
      <4> QED
        BY <1>15, <4>1, <4>2 DEF Known
    <3> QED
      BY <3>1, <3>2
  <2>4. KnownNext(page.revision)
    BY <1>2, <1>15, TypesAre DEF DraftInv, RevisionsKnown, Known
  <2> QED
    BY <1>7, <2>1, <2>2, <2>3, <2>4 DEF RevisionsKnown, Known, KnownNext
<1>18. Undisturbed'
  <2> SUFFICES ASSUME used["others"] = 0, ~lost' PROVE Undisturbed'
    BY DEF Undisturbed
  <2>1. m.op = "saved" /\ ~lost /\ m.revision = store'.revision
    BY <1>2, <1>3, <1>5, <1>9 DEF DraftTypeOK
  <2>2. PICK j \in DOMAIN toPage' :
          Told(j)' /\ \A i \in DOMAIN toPage' : j > i \/ (toPage'[i] = m /\ i = j)
    BY <1>8, <2>1
  <2>3. \A i \in DOMAIN toPage' :
          /\ toPage'[i].op # "conflict"
          /\ toPage'[i].revision = store'.revision \/ j > i
    BY <1>1, <1>8, <2>1, <2>2 DEF Waits
  <2>4. \A h \in Keys' : ledger'[h] # Nothing => ledger'[h].status = "applied"
    BY <1>6, <1>7, <2>1 DEF DraftInv, Undisturbed
  <2>5. \A i \in DOMAIN toMain' : toMain'[i].op # "save"
    BY <1>1 DEF Waits
  <2>6. at # "reload" /\ ~page.conflict
    BY <2>1 DEF DraftInv, Undisturbed
  <2> QED
    BY <2>2, <2>3, <2>4, <2>5, <2>6 DEF Undisturbed
<1> QED
  BY <1>10, <1>11, <1>12, <1>13, <1>14, <1>17, <1>18 DEF DraftInv

LEMMA SaveDraftInv ==
  ASSUME DraftInv, SaveDraft
  PROVE  DraftInv'
<1>1. /\ toMain # <<>> /\ Request.op = "save" /\ toMain' = Tail(toMain)
      /\ CommitSave(Request) \/ NoCommit(Request)
      /\ UNCHANGED <<page, runs, at, sent, main, closed>>
  BY DEF SaveDraft, Handles, controller, process
<1>2. DraftTypeOK /\ Request \in SaveRequests /\ Request.key \in Keys /\ store.revision \in Nat
  BY <1>1, SaveIs, TypesAre DEF DraftInv
<1>3. CASE Say(Outcome(Request)) /\ UNCHANGED <<lost, used>>
  <2>1. PICK m \in PageMessages : m = Outcome(Request)
    BY <1>2, OutcomeIs
  <2>2. toPage' = Append(toPage, m)
    BY <1>3, <2>1 DEF Say
  <2>3. /\ used' \in [{"typed", "saves", "loads", "closes", "others", "faults"} -> Nat]
        /\ used'["others"] = used["others"] /\ lost' = lost
    BY <1>2, <1>3 DEF DraftTypeOK
  <2> QED
    BY <1>1, <2>1, <2>2, <2>3, CommitSaveInv, NoCommitInv
<1>4. CASE /\ Say([op |-> "error"]) /\ lost' = (lost \/ store' # store)
           /\ Count("faults", MaxFaults)
  <2>1. PICK m : m = [op |-> "error"]
    OBVIOUS
  <2>2. m \in PageMessages /\ m.op = "error" /\ toPage' = Append(toPage, m)
    BY <1>4, <2>1 DEF Say, PageMessages
  <2>3. /\ used' \in [{"typed", "saves", "loads", "closes", "others", "faults"} -> Nat]
        /\ used'["others"] = used["others"]
    BY <1>2, <1>4, CountIs
  <2>4. CASE CommitSave(Request)
    <3>1. store' # store
      BY <1>2, <2>4 DEF CommitSave
    <3>2. lost' = TRUE
      BY <1>4, <3>1
    <3> QED
      BY <1>1, <2>2, <2>3, <2>4, <3>2, CommitSaveInv
  <2>5. CASE NoCommit(Request)
    <3>1. lost' = lost
      BY <1>2, <1>4, <2>5 DEF NoCommit, DraftTypeOK
    <3> QED
      BY <1>1, <2>2, <2>3, <2>5, <3>1, NoCommitInv
  <2> QED
    BY <1>1, <2>4, <2>5
<1> QED
  BY <1>3, <1>4 DEF SaveDraft

LEMMA SaveRefusedInv ==
  ASSUME DraftInv, SaveRefused
  PROVE  DraftInv'
<1>1. /\ toMain # <<>> /\ Request.op = "save" /\ toMain' = Tail(toMain)
      /\ Count("faults", MaxFaults)
      /\ UNCHANGED <<page, runs, at, sent, store, ledger, main, closed, last, seen, lost>>
  BY DEF SaveRefused, Handles, controller, process, history
<1>2. PICK m : m = [op |-> "error"]
  OBVIOUS
<1>3. m \in PageMessages /\ m.op = "error" /\ toPage' = Append(toPage, m)
  BY <1>2 DEF SaveRefused, Say, PageMessages
<1>4. /\ used' \in [{"typed", "saves", "loads", "closes", "others", "faults"} -> Nat]
      /\ used'["others"] = used["others"]
  BY <1>1, CountIs DEF DraftInv
<1> QED
  BY <1>1, <1>3, <1>4, RefusedInv

LEMMA OnFlushResultInv ==
  ASSUME DraftInv, OnFlushResult
  PROVE  DraftInv'
<1>1. /\ toMain # <<>> /\ Request.op = "done" /\ toMain' = Tail(toMain)
      /\ UNCHANGED <<page, runs, at, sent, toPage, store, ledger, last, seen, lost, used>>
  BY DEF OnFlushResult, Handles, controller, history
<1>2. /\ toMain' \in Seq(MainMessages) /\ 1 \in DOMAIN toMain /\ Request = toMain[1]
      /\ \A i \in DOMAIN toMain' : i + 1 \in DOMAIN toMain /\ toMain'[i] = toMain[i + 1]
  BY <1>1, MainRest
<1>3. DraftTypeOK /\ main \in [current : Nat \cup {Nothing}, armed : BOOLEAN, dialogs : Nat]
  BY DEF DraftInv, DraftTypeOK
<1>4. Request.saved => Request.kept
  BY <1>1, <1>2 DEF DraftInv, MessagesFit, ToMainFits
<1>5. /\ main' \in [current : Nat \cup {Nothing}, armed : BOOLEAN, dialogs : Nat]
      /\ closed' = closed \/ closed' = "saved"
  <2>1. CASE Request.id # main.current
    BY <1>3, <2>1 DEF OnFlushResult, process
  <2>2. CASE Request.id = main.current /\ Request.saved
    BY <1>3, <1>4, <2>2 DEF OnFlushResult, Finish
  <2>3. CASE Request.id = main.current /\ ~Request.saved
    <3>1. PICK n \in Nat : n = main.dialogs + 1
      BY <1>3
    <3>2. main' = [main EXCEPT !.armed = FALSE, !.dialogs = n] /\ closed' = closed
      BY <2>3, <3>1 DEF OnFlushResult
    <3> QED
      BY <1>3, <3>2
  <2> QED
    BY <2>1, <2>2, <2>3
<1>6. DraftTypeOK'
  <2>1. closed' \in {"no", "asked", "saved", "dropped"}
    BY <1>3, <1>5 DEF DraftTypeOK
  <2> QED
    BY <1>1, <1>2, <1>3, <1>5, <2>1 DEF DraftTypeOK, Keys
<1>7. RunFits' /\ LastIsKept'
  BY <1>1, <1>5 DEF DraftInv, RunFits, LastIsKept, Applied, Keys
<1>8. OneWaits'
  BY <1>1, TookMain DEF Waits
<1>9. MessagesFit'
  BY <1>1, <1>2 DEF DraftInv, MessagesFit, ToMainFits, ToPageFits
<1>10. NoNewSaves /\ NoNewNews /\ SameEntries
  BY <1>1, <1>2, <1>3, EntriesStay DEF NoNewSaves, NoNewNews
<1>11. RevisionsKnown'
  <2>1. KnownNext(page'.revision)
    BY <1>1 DEF DraftInv, RevisionsKnown, Known, KnownNext
  <2> QED
    BY <1>1, <1>10, <2>1, RevisionsStayKnown
<1>12. Undisturbed'
  BY <1>1, <1>2 DEF DraftInv, Undisturbed, Told, Keys
<1> QED
  BY <1>6, <1>7, <1>8, <1>9, <1>11, <1>12 DEF DraftInv

-----------------------------------------------------------------------------
(* All steps.                                                               *)

LEMMA InitDraft == DraftInit => DraftInv
<1> SUFFICES ASSUME DraftInit PROVE DraftInv
  OBVIOUS
<1>1. PICK t \in Texts : store = [content |-> t, revision |-> 0, by |-> "other"]
  BY DEF DraftInit
<1>2. /\ page = [content |-> Empty, revision |-> 0, dirty |-> FALSE, conflict |-> FALSE,
                 blocked |-> FALSE, remote |-> Nothing, key |-> Nothing]
      /\ runs = <<>> /\ at = "start" /\ sent = Nothing /\ toMain = <<>> /\ toPage = <<>>
      /\ ledger = <<>> /\ main = [current |-> Nothing, armed |-> FALSE, dialogs |-> 0]
      /\ closed = "no" /\ last = Empty /\ seen = {} /\ lost = FALSE
  BY DEF DraftInit
<1>3. used \in [{"typed", "saves", "loads", "closes", "others", "faults"} -> Nat]
  <2>1. used = [typed |-> 0, saves |-> 0, loads |-> 0, closes |-> 0, others |-> 0, faults |-> 0]
    BY DEF DraftInit
  <2> QED
    BY <2>1
<1>4. DraftTypeOK
  <2>1. /\ toMain \in Seq(MainMessages) /\ toPage \in Seq(PageMessages)
        /\ ledger \in Seq(LedgerRecords \cup {Nothing}) /\ runs \in Seq(Nat \cup {Nothing})
    BY <1>2
  <2> QED
    BY <1>1, <1>2, <1>3, <2>1, NothingIs DEF DraftTypeOK
<1>5. DOMAIN toMain = {} /\ DOMAIN toPage = {} /\ Keys = {}
  BY <1>2 DEF Keys
<1>6. OneWaits
  BY <1>2, <1>5 DEF OneWaits, Underway
<1>7. RunFits /\ MessagesFit /\ LastIsKept /\ RevisionsKnown
  BY <1>1, <1>2, <1>5, NothingIs
  DEF RunFits, MessagesFit, LastIsKept, RevisionsKnown, Known, Applied
<1>8. Undisturbed
  BY <1>1, <1>2, <1>5 DEF Undisturbed
<1> QED
  BY <1>4, <1>6, <1>7, <1>8 DEF DraftInv

LEMMA DraftStep == DraftInv /\ [DraftNext]_draftVars => DraftInv'
<1> SUFFICES ASSUME DraftInv, [DraftNext]_draftVars PROVE DraftInv'
  OBVIOUS
<1>1. CASE UNCHANGED draftVars
  <2>1. UNCHANGED <<page, runs, at, sent, toMain, toPage, store, ledger, main, closed, last,
                    seen, lost, used>>
    BY <1>1 DEF draftVars
  <2> QED
    BY <2>1, WindowInv DEF DraftInv, DraftTypeOK
<1>2. CASE DraftUser
  BY <1>2, SetContentInv, RequestLoadInv, WindowSteps, ResolveKeepLocalInv, ResolveUseRemoteInv,
     OnCloseInv DEF DraftUser
<1>3. CASE Page
  BY <1>3, TurnInv, SaveAppliedInv, SaveConflictsInv, SaveFailsInv, ReloadedInv, ReloadFailsInv,
     LoadedInv, FlushInv DEF Page
<1>4. CASE Main
  BY <1>4, LoadDraftInv, SaveDraftInv, SaveRefusedInv, OnFlushResultInv, WindowSteps DEF Main
<1> QED
  BY <1>1, <1>2, <1>3, <1>4, OtherSavesInv DEF DraftNext

LEMMA DraftAlways == DraftSpec => []DraftInv
BY InitDraft, DraftStep, PTL DEF DraftSpec

(* However typing, saves, loads, conflicts, other clients, lost answers and   *)
(* requests to close interleave: one save is in flight, its run is the one    *)
(* that waits, and the page conflicts only when another client saved or the   *)
(* answer of a committed save was lost (DraftController.save, commitDraftSave).*)
THEOREM DraftStaysConsistent == DraftSpec => []DraftConsistent
<1>1. DraftInv => DraftConsistent
  <2> SUFFICES ASSUME DraftInv PROVE DraftConsistent
    OBVIOUS
  <2>1. page.conflict => used.others > 0 \/ lost
    BY DEF DraftInv, Undisturbed, DraftTypeOK
  <2> QED
    BY <2>1 DEF DraftInv, DraftConsistent, RunFits, OneWaits
<1> QED
  BY <1>1, DraftAlways, PTL

(* A window that closes without asking has its text in the row               *)
(* (CloseController with DraftController.flush).                             *)
THEOREM ClosingKeepsTheText == DraftSpec => []CloseKeepsText
<1>1. DraftInv => CloseKeepsText
  BY DEF DraftInv, LastIsKept, CloseKeepsText
<1> QED
  BY <1>1, DraftAlways, PTL

(* The page replaces the text of another client only after it was given that  *)
(* very revision (the expected revision of commitDraftSave).                 *)
THEOREM NothingOverwrittenBlindly == DraftSpec => NoBlindOverwrite
<1>1. ASSUME DraftInv, [DraftNext]_draftVars,
             store.by = "other", store'.by = "page", store.revision > 0
      PROVE  store.revision \in seen
  <2>1. store' # store
    BY <1>1
  <2>2. SaveDraft
    <3>1. DraftUser \/ Page \/ LoadDraft \/ SaveRefused \/ OnFlushResult \/ OnTimeout
            \/ ConfirmForceQuit \/ UNCHANGED draftVars => store' = store
      BY DEF DraftUser, SetContent, RequestLoad, Save, ResolveKeepLocal, ResolveUseRemote, OnClose,
             Page, Turn, SaveApplied, SaveConflicts, SaveFails, Reloaded, ReloadFails, Loaded,
             Flush, LoadDraft, SaveRefused, OnFlushResult, OnTimeout, ConfirmForceQuit, draftVars
    <3>2. ~OtherSaves
      BY <1>1 DEF OtherSaves
    <3> QED
      BY <1>1, <2>1, <3>1, <3>2 DEF DraftNext, Main
  <2>3. /\ toMain # <<>> /\ Request.op = "save" /\ toMain' = Tail(toMain)
        /\ CommitSave(Request) \/ store' = store
    BY <2>2 DEF SaveDraft, Handles, NoCommit
  <2>4. Request.expected = store.revision /\ Known(Request.expected)
    BY <1>1, <2>1, <2>3, SaveIs DEF CommitSave, IsCurrent, DraftInv, RevisionsKnown
  <2> QED
    BY <1>1, <2>4 DEF Known
<1> QED
  BY <1>1, DraftAlways, PTL DEF DraftSpec, NoBlindOverwrite
================================================================================
