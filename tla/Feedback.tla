-------------------------------- MODULE Feedback --------------------------------
(***************************************************************************)
(* Feedback on lessons that were taught (feedback/service.ts, its tables in  *)
(* db/sqliteStore.ts, the handlers of ipc.ts and the page of App.tsx):       *)
(* teaching events, observations and their deletion, the analysis that       *)
(* awaits the model, the correction it proposes and the decisions on it.     *)
(*                                                                         *)
(* Every plan has a stream with a revision.  The page sends the revision it  *)
(* shows; while one request waits, others change the stream, and the user    *)
(* may open another plan, whose page a late answer then writes to.           *)
(*                                                                         *)
(* Identities are numbers, given out in order.  A lesson has one revision:   *)
(* an event of another revision is refused like one of another plan.         *)
(***************************************************************************)
EXTENDS Naturals, FiniteSets

CONSTANTS
    Plans, None,
    Qualities,       \* what may be recorded of an observation
    MaxTeachings, MaxObservations, MaxAnalyses, MaxCrashes,   \* bounds
    MaxTaught,       \* bound: events of one plan
    MaxPending       \* bound: requests that wait at the same time as an analysis

ASSUME BoundAssumption ==
    {MaxTeachings, MaxObservations, MaxAnalyses, MaxCrashes, MaxTaught, MaxPending} \subseteq Nat

(* The checks of a measurement and the conditions of the teaching. *)
QualityRecords ==
    [aligned : BOOLEAN, covered : BOOLEAN, conditions : {"unknown", "same", "independent later"}]

ASSUME QualityAssumption == Qualities \subseteq QualityRecords

VARIABLES
    revision,     \* feedback_stream
    teaching,     \* teaching_event: the plan of each
    observation,  \* learning_observation; a deleted one stays for those who showed it
    tombstones,   \* observation_tombstone
    answers,      \* observations whose text an answer in feedback_idempotency holds
    analysis,     \* attribution_run and the keys of feedback.analyze
    proposal,     \* correction_proposal
    evidence,     \* effect_evidence_event: at most one decision carries it
    screen,       \* renderer: what the page shows
    request,      \* renderer: what each handler awaits
    ref,          \* renderer: analysisRequestRef
    crashes

stream == <<revision, teaching, observation, tombstones, answers, proposal, evidence>>
vars == <<stream, analysis, screen, request, ref, crashes>>

-----------------------------------------------------------------------------
Teachings == 1..MaxTeachings
Observations == 1..MaxObservations
Analyses == 1..MaxAnalyses
Handlers == {"record", "observe", "analyze", "correct"}

ObservationRecords == [plan : Plans, teaching : Teachings, quality : QualityRecords]
AnalysisRecords ==
    [plan : Plans, basis : SUBSET Observations, begun : Nat,
     run : {"none", "running", "succeeded", "unattributed", "stale"},
     key : {"running", "failed", "succeeded"}]
ProposalRecords ==
    [plan : Plans, basis : SUBSET Observations, decisions : 0..2,
     status : {"proposed", "accepted", "rejected", "reverted"}]

ASSUME NoneAssumption == None \notin Plans \cup AnalysisRecords \cup ProposalRecords

Live == {o \in Observations : observation[o] # None /\ o \notin tombstones}
LiveOf(p) == {o \in Live : observation[o].plan = p}
TeachingsOf(p) == {t \in Teachings : teaching[t] = p}
Cards(p) ==
    {[analysis |-> a, status |-> proposal[a].status, decisions |-> proposal[a].decisions] :
       a \in {a \in Analyses : proposal[a] # None /\ proposal[a].plan = p}}
Latest(set) == CHOOSE x \in set : \A y \in set : y <= x
Fresh(f, x) == f[x] = None /\ \A y \in DOMAIN f : f[y] = None => x <= y
EmptyScreen == [plan |-> None, revision |-> 0, teachings |-> {}, list |-> {}, cards |-> {}]

Init ==
    /\ revision = [p \in Plans |-> 0]
    /\ teaching = [t \in Teachings |-> None]
    /\ observation = [o \in Observations |-> None]
    /\ tombstones = {} /\ answers = {}
    /\ analysis = [a \in Analyses |-> None]
    /\ proposal = [a \in Analyses |-> None] /\ evidence = [a \in Analyses |-> None]
    /\ screen = EmptyScreen
    /\ request = [h \in Handlers |-> None] /\ ref = None
    /\ crashes = 0

-----------------------------------------------------------------------------
(* Rules.                                                                   *)

(* reviewMeasurement: every check passes.  Scoring is available with a task  *)
(* that is aligned, and the conditions of the teaching are always recorded.  *)
ReadyForAttribution(set) ==
    /\ set # {}
    /\ \A o \in set : LET q == observation[o].quality IN
                      q.aligned /\ q.covered /\ q.conditions # "unknown"

(* buildAttributionContext: the model is told of these, by their identities, *)
(* and its answer is valid when it names only such (and breaks no other rule *)
(* of the contract, which is a choice here).                                 *)
Context(a) == analysis[a].basis
ValidBases(a) == SUBSET Context(a) \ {{}}

(* canPromoteEffect, of the observations and conditions of an event.         *)
CanPromote(set, conditions) == Cardinality(set) >= 2 /\ "independent later" \in conditions

(* applyEffectEvidence throws otherwise.                                     *)
Applies(e) == e.state = "repeated_support" => CanPromote(e.observations, e.conditions)

(* createEffectEvidenceEvent, of live observations of the plan.  The states  *)
(* other than repeated support are one here.                                 *)
ConditionsOf(set) == {observation[o].quality.conditions : o \in set}

EvidenceOn(p) ==
    {e \in {[state |-> s, observations |-> set, conditions |-> ConditionsOf(set)] :
             s \in {"repeated_support", "other"}, set \in SUBSET LiveOf(p) \ {{}}} : Applies(e)}

(* getFeedbackCorrectionHistory applies the events as they were recorded.    *)
Replayed(e) == e

(* deriveCorrectionStatus *)
Decided(status, action) ==
    CASE action = "accept" /\ status = "proposed" -> "accepted"
      [] action = "reject" /\ status = "proposed" -> "rejected"
      [] action = "revert" /\ status = "accepted" -> "reverted"
      [] OTHER -> "invalid"

-----------------------------------------------------------------------------
(* Requests of the page.                                                    *)

Idle(h) ==
    /\ request[h] = None /\ screen.plan # None
    /\ h # "analyze" =>
         Cardinality({g \in Handlers \ {"analyze"} : request[g] # None}) < MaxPending
Answer(h, p, number) ==
    request' = [request EXCEPT ![h] = [step |-> "answered", plan |-> p, revision |-> number]]
(* The page only says so, or loads what the plan has become. *)
Refused(h) == request' = [request EXCEPT ![h] = None] /\ UNCHANGED stream
Conflict(h, p) ==
    request' = [request EXCEPT ![h] = [step |-> "loading", plan |-> p, saved |-> FALSE]]
    /\ UNCHANGED stream

(* Mutant: a write that does not advance the stream. *)
CommitSilently(h, p) == Answer(h, p, revision[p]) /\ UNCHANGED revision

Commit(h, p) ==
    /\ revision' = [revision EXCEPT ![p] = @ + 1]
    /\ Answer(h, p, revision[p] + 1)

Seen(p) == screen.revision = revision[p]

Committing(h, p, stores) ==
    \/ ~Seen(p) /\ Conflict(h, p)
    \/ Seen(p) /\ Commit(h, p) /\ stores

StoreTeaching(t, p) ==
    /\ teaching' = [teaching EXCEPT ![t] = p]
    /\ UNCHANGED <<observation, tombstones, answers, proposal, evidence>>

(* plans.recordTeaching.  The page has checked what createTeachingEvent asks. *)
RecordTeaching(t) ==
    /\ Idle("record") /\ Fresh(teaching, t) /\ Cardinality(TeachingsOf(screen.plan)) < MaxTaught
    /\ Committing("record", screen.plan, StoreTeaching(t, screen.plan))
    /\ UNCHANGED <<analysis, screen, ref, crashes>>

(* buildObservationPrompt: an event is asked about until one is shown for it. *)
Offered(t) ==
    /\ screen.teachings # {} /\ t = Latest(screen.teachings)
    /\ \A o \in screen.list : observation[o].teaching # t

(* createObservationRecord: the text names a person, or a share of a sample. *)
Unacceptable(h) == Refused(h)

(* Mutant: the event need not be one of the plan. *)
TeachesAny(t, p) == teaching[t] # None

Teaches(t, p) == teaching[t] = p

(* The answer under the key of the request holds the record as well. *)
StoreObservation(o, record) ==
    /\ observation' = [observation EXCEPT ![o] = record]
    /\ answers' = answers \cup {o}
    /\ UNCHANGED <<teaching, tombstones, proposal, evidence>>

ObservationsAdd(o, record) ==
    \/ Unacceptable("observe")
    \/ ~Teaches(record.teaching, record.plan) /\ Refused("observe")
    \/ /\ Teaches(record.teaching, record.plan)
       /\ Committing("observe", record.plan, StoreObservation(o, record))

SaveObservation(o, t, q) ==
    /\ Idle("observe") /\ Fresh(observation, o) /\ Offered(t)
    /\ ObservationsAdd(o, [plan |-> screen.plan, teaching |-> t, quality |-> q])
    /\ UNCHANGED <<analysis, screen, ref, crashes>>

(* observations.prepareDelete: the dialog opens if the plan has it. *)
PrepareDelete(o) ==
    /\ Idle("observe") /\ o \in screen.list
    /\ IF o \in LiveOf(screen.plan)
       THEN request' = [request EXCEPT !["observe"] =
              [step |-> "dialog", plan |-> screen.plan, revision |-> screen.revision,
               observation |-> o]]
       ELSE request' = request
    /\ UNCHANGED <<stream, analysis, screen, ref, crashes>>

(* The user declines, or gets a token, which is spent before or after it     *)
(* lapses.                                                                   *)
Confirm(step) ==
    /\ request["observe"] # None /\ request["observe"].step = "dialog"
    /\ request' = [request EXCEPT !["observe"] =
         IF step = "declined" THEN None ELSE [@ EXCEPT !.step = step]]
    /\ UNCHANGED <<stream, analysis, screen, ref, crashes>>

StoreDeletion(o) ==
    /\ tombstones' = tombstones \cup {o}
    /\ UNCHANGED <<observation, teaching, answers, proposal, evidence>>

(* observations.delete, with the revision the page showed before the dialog. *)
DeleteObservation ==
    LET r == request["observe"] p == r.plan valid == r.step = "confirmed" IN
    /\ r # None /\ r.step \in {"confirmed", "lapsed"}
    /\ \/ ~(valid /\ r.observation \in LiveOf(p)) /\ Refused("observe")
       \/ /\ valid /\ r.observation \in LiveOf(p)
          /\ \/ r.revision # revision[p] /\ Conflict("observe", p)
             \/ /\ r.revision = revision[p]
                /\ Commit("observe", p) /\ StoreDeletion(r.observation)
    /\ UNCHANGED <<analysis, screen, ref, crashes>>

-----------------------------------------------------------------------------
(* The analysis.                                                            *)

Shown ==
    LET t == Latest(screen.teachings) IN
    [plan |-> screen.plan, teaching |-> t, revision |-> screen.revision,
     observations |-> {o \in screen.list : observation[o].teaching = t}]

(* beginFeedbackAnalysis: a measurement that is not ready ends the analysis. *)
BeginAnalysis(a, p, basis) ==
    LET ready == ReadyForAttribution(basis) IN
    /\ revision' = [revision EXCEPT ![p] = @ + 1]
    /\ analysis' = [analysis EXCEPT ![a] =
         [plan |-> p, basis |-> basis, begun |-> revision[p] + 1,
          run |-> IF ready THEN "running" ELSE "none",
          key |-> IF ready THEN "running" ELSE "succeeded"]]
    /\ IF ready
       THEN request' = [request EXCEPT !["analyze"] =
              [step |-> "waiting", plan |-> p, analysis |-> a]]
       ELSE Answer("analyze", p, revision[p] + 1)
    /\ UNCHANGED <<teaching, observation, tombstones, answers, proposal, evidence>>

(* analyzeInternal up to its await.  A key that was sent before is still     *)
(* running or has failed.                                                    *)
AnalyzeInternal(a, p, t, basis) ==
    LET known == Teaches(t, p) /\ basis \subseteq LiveOf(p) IN
    \/ ~known /\ Refused("analyze") /\ UNCHANGED analysis
    \/ /\ known /\ analysis[a] # None /\ UNCHANGED analysis
       /\ IF analysis[a].key = "failed" THEN Refused("analyze") ELSE Conflict("analyze", p)
    \/ known /\ analysis[a] = None /\ ~Seen(p) /\ Conflict("analyze", p) /\ UNCHANGED analysis
    \/ known /\ analysis[a] = None /\ Seen(p) /\ BeginAnalysis(a, p, basis)

(* The page repeats a key while what it shows is the same.                   *)
Analyze(a) ==
    LET repeated == ref # None /\ ref.signed = Shown IN
    /\ Idle("analyze") /\ screen.teachings # {}
    /\ IF repeated THEN a = ref.analysis ELSE Fresh(analysis, a)
    /\ ref' = [analysis |-> a, signed |-> Shown]
    /\ AnalyzeInternal(a, Shown.plan, Shown.teaching, Shown.observations)
    /\ UNCHANGED <<screen, crashes>>

Awaited(a) ==
    /\ request["analyze"] # None /\ request["analyze"].step = "waiting"
    /\ request["analyze"].analysis = a

(* Mutant: the answer is kept whatever the stream has become. *)
AnySince(a) == TRUE

UnchangedSince(a) == revision[analysis[a].plan] = analysis[a].begun

(* finishFeedbackAnalysis, when the stream has moved on. *)
Stale(a) ==
    /\ Awaited(a) /\ ~UnchangedSince(a)
    /\ analysis' = [analysis EXCEPT ![a].run = "stale", ![a].key = "failed"]
    /\ Conflict("analyze", analysis[a].plan)
    /\ UNCHANGED <<screen, ref, crashes>>

(* buildCorrectionProposal *)
ProposalOn(p, basis) == [plan |-> p, basis |-> basis, status |-> "proposed", decisions |-> 0]

(* A valid answer: the first hypothesis becomes a proposal. *)
Attribute(a, basis) ==
    LET p == analysis[a].plan IN
    /\ Awaited(a) /\ UnchangedSince(a)
    /\ basis \in ValidBases(a)
    /\ proposal' = [proposal EXCEPT ![a] = ProposalOn(p, basis)]
    /\ analysis' = [analysis EXCEPT ![a].run = "succeeded", ![a].key = "succeeded"]
    /\ Commit("analyze", p)
    /\ UNCHANGED <<teaching, observation, tombstones, answers, evidence, screen, ref, crashes>>

(* No usable answer: the call was blocked, its outcome is uncertain, it      *)
(* failed, or what it said breaks the contract.  The four statuses of the    *)
(* run are one here.                                                         *)
EndWithout(a) ==
    /\ Awaited(a) /\ UnchangedSince(a)
    /\ analysis' = [analysis EXCEPT ![a].run = "unattributed", ![a].key = "succeeded"]
    /\ Answer("analyze", analysis[a].plan, analysis[a].begun)
    /\ UNCHANGED <<stream, screen, ref, crashes>>

(* The call rejects, or buildCorrectionProposal throws: nothing is finished. *)
AnalysisThrows(a) ==
    /\ Awaited(a) /\ Refused("analyze")
    /\ UNCHANGED <<analysis, screen, ref, crashes>>

-----------------------------------------------------------------------------
(* Decisions.                                                               *)

(* commitCorrectionDecision, one transaction: what the proposal rests on     *)
(* must still be there.                                                      *)
Grounds(a, p) == proposal[a].plan = p /\ proposal[a].basis \subseteq LiveOf(p)

StoreDecision(a, status, effect) ==
    /\ proposal' = [proposal EXCEPT ![a].status = status, ![a].decisions = @ + 1]
    /\ evidence' = IF effect = None THEN evidence ELSE [evidence EXCEPT ![a] = effect]
    /\ UNCHANGED <<teaching, observation, tombstones, answers>>

CommitCorrection(card, p, action, effect) ==
    LET a == card.analysis status == Decided(proposal[a].status, action) IN
    \/ ~Seen(p) /\ Conflict("correct", p)
    \/ Seen(p) /\ ~Grounds(a, p) /\ Refused("correct")
    \/ /\ Seen(p) /\ Grounds(a, p)
       /\ IF proposal[a].decisions # card.decisions \/ status = "invalid"
          THEN Conflict("correct", p)
          ELSE Commit("correct", p) /\ StoreDecision(a, status, effect)

(* buildCorrectionCard *)
CanDecide(card, action) == Decided(card.status, action) # "invalid"

(* The page of this commit sends no evidence; the handler takes it.          *)
DecideCorrection(card, action, effect) ==
    /\ Idle("correct") /\ card \in screen.cards /\ CanDecide(card, action)
    /\ action = "revert" => effect = None
    /\ CommitCorrection(card, screen.plan, action, effect)
    /\ UNCHANGED <<analysis, screen, ref, crashes>>

-----------------------------------------------------------------------------
(* Answers reach the page.                                                  *)

(* The revision of the answer is shown whatever plan is open by now. *)
Answered(h) ==
    LET r == request[h] IN
    /\ r # None /\ r.step = "answered"
    /\ screen' = [screen EXCEPT !.revision = r.revision]
    /\ request' = [request EXCEPT ![h] = [step |-> "loading", plan |-> r.plan, saved |-> TRUE]]
    /\ ref' = IF h = "analyze" THEN None ELSE ref
    /\ UNCHANGED <<stream, analysis, crashes>>

(* loadFeedbackHistory; after an observation was saved or deleted,           *)
(* loadObservations.                                                         *)
Load(h) ==
    LET p == request[h].plan IN
    /\ request[h] # None /\ request[h].step = "loading"
    /\ screen' = IF h = "observe" /\ request[h].saved
                 THEN [screen EXCEPT !.list = LiveOf(p)]
                 ELSE [screen EXCEPT !.revision = revision[p], !.teachings = TeachingsOf(p),
                                     !.cards = Cards(p)]
    /\ request' = [request EXCEPT ![h] = None]
    /\ UNCHANGED <<stream, analysis, ref, crashes>>

(* openPlan: the page belongs to the plan before its history arrives. *)
OpenPlan(p) ==
    /\ screen' = [screen EXCEPT !.plan = p, !.list = {}]
    /\ screen' # screen /\ ref' = None
    /\ UNCHANGED <<stream, analysis, request, crashes>>

OpenLoaded ==
    LET p == screen.plan IN
    /\ p # None
    /\ screen' = [plan |-> p, revision |-> revision[p], teachings |-> TeachingsOf(p),
                  list |-> LiveOf(p), cards |-> Cards(p)]
    /\ screen' # screen
    /\ UNCHANGED <<stream, analysis, request, ref, crashes>>

(* While an analysis is awaited: elsewhere only the page is lost. *)
Crash ==
    /\ request["analyze"] # None /\ request["analyze"].step = "waiting"
    /\ crashes < MaxCrashes /\ crashes' = crashes + 1
    /\ screen' = EmptyScreen /\ request' = [h \in Handlers |-> None] /\ ref' = None
    /\ UNCHANGED <<stream, analysis>>

-----------------------------------------------------------------------------
ModelAnswers(a) ==
    \/ Stale(a)
    \/ \E basis \in SUBSET Observations : Attribute(a, basis)
    \/ EndWithout(a)
    \/ AnalysisThrows(a)

User ==
    \/ \E t \in Teachings : RecordTeaching(t)
    \/ \E o \in Observations, t \in Teachings, q \in Qualities : SaveObservation(o, t, q)
    \/ \E o \in Observations : PrepareDelete(o)
    \/ \E step \in {"confirmed", "lapsed", "declined"} : Confirm(step)
    \/ \E a \in Analyses : Analyze(a)
    \/ \E card \in screen.cards, action \in {"accept", "reject", "revert"} :
         \E effect \in {None} \cup EvidenceOn(screen.plan) : DecideCorrection(card, action, effect)
    \/ \E p \in Plans : OpenPlan(p)

Next ==
    \/ User \/ DeleteObservation \/ OpenLoaded \/ Crash
    \/ \E a \in Analyses : ModelAnswers(a)
    \/ \E h \in Handlers : Answered(h) \/ Load(h)

Spec == Init /\ [][Next]_vars

-----------------------------------------------------------------------------
(* Properties.                                                              *)

PlanOrNone == Plans \cup {None}
Optional(set) == set \cup {None}

TypeOK ==
    /\ revision \in [Plans -> Nat] /\ teaching \in [Teachings -> PlanOrNone]
    /\ observation \in [Observations -> Optional(ObservationRecords)]
    /\ tombstones \subseteq answers /\ answers \subseteq Observations
    /\ analysis \in [Analyses -> Optional(AnalysisRecords)]
    /\ proposal \in [Analyses -> Optional(ProposalRecords)]
    /\ screen.plan \in PlanOrNone /\ crashes \in 0..MaxCrashes

(* Everything recorded belongs to one plan, although the page may show the   *)
(* events, the cards and the revision of a plan that is no longer open: an   *)
(* observation to its event, an analysis and its proposal to what they rest  *)
(* on.                                                                       *)
BindsOnePlan ==
    /\ \A o \in Live : teaching[observation[o].teaching] = observation[o].plan
    /\ \A a \in Analyses : analysis[a] # None =>
         \A o \in analysis[a].basis : observation[o].plan = analysis[a].plan
    /\ \A a \in Analyses : proposal[a] # None =>
         proposal[a].basis \subseteq analysis[a].basis /\ proposal[a].plan = analysis[a].plan

(* The history of a plan can always be read: what was recorded as repeated   *)
(* support still is when the events are applied again, observations having   *)
(* been deleted since (applyEffectEvidence throws otherwise, and the whole   *)
(* history with it).                                                         *)
HistoryReplays ==
    \A a \in Analyses : evidence[a] # None => Applies(Replayed(evidence[a]))

FeedbackConsistent == TypeOK /\ BindsOnePlan /\ HistoryReplays

ContentOf(p) ==
    <<TeachingsOf(p), LiveOf(p), Cards(p),
      {<<a, evidence[a]>> : a \in {a \in Analyses : proposal[a] # None /\ proposal[a].plan = p}}>>

(* The revision of a stream tells its contents: whatever changes them also   *)
(* advances it, by one, so that nobody who saw another revision can write.   *)
(* An analysis that ends, hours later, is no exception.                      *)
WritesAdvanceTheStream ==
    [][\A p \in Plans :
         /\ ContentOf(p)' # ContentOf(p) => revision'[p] = revision[p] + 1
         /\ revision'[p] \in {revision[p], revision[p] + 1}]_vars

(* A proposal appears only while all it rests on is still there, nothing     *)
(* having been written since its analysis began; and it is decided on only   *)
(* while that is so, although observations may be deleted in between.        *)
ProposalsRestOnEvidence ==
    [][\A a \in Analyses : proposal'[a] # proposal[a] =>
         /\ proposal'[a].basis \subseteq Live
         /\ proposal[a] = None => revision[proposal'[a].plan] = analysis[a].begun]_vars

(* feedbackKnowledgeState *)
KnowledgeState(p) ==
    IF LiveOf(p) # {} THEN "observed"
    ELSE IF \E o \in tombstones : observation[o].plan = p THEN "deleted" ELSE "unknown"

(* The deletion of an observation does not turn "was observed" into "was     *)
(* never observed".                                                          *)
DeletionIsNotForgotten ==
    [][\A p \in Plans : KnowledgeState(p) # "unknown" => KnowledgeState(p)' # "unknown"]_vars

(* What a proposal rests on, and that there was something, is never lost.     *)
EvidenceIsKept == ProposalsRestOnEvidence /\ DeletionIsNotForgotten
=============================================================================
