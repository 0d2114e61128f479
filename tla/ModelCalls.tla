------------------------------ MODULE ModelCalls ------------------------------
(***************************************************************************)
(* Calls to the cloud model: ModelService (model/service.ts), the rows of   *)
(* model_job that carry its budget (db/sqliteStore.ts) and the provider.    *)
(*                                                                         *)
(* A request is what cacheKey identifies.  A call is one run of execute:    *)
(* it checks its request and reserves its worst cost in one synchronous     *)
(* stretch, then waits for the provider, a timer or a back-off, and         *)
(* anything may happen in between: a cancellation, another request, the     *)
(* deletion of the source it quotes, a failed write, the end of the         *)
(* process.  The estimate of an attempt bounds nothing: a result is settled *)
(* at the cost its provider reports, which may be above the reservation.    *)
(***************************************************************************)
EXTENDS Naturals, FiniteSets, Functions

CONSTANTS
    Calls,       \* job identifiers
    Requests,    \* cache keys
    Sources,     \* source versions
    SourceOf,    \* what a request quotes: a source, or NoSource
    NoSource,    \* the request of runStructuredAttribution quotes none
    Caps,        \* the budget caps a teacher configures; 0 is none
    PerCall,     \* the estimated cost of one attempt
    Reported,    \* what a provider may report for an attempt
    MaxRetries,  \* MAX_RETRIES
    MaxFaults,   \* bound: restarts and failing writes in a behaviour
    NoCall, NoRow

ASSUME RequestAssumption == SourceOf \in [Requests -> Sources \cup {NoSource}]
ASSUME CostAssumption ==
    /\ Caps \subseteq Nat /\ Reported \subseteq Nat
    /\ PerCall \in Nat /\ MaxRetries \in Nat /\ MaxFaults \in Nat
ASSUME SentinelAssumption == NoCall \notin Calls \cup Requests /\ NoSource \notin Sources

VARIABLES
    config,     \* model_config: the cap, and whether the network may be used
    source,     \* status and classification of every source version
    row,        \* model_job: status and cost of every call
    call,       \* memory: the step of every execute and its cancel signal
    inflight,   \* memory: the call that runs a request
    billed,     \* history: the attempts of a call that may have been billed
    faults      \* history: restarts and failed writes so far

vars == <<config, source, row, call, inflight, billed, faults>>

-----------------------------------------------------------------------------
Statuses == {"running", "succeeded", "failed", "uncertain", "cancelled"}
Phases == {"unused", "waiting", "backoff", "done"}
Unused == [phase |-> "unused", request |-> NoCall, attempt |-> 0, cancelled |-> FALSE]

(* Every attempt counts with its estimate. *)
Reservation == PerCall * (MaxRetries + 1)

(* budgetSpentCents leaves the cancelled jobs out. *)
Counted == {c \in Calls : row[c] # NoRow /\ row[c].status # "cancelled"}
BudgetSpent == SumFunction([c \in Counted |-> row[c].cost])

Quotes(request, s) == SourceOf[request] = s
CachedJob(request) ==
    \E c \in Calls : /\ row[c] # NoRow /\ row[c].status = "succeeded"
                     /\ call[c].request = request

Init ==
    /\ config \in [cap : Caps, network : BOOLEAN]
    /\ source = [s \in Sources |-> "active"]
    /\ row = [c \in Calls |-> NoRow]
    /\ call = [c \in Calls |-> Unused]
    /\ inflight = [r \in Requests |-> NoCall]
    /\ billed = [c \in Calls |-> 0]
    /\ faults = 0

Forgotten(c) == [phase |-> "done", request |-> call[c].request, attempt |-> 0,
                 cancelled |-> FALSE]

Fault == faults < MaxFaults /\ faults' = faults + 1

(* model.configure *)
Configure ==
    /\ config' \in [cap : Caps, network : BOOLEAN]
    /\ UNCHANGED <<source, row, call, inflight, billed, faults>>

-----------------------------------------------------------------------------
(* run and runStructuredAttribution, up to the dispatch of the first        *)
(* attempt: there is no await before it.                                    *)

(* buildCitations: only an active, non-sensitive version may be quoted. *)
WithinBoundary(request) ==
    SourceOf[request] # NoSource => source[SourceOf[request]] = "active"

(* Mutant: only what is already spent is compared with the cap. *)
CanReserveBlindly == config.cap > 0 => BudgetSpent <= config.cap

CanReserve == config.cap > 0 => BudgetSpent + Reservation <= config.cap

Run(request, c) ==
    /\ call[c].phase = "unused"
    /\ WithinBoundary(request) /\ ~CachedJob(request) /\ inflight[request] = NoCall
    /\ config.network /\ CanReserve
    /\ row' = [row EXCEPT ![c] = [status |-> "running", cost |-> Reservation]]
    /\ call' = [call EXCEPT ![c] = [phase |-> "waiting", request |-> request,
                                    attempt |-> 0, cancelled |-> FALSE]]
    /\ inflight' = [inflight EXCEPT ![request] = c]
    /\ UNCHANGED <<config, source, billed, faults>>

Live(c) == call[c].phase \in {"waiting", "backoff"}

(* model.cancel, and the abort it sends to the transport. *)
Cancel(c) ==
    /\ Live(c) /\ call' = [call EXCEPT ![c].cancelled = TRUE]
    /\ UNCHANGED <<config, source, row, inflight, billed, faults>>

-----------------------------------------------------------------------------
(* updateModelJob changes a row, and never brings back a deleted one.       *)
Update(c, status, cost) ==
    row' = IF row[c] = NoRow THEN row
           ELSE [row EXCEPT ![c] = [status |-> status, cost |-> cost]]

Reserved(c) == IF row[c] = NoRow THEN Reservation ELSE row[c].cost

(* cleanup forgets the signal. *)
Leaves(c) ==
    /\ call' = [call EXCEPT ![c] = Forgotten(c)]
    /\ inflight' = [inflight EXCEPT ![call[c].request] = NoCall]

Settle(c, status, cost) ==
    Update(c, status, cost) /\ Leaves(c) /\ UNCHANGED <<config, source, faults>>

Bill(c) == billed' = [billed EXCEPT ![c] = @ + 1]

(* The provider answers: a complete result that honours the contract, or    *)
(* one that does not.  It is settled at what the provider reports of this   *)
(* attempt, or without usage at the reservation.                            *)
Answer(c) ==
    /\ call[c].phase = "waiting" /\ Bill(c)
    /\ IF call[c].cancelled THEN Settle(c, "cancelled", Reserved(c))
       ELSE \E status \in {"succeeded", "failed"}, cost \in Reported \cup {Reservation} :
               Settle(c, status, cost)

Transient == {"NETWORK_UNAVAILABLE", "RATE_LIMITED"}
NotCharged == {"AUTH_FAILED", "RATE_LIMITED"}
DispatchedUnknown == {"NETWORK_UNAVAILABLE", "MODEL_NOT_AVAILABLE", "INCOMPLETE"}

(* How the DeepSeek adapter fails: by status, by transport, by a body that   *)
(* cannot be read, or by a stream that ends early, breaks off with an error  *)
(* of its own, or meets the cancel signal at its next piece.                *)
HttpError == [unauthorized |-> "AUTH_FAILED", limited |-> "RATE_LIMITED",
              server |-> "NETWORK_UNAVAILABLE", other |-> "MODEL_NOT_AVAILABLE"]
StreamErrors(c) ==
    {"INCOMPLETE", "unexpected"} \cup {code \in {"cancelled"} : call[c].cancelled}
ProviderErrors(c) ==
    Range(HttpError) \cup {"NETWORK_UNAVAILABLE", "MODEL_NOT_AVAILABLE"} \cup StreamErrors(c)

FinalError(c, code) ==
    \/ code = "cancelled" /\ Settle(c, "cancelled", Reserved(c))
    \/ code \in DispatchedUnknown /\ Settle(c, "uncertain", Reserved(c))
    \/ code \in NotCharged /\ Settle(c, "failed", 0)
    \/ code = "unexpected" /\ Settle(c, "failed", Reserved(c))

(* The provider throws; an abort surfaces as a network failure or as an      *)
(* unexpected error of the stream.                                          *)
ProviderFails(c) ==
    /\ call[c].phase = "waiting"
    /\ \E code \in ProviderErrors(c) :
          /\ IF code \in NotCharged THEN UNCHANGED billed ELSE Bill(c)
          /\ IF code \in Transient /\ call[c].attempt < MaxRetries
             THEN /\ call' = [call EXCEPT ![c].phase = "backoff"]
                  /\ UNCHANGED <<config, source, row, inflight, faults>>
             ELSE FinalError(c, code)

(* withTimeout: what the provider did with the attempt is unknown.          *)
Timeout(c) ==
    /\ call[c].phase = "waiting"
    /\ Bill(c) /\ Settle(c, "uncertain", Reserved(c))

Dispatch(c) ==
    /\ call' = [call EXCEPT ![c].phase = "waiting", ![c].attempt = @ + 1]
    /\ UNCHANGED <<config, source, row, inflight, faults>>

(* Mutant: the attempts are not counted. *)
RetryForever(c) ==
    /\ call[c].phase = "backoff" /\ UNCHANGED billed
    /\ IF call[c].cancelled THEN Settle(c, "cancelled", Reserved(c))
       ELSE /\ call' = [call EXCEPT ![c].phase = "waiting"]
            /\ UNCHANGED <<config, source, row, inflight, faults>>

(* Mutant: the signal is not looked at before another attempt. *)
RetryEvenIfCancelled(c) ==
    call[c].phase = "backoff" /\ UNCHANGED billed /\ Dispatch(c)

(* The back-off ends: a cancelled call stops here, any other is dispatched  *)
(* again with the prompt it was given.                                      *)
Retry(c) ==
    /\ call[c].phase = "backoff" /\ UNCHANGED billed
    /\ IF call[c].cancelled THEN Settle(c, "cancelled", Reserved(c)) ELSE Dispatch(c)

(* The final write fails.  The catch writes once more: a failed job with    *)
(* its reservation, or, failing too, a row that stays running.              *)
WriteFails(c) ==
    /\ call[c].phase = "waiting" /\ Fault
    /\ Bill(c)
    /\ \/ Update(c, "failed", Reserved(c))
       \/ UNCHANGED row
    /\ Leaves(c) /\ UNCHANGED <<config, source>>

-----------------------------------------------------------------------------
(* The store, while calls are in flight.                                    *)

Retire(s) ==
    /\ source[s] = "active" /\ source' = [source EXCEPT ![s] = "retired"]
    /\ UNCHANGED <<config, row, call, inflight, billed, faults>>

(* Mutant: the jobs in flight are kept. *)
PurgedWhenSettled(s) ==
    [c \in Calls |-> IF row[c] # NoRow /\ row[c].status # "running"
                           /\ Quotes(call[c].request, s)
                     THEN NoRow ELSE row[c]]

(* reclassifySource and deleteSourcePermanently remove every job that was   *)
(* given the source, in the transaction that protects or removes it.        *)
Purged(s) == [c \in Calls |-> IF row[c] # NoRow /\ Quotes(call[c].request, s)
                              THEN NoRow ELSE row[c]]

ProtectSource(s, as) ==
    /\ source[s] \notin {"deleted", as}
    /\ source' = [source EXCEPT ![s] = as]
    /\ row' = Purged(s)
    /\ UNCHANGED <<config, call, inflight, billed, faults>>

ReclassifySource(s) == ProtectSource(s, "student_sensitive")
DeleteSource(s) == ProtectSource(s, "deleted")

(* The process ends and the next one loads the store: every job that was    *)
(* running is uncertain.  An attempt that was out may have been billed.     *)
Restart ==
    /\ Fault
    /\ billed' = [c \in Calls |-> IF call[c].phase = "waiting" THEN billed[c] + 1
                                   ELSE billed[c]]
    /\ row' = [c \in Calls |-> IF row[c] # NoRow /\ row[c].status = "running"
                               THEN [row[c] EXCEPT !.status = "uncertain"] ELSE row[c]]
    /\ call' = [c \in Calls |-> IF Live(c) THEN Forgotten(c) ELSE call[c]]
    /\ inflight' = [r \in Requests |-> NoCall]
    /\ UNCHANGED <<config, source>>

Timers(c) == Timeout(c) \/ Retry(c)

Next ==
    \/ \E r \in Requests, c \in Calls : Run(r, c)
    \/ \E c \in Calls : \/ Cancel(c) \/ Answer(c) \/ ProviderFails(c)
                        \/ Timeout(c) \/ Retry(c) \/ WriteFails(c)
    \/ \E s \in Sources : Retire(s) \/ ReclassifySource(s) \/ DeleteSource(s)
    \/ Configure \/ Restart

Spec == Init /\ [][Next]_vars

(* The timers of the event loop fire.  Nothing is assumed of the provider.  *)
FairSpec == Spec /\ \A c \in Calls : WF_vars(Timers(c))

-----------------------------------------------------------------------------
Job == [status : Statuses, cost : Nat]
Rows == Job \cup {NoRow}

TypeOK ==
    /\ config \in [cap : Caps, network : BOOLEAN]
    /\ source \in [Sources -> {"active", "retired", "student_sensitive", "deleted"}]
    /\ row \in [Calls -> Rows]
    /\ call \in [Calls -> [phase : Phases, request : Requests \cup {NoCall},
                           attempt : 0..MaxRetries, cancelled : BOOLEAN]]
    /\ inflight \in [Requests -> Calls \cup {NoCall}]
    /\ billed \in [Calls -> Nat] /\ faults \in 0..MaxFaults

(* A call whose cost is still open, in flight, lost by a crash, timed out    *)
(* or cancelled, holds the estimated price of every attempt that may have   *)
(* been billed and of every one that is left to it.                         *)
AttemptsLeft(c) ==
    IF call[c].phase = "waiting" THEN MaxRetries + 1 - call[c].attempt
    ELSE IF call[c].phase = "backoff" THEN MaxRetries - call[c].attempt
    ELSE 0
OpenCostsAreReserved ==
    \A c \in Calls :
        row[c] # NoRow /\ row[c].status \in {"running", "uncertain", "cancelled"} =>
            PerCall * (billed[c] + AttemptsLeft(c)) <= row[c].cost

(* Whatever overlaps, what is spent and reserved passes the cap only when a *)
(* call is settled above its own reservation, which the code does not       *)
(* prevent; a new call is refused whose reservation does not fit beside all *)
(* others, the overruns included.  A settled cost is never written again.   *)
Overruns(c) ==
    /\ Live(c) /\ row[c] # NoRow /\ row[c].cost = Reservation
    /\ row'[c] # NoRow /\ row'[c].cost > Reservation /\ row'[c].cost \in Reported
SpendingFollowsTheCap ==
    [][/\ BudgetSpent' > BudgetSpent /\ config.cap > 0 =>
              BudgetSpent' <= config.cap \/ \E c \in Calls : Overruns(c)
       /\ \A c \in Calls : row[c] # NoRow /\ row[c].status # "running" =>
              row'[c] \in {row[c], NoRow}]_vars

(* After a cancellation no attempt is dispatched and no result is committed. *)
CancelIsFinal ==
    [][\A c \in Calls : call[c].cancelled =>
           /\ call'[c].attempt <= call[c].attempt
           /\ row'[c] # NoRow => row'[c].status # "succeeded"]_vars

(* One request never has two calls under way, and never two paid results.   *)
NeverRunTwice ==
    \A c, d \in Calls : c # d /\ call[c].request = call[d].request =>
        /\ ~(Live(c) /\ Live(d))
        /\ ~(/\ row[c] # NoRow /\ row[c].status = "succeeded"
             /\ row[d] # NoRow /\ row[d].status = "succeeded")

(* No job keeps an excerpt of a source that was deleted or protected, also  *)
(* when its answer arrives afterwards.                                      *)
PurgedSourcesStayPurged ==
    \A c \in Calls : \A s \in Sources :
        row[c] # NoRow /\ Quotes(call[c].request, s) =>
            source[s] \notin {"student_sensitive", "deleted"}

(* Every call ends, whatever the provider does. *)
EveryCallEnds == \A c \in Calls : Live(c) ~> call[c].phase = "done"

(* Jobs, reservations and sources agree: the attempts of a call are          *)
(* reserved at their estimate, one request runs and is paid once, and a      *)
(* source that was purged leaves no job.                                    *)
CallsConsistent ==
    TypeOK /\ OpenCostsAreReserved /\ NeverRunTwice /\ PurgedSourcesStayPurged
=============================================================================
