--------------------------- MODULE ModelCallsProofs ---------------------------
(***************************************************************************)
(* For every set of calls, requests and sources, every price and every       *)
(* number of retries and faults: jobs, reservations and sources of           *)
(* ModelCalls agree (CallsConsistent), a cancellation is final, and the      *)
(* spending passes the cap only with a call that is settled above its        *)
(* reservation (SpendingFollowsTheCap), whatever providers report.          *)
(***************************************************************************)
EXTENDS ModelCalls, FiniteSetTheorems, WellFoundedInduction, TLAPS

(* The call that runs a request is known to it, so there is only one.       *)
LiveIsInFlight ==
    \A c \in Calls : Live(c) =>
        call[c].request \in Requests /\ inflight[call[c].request] = c

(* The job of a call that is under way is running, unless it was purged.    *)
LiveIsRunning ==
    \A c \in Calls : Live(c) /\ row[c] # NoRow => row[c].status = "running"

(* A request that was paid for is not under way again.                      *)
PaidIsOver ==
    \A c, d \in Calls :
        Live(c) /\ row[d] # NoRow /\ row[d].status = "succeeded" =>
            call[c].request # call[d].request

(* What a call that was not made yet leaves out.                            *)
UnusedIsBlank == \A c \in Calls : call[c].phase = "unused" => row[c] = NoRow /\ billed[c] = 0

(* The signal is forgotten when a call ends, and a back-off is followed by   *)
(* an attempt that was reserved.                                            *)
CancelledIsLive == \A c \in Calls : call[c].cancelled => Live(c)
BackoffHasAttempt == \A c \in Calls : call[c].phase = "backoff" => call[c].attempt < MaxRetries

IInv ==
    /\ CallsConsistent
    /\ LiveIsInFlight /\ LiveIsRunning /\ PaidIsOver /\ UnusedIsBlank
    /\ CancelledIsLive /\ BackoffHasAttempt

-----------------------------------------------------------------------------
(* A reservation covers attempts one by one.                                *)
LEMMA Price ==
  /\ \A n \in Nat : PerCall * n \in Nat /\ PerCall * (n + 1) = PerCall * n + PerCall
  /\ PerCall * 0 = 0 /\ Reservation \in Nat
BY CostAssumption DEF Reservation

LEMMA FewerCostLess ==
  ASSUME NEW m \in Nat, NEW n \in Nat, m <= n
  PROVE  PerCall * m \in Nat /\ PerCall * n \in Nat /\ PerCall * m <= PerCall * n
<1>1. PICK k \in Nat : n = m + k
  <2>1. n - m \in Nat /\ n = m + (n - m)
    OBVIOUS
  <2> QED
    BY <2>1
<1>2. /\ PerCall * n = PerCall * m + PerCall * k
      /\ PerCall * m \in Nat /\ PerCall * k \in Nat
  BY <1>1, CostAssumption
<1> QED
  BY <1>2

(* The attempts that are left to a call are a number.                       *)
LEMMA LeftIsNat ==
  ASSUME IInv, NEW c \in Calls
  PROVE  AttemptsLeft(c) \in Nat /\ (call[c].phase = "waiting" => AttemptsLeft(c) >= 1)
BY CostAssumption DEF AttemptsLeft, IInv, CallsConsistent, TypeOK, BackoffHasAttempt

(* How a call ends: with at most one more attempt billed, a job that has    *)
(* left "running" or was purged or could not be written, and no open cost    *)
(* without its reservation.                                                 *)
Ends(c) ==
    /\ Live(c) /\ Leaves(c)
    /\ \E amount \in 0..1 :
          /\ amount # 0 => call[c].phase = "waiting"
          /\ billed' = [billed EXCEPT ![c] = @ + amount]
    /\ \/ row' = row
       \/ /\ row[c] # NoRow
          /\ \E status \in Statuses \ {"running"}, cost \in Nat :
                /\ row' = [row EXCEPT ![c] = [status |-> status, cost |-> cost]]
                /\ status \in {"uncertain", "cancelled"} => cost = row[c].cost
                /\ call[c].cancelled => status # "succeeded"
    /\ UNCHANGED <<config, source>> /\ faults' \in 0..MaxFaults

LEMMA UpdateEnds ==
  ASSUME IInv, NEW c \in Calls, NEW status \in Statuses \ {"running"}, NEW cost \in Nat,
         Update(c, status, cost),
         status \in {"uncertain", "cancelled"} => cost = Reserved(c),
         call[c].cancelled => status # "succeeded"
  PROVE  \/ row' = row
         \/ /\ row[c] # NoRow
            /\ \E st \in Statuses \ {"running"}, co \in Nat :
                  /\ row' = [row EXCEPT ![c] = [status |-> st, cost |-> co]]
                  /\ st \in {"uncertain", "cancelled"} => co = row[c].cost
                  /\ call[c].cancelled => st # "succeeded"
BY DEF Update, Reserved

LEMMA ReservedType == ASSUME IInv, NEW c \in Calls PROVE Reserved(c) \in Nat
BY Price DEF IInv, CallsConsistent, TypeOK, Rows, Job, Reserved

LEMMA SettleEnds ==
  ASSUME IInv, NEW c \in Calls, NEW status \in Statuses \ {"running"}, NEW cost \in Nat,
         Live(c), NEW amount \in 0..1,
         amount # 0 => call[c].phase = "waiting",
         billed' = [billed EXCEPT ![c] = @ + amount],
         Settle(c, status, cost),
         status \in {"uncertain", "cancelled"} => cost = Reserved(c),
         call[c].cancelled => status # "succeeded"
  PROVE  Ends(c)
<1>1. Update(c, status, cost) /\ Leaves(c) /\ UNCHANGED <<config, source, faults>>
  BY DEF Settle
<1>2. faults' \in 0..MaxFaults
  BY <1>1 DEF IInv, CallsConsistent, TypeOK
<1>3. \E a \in 0..1 :
         /\ a # 0 => call[c].phase = "waiting"
         /\ billed' = [billed EXCEPT ![c] = @ + a]
  OBVIOUS
<1> QED
  BY <1>1, <1>2, <1>3, UpdateEnds DEF Ends

LEMMA EndsCall ==
  ASSUME IInv, NEW c \in Calls, Ends(c)
  PROVE  /\ call[c].request \in Requests
         /\ call' \in [Calls -> [phase : Phases, request : Requests \cup {NoCall},
                               attempt : 0..MaxRetries, cancelled : BOOLEAN]]
         /\ call'[c].phase = "done" /\ call'[c].request = call[c].request
         /\ call'[c].attempt = 0 /\ ~call'[c].cancelled
         /\ \A d \in Calls \ {c} : call'[d] = call[d]
         /\ inflight' \in [Requests -> Calls \cup {NoCall}]
         /\ inflight' = [inflight EXCEPT ![call[c].request] = NoCall]
<1>1. call[c].request \in Requests /\ inflight[call[c].request] = c
  BY DEF IInv, LiveIsInFlight, Ends
<1>2. Forgotten(c) = [phase |-> "done", request |-> call[c].request, attempt |-> 0,
                      cancelled |-> FALSE]
  BY DEF Forgotten
<1>3. Forgotten(c) \in [phase : Phases, request : Requests \cup {NoCall},
                        attempt : 0..MaxRetries, cancelled : BOOLEAN]
  BY <1>1, <1>2, CostAssumption DEF Phases
<1>4. /\ call' = [call EXCEPT ![c] = Forgotten(c)]
      /\ inflight' = [inflight EXCEPT ![call[c].request] = NoCall]
  BY DEF Ends, Leaves
<1>5. call \in [Calls -> [phase : Phases, request : Requests \cup {NoCall},
                         attempt : 0..MaxRetries, cancelled : BOOLEAN]]
      /\ inflight \in [Requests -> Calls \cup {NoCall}]
  BY DEF IInv, CallsConsistent, TypeOK
<1> QED
  BY <1>1, <1>2, <1>3, <1>4, <1>5

LEMMA EndsInv == ASSUME IInv, NEW c \in Calls, Ends(c) PROVE IInv'
<1> USE EndsCall
<1>1. TypeOK'
  <2>1. billed' \in [Calls -> Nat]
    BY CostAssumption DEF IInv, CallsConsistent, TypeOK, Ends
  <2>2. row' \in [Calls -> Rows]
    BY DEF IInv, CallsConsistent, TypeOK, Ends, Rows, Job
  <2> QED
    BY <2>1, <2>2 DEF IInv, CallsConsistent, TypeOK, Ends
<1>2. OpenCostsAreReserved'
  <2> SUFFICES ASSUME NEW d \in Calls, row'[d] # NoRow,
                      row'[d].status \in {"running", "uncertain", "cancelled"}
               PROVE  PerCall * (billed'[d] + AttemptsLeft(d)') <= row'[d].cost
    BY DEF OpenCostsAreReserved
  <2>1. CASE d # c
    <3>1. billed'[d] = billed[d] /\ row'[d] = row[d] /\ AttemptsLeft(d)' = AttemptsLeft(d)
      BY <2>1 DEF Ends, AttemptsLeft, IInv, CallsConsistent, TypeOK
    <3> QED
      BY <3>1 DEF IInv, CallsConsistent, OpenCostsAreReserved
  <2>2. CASE d = c
    <3>1. PICK amount \in 0..1 :
             /\ amount # 0 => call[c].phase = "waiting"
             /\ billed' = [billed EXCEPT ![c] = @ + amount]
      BY DEF Ends
    <3>2. billed'[c] = billed[c] + amount /\ billed[c] \in Nat
      BY <3>1 DEF IInv, CallsConsistent, TypeOK
    <3>3. AttemptsLeft(c)' = 0
      BY DEF AttemptsLeft
    <3>4. row[c] # NoRow /\ row[c].status = "running" /\ row'[c].cost = row[c].cost
      BY <2>2 DEF Ends, IInv, LiveIsRunning, CallsConsistent, TypeOK, Rows, Job
    <3>5. PerCall * (billed[c] + AttemptsLeft(c)) <= row[c].cost /\ row[c].cost \in Nat
      BY <3>4 DEF IInv, CallsConsistent, OpenCostsAreReserved, TypeOK, Rows, Job
    <3>6. amount <= AttemptsLeft(c) /\ AttemptsLeft(c) \in Nat
      BY <3>1, LeftIsNat
    <3> DEFINE before == billed[c] + AttemptsLeft(c)
               after == billed'[c] + AttemptsLeft(c)'
    <3>7. before \in Nat /\ after \in Nat /\ after <= before
      BY <3>2, <3>3, <3>6
    <3> HIDE DEF before, after
    <3>8. /\ PerCall * after <= PerCall * before
          /\ PerCall * after \in Nat /\ PerCall * before \in Nat
      BY <3>7, FewerCostLess
    <3>9. PerCall * before <= row'[c].cost /\ row'[c].cost \in Nat
      BY <3>4, <3>5 DEF before
    <3> QED
      BY <2>2, <3>8, <3>9 DEF after
  <2> QED
    BY <2>1, <2>2
<1>3. NeverRunTwice'
  <2> SUFFICES ASSUME NEW d \in Calls, NEW e \in Calls, d # e,
                      call'[d].request = call'[e].request
               PROVE  /\ ~(Live(d)' /\ Live(e)')
                      /\ ~(/\ row'[d] # NoRow /\ row'[d].status = "succeeded"
                           /\ row'[e] # NoRow /\ row'[e].status = "succeeded")
    BY DEF NeverRunTwice
  <2>1. call[d].request = call[e].request
    OBVIOUS
  <2>2. \A x \in Calls : Live(x)' => Live(x)
    BY DEF Live
  <2>3. \A x \in Calls \ {c} : row'[x] = row[x]
    BY DEF Ends, IInv, CallsConsistent, TypeOK
  <2> QED
    BY <2>1, <2>2, <2>3 DEF IInv, CallsConsistent, NeverRunTwice, PaidIsOver, Ends
<1>4. PurgedSourcesStayPurged'
  <2>1. \A x \in Calls : /\ call'[x].request = call[x].request
                        /\ row'[x] # NoRow => row[x] # NoRow
    BY DEF Ends, IInv, CallsConsistent, TypeOK
  <2>2. source' = source
    BY DEF Ends
  <2> QED
    BY <2>1, <2>2 DEF IInv, CallsConsistent, PurgedSourcesStayPurged, Quotes
<1>5. LiveIsInFlight'
  <2> SUFFICES ASSUME NEW x \in Calls, Live(x)'
               PROVE  call'[x].request \in Requests /\ inflight'[call'[x].request] = x
    BY DEF LiveIsInFlight
  <2>1. x # c /\ call'[x] = call[x] /\ Live(x)
    BY DEF Live
  <2>2. /\ call[x].request \in Requests /\ inflight[call[x].request] = x
        /\ inflight[call[c].request] = c
    BY <2>1 DEF IInv, LiveIsInFlight, Ends
  <2>3. inflight \in [Requests -> Calls \cup {NoCall}]
    BY DEF IInv, CallsConsistent, TypeOK
  <2> QED
    BY <2>1, <2>2, <2>3
<1>6. LiveIsRunning' /\ PaidIsOver'
  <2>1. \A x \in Calls : Live(x)' => Live(x) /\ x # c
    BY DEF Live
  <2>2. \A x \in Calls \ {c} : row'[x] = row[x]
    BY DEF Ends, IInv, CallsConsistent, TypeOK
  <2>3. \A x \in Calls : call'[x].request = call[x].request
    OBVIOUS
  <2>4. \A x \in Calls : Live(x)' => call[x].request # call[c].request
    BY <2>1 DEF IInv, LiveIsInFlight, Ends
  <2>5. LiveIsRunning'
    BY <2>1, <2>2 DEF LiveIsRunning, IInv
  <2>6. PaidIsOver'
    BY <2>1, <2>2, <2>3, <2>4 DEF PaidIsOver, IInv
  <2> QED
    BY <2>5, <2>6
<1>7. UnusedIsBlank' /\ CancelledIsLive' /\ BackoffHasAttempt'
  <2>1. \A x \in Calls \ {c} : row'[x] = row[x] /\ billed'[x] = billed[x]
    BY DEF Ends, IInv, CallsConsistent, TypeOK
  <2>2. UnusedIsBlank'
    BY <2>1 DEF IInv, UnusedIsBlank
  <2>3. CancelledIsLive'
    BY DEF IInv, CancelledIsLive, Live
  <2>4. BackoffHasAttempt'
    BY DEF IInv, BackoffHasAttempt
  <2> QED
    BY <2>2, <2>3, <2>4
<1> QED
  BY <1>1, <1>2, <1>3, <1>4, <1>5, <1>6, <1>7 DEF IInv, CallsConsistent

-----------------------------------------------------------------------------
LEMMA InitInv == Init => IInv
<1> SUFFICES ASSUME Init PROVE IInv
  OBVIOUS
<1>1. TypeOK
  BY CostAssumption DEF Init, TypeOK, Rows, Unused, Phases
<1>2. \A c \in Calls : row[c] = NoRow /\ billed[c] = 0 /\ call[c] = Unused
  BY DEF Init
<1>3. \A c \in Calls : ~Live(c) /\ ~call[c].cancelled /\ call[c].phase = "unused"
  BY <1>2 DEF Live, Unused
<1>4. CallsConsistent
  BY <1>1, <1>2, <1>3 DEF CallsConsistent, OpenCostsAreReserved, NeverRunTwice,
                          PurgedSourcesStayPurged
<1> QED
  BY <1>2, <1>3, <1>4 DEF IInv, LiveIsInFlight, LiveIsRunning, PaidIsOver, UnusedIsBlank,
                          CancelledIsLive, BackoffHasAttempt

(* The steps by which a call ends.                                          *)
LEMMA AnswerEnds == ASSUME IInv, NEW c \in Calls, Answer(c) PROVE Ends(c)
<1>1. /\ billed' = [billed EXCEPT ![c] = @ + 1]
      /\ call[c].phase = "waiting" /\ Live(c) /\ 1 \in 0..1
  BY DEF Answer, Bill, Live
<1>2. CASE call[c].cancelled
  <2>1. Settle(c, "cancelled", Reserved(c))
    BY <1>2 DEF Answer
  <2> QED
    BY <1>1, <1>2, <2>1, SettleEnds, ReservedType DEF Statuses
<1>3. CASE ~call[c].cancelled
  <2>1. PICK status \in {"succeeded", "failed"}, cost \in Reported \cup {Reservation} :
           Settle(c, status, cost)
    BY <1>3 DEF Answer
  <2>2. cost \in Nat /\ status \in Statuses \ {"running"} /\ status \notin {"uncertain", "cancelled"}
    BY Price, CostAssumption DEF Statuses
  <2> QED
    BY <1>1, <1>3, <2>1, <2>2, SettleEnds
<1> QED
  BY <1>2, <1>3

LEMMA FinalErrorEnds ==
  ASSUME IInv, NEW c \in Calls, NEW code, NEW amount \in 0..1,
         call[c].phase = "waiting",
         billed' = [billed EXCEPT ![c] = @ + amount],
         FinalError(c, code)
  PROVE  Ends(c)
<1>1. Live(c) /\ Reserved(c) \in Nat
  BY ReservedType DEF Live
<1>2. CASE Settle(c, "cancelled", Reserved(c))
  BY <1>1, <1>2, SettleEnds DEF Statuses
<1>3. CASE Settle(c, "uncertain", Reserved(c))
  BY <1>1, <1>3, SettleEnds DEF Statuses
<1>4. CASE Settle(c, "failed", 0) \/ Settle(c, "failed", Reserved(c))
  BY <1>1, <1>4, SettleEnds DEF Statuses
<1> QED
  BY <1>2, <1>3, <1>4 DEF FinalError

LEMMA TimeoutEnds == ASSUME IInv, NEW c \in Calls, Timeout(c) PROVE Ends(c)
<1>1. billed' = [billed EXCEPT ![c] = @ + 1] /\ 1 \in 0..1
  BY DEF Timeout, Bill
<1> QED
  BY <1>1, SettleEnds, ReservedType DEF Timeout, Live, Statuses

LEMMA WriteFailsEnds == ASSUME IInv, NEW c \in Calls, WriteFails(c) PROVE Ends(c)
<1>1. \E amount \in 0..1 : /\ amount # 0 => call[c].phase = "waiting"
                           /\ billed' = [billed EXCEPT ![c] = @ + amount]
  BY DEF WriteFails, Bill
<1>2. faults' \in 0..MaxFaults
  BY CostAssumption DEF WriteFails, Fault, IInv, CallsConsistent, TypeOK
<1>3. Live(c) /\ call[c].phase = "waiting" /\ Leaves(c) /\ UNCHANGED <<config, source>>
  BY DEF WriteFails, Live
<1>4. CASE UNCHANGED row
  BY <1>1, <1>2, <1>3, <1>4 DEF Ends
<1>5. CASE Update(c, "failed", Reserved(c))
  <2>1. \/ row' = row
        \/ /\ row[c] # NoRow
           /\ row' = [row EXCEPT ![c] = [status |-> "failed", cost |-> Reserved(c)]]
    BY <1>5 DEF Update
  <2>2. "failed" \in Statuses \ {"running"} /\ Reserved(c) \in Nat
    BY ReservedType DEF Statuses
  <2>3. CASE row' = row
    BY <1>1, <1>2, <1>3, <2>3 DEF Ends
  <2>4. CASE /\ row[c] # NoRow
             /\ row' = [row EXCEPT ![c] = [status |-> "failed", cost |-> Reserved(c)]]
    <3>1. \E status \in Statuses \ {"running"}, cost \in Nat :
             /\ row' = [row EXCEPT ![c] = [status |-> status, cost |-> cost]]
             /\ status \in {"uncertain", "cancelled"} => cost = row[c].cost
             /\ call[c].cancelled => status # "succeeded"
      BY <2>2, <2>4
    <3> QED
      BY <1>1, <1>2, <1>3, <2>4, <3>1 DEF Ends
  <2> QED
    BY <2>1, <2>3, <2>4
<1> QED
  BY <1>4, <1>5 DEF WriteFails

LEMMA CancelledRetryEnds ==
  ASSUME IInv, NEW c \in Calls, Retry(c), call[c].cancelled PROVE Ends(c)
<1>1. Live(c) /\ Settle(c, "cancelled", Reserved(c)) /\ billed' = billed
  BY DEF Retry, Live
<1>2. billed' = [billed EXCEPT ![c] = @ + 0] /\ 0 \in 0..1
  BY <1>1 DEF IInv, CallsConsistent, TypeOK
<1>3. Reserved(c) \in Nat /\ "cancelled" \in Statuses \ {"running"}
  BY ReservedType DEF Statuses
<1> QED
  BY <1>1, <1>2, <1>3, SettleEnds

-----------------------------------------------------------------------------
(* The steps of a call that goes on.                                        *)
LEMMA RunInv == ASSUME IInv, NEW r \in Requests, NEW c \in Calls, Run(r, c) PROVE IInv'
<1> DEFINE fresh == [phase |-> "waiting", request |-> r, attempt |-> 0, cancelled |-> FALSE]
<1> DEFINE job == [status |-> "running", cost |-> Reservation]
<1>1. /\ call[c].phase = "unused" /\ row[c] = NoRow /\ billed[c] = 0
      /\ row' = [row EXCEPT ![c] = job] /\ call' = [call EXCEPT ![c] = fresh]
      /\ inflight' = [inflight EXCEPT ![r] = c]
      /\ config' = config /\ source' = source /\ billed' = billed /\ faults' = faults
      /\ WithinBoundary(r) /\ ~CachedJob(r) /\ inflight[r] = NoCall
  BY DEF Run, IInv, UnusedIsBlank
<1>2. TypeOK /\ TypeOK'
  <2>1. job \in Rows
    BY Price DEF Rows, Job, Statuses
  <2>2. fresh \in [phase : Phases, request : Requests \cup {NoCall},
                   attempt : 0..MaxRetries, cancelled : BOOLEAN]
    BY CostAssumption DEF Phases
  <2> HIDE DEF fresh, job
  <2> QED
    BY <1>1, <2>1, <2>2 DEF IInv, CallsConsistent, TypeOK
<1>3. /\ row'[c] = job /\ call'[c] = fresh
      /\ \A d \in Calls \ {c} : row'[d] = row[d] /\ call'[d] = call[d]
  BY <1>1, <1>2 DEF TypeOK
<1>4. \A d \in Calls : Live(d) => d # c /\ call[d].request \in Requests /\ call[d].request # r
  BY <1>1, SentinelAssumption DEF Live, IInv, LiveIsInFlight
<1>5. \A d \in Calls : /\ d # c => Live(d)' = Live(d)
                       /\ row'[d] # NoRow /\ row'[d].status = "succeeded" =>
                             d # c /\ row[d] # NoRow /\ row[d].status = "succeeded"
  BY <1>3 DEF Live
<1>6. OpenCostsAreReserved'
  <2> SUFFICES ASSUME NEW d \in Calls, row'[d] # NoRow,
                      row'[d].status \in {"running", "uncertain", "cancelled"}
               PROVE  PerCall * (billed'[d] + AttemptsLeft(d)') <= row'[d].cost
    BY DEF OpenCostsAreReserved
  <2>1. CASE d # c
    BY <1>1, <1>3, <2>1 DEF IInv, CallsConsistent, OpenCostsAreReserved, AttemptsLeft
  <2>2. CASE d = c
    <3>1. AttemptsLeft(c)' = MaxRetries + 1 /\ 0 + (MaxRetries + 1) = MaxRetries + 1
      BY <1>3, CostAssumption DEF AttemptsLeft
    <3>2. billed'[c] = 0 /\ row'[c].cost = Reservation
      BY <1>1, <1>3
    <3> QED
      BY <2>2, <3>1, <3>2, Price DEF Reservation
  <2> QED
    BY <2>1, <2>2
<1>7. NeverRunTwice'
  <2>1. \A d \in Calls : row[d] # NoRow /\ row[d].status = "succeeded" => call[d].request # r
    BY <1>1 DEF CachedJob
  <2> QED
    BY <1>3, <1>4, <1>5, <2>1 DEF IInv, CallsConsistent, NeverRunTwice
<1>8. PurgedSourcesStayPurged'
  BY <1>1, <1>3, SentinelAssumption
     DEF IInv, CallsConsistent, PurgedSourcesStayPurged, Quotes, WithinBoundary
<1>9. LiveIsInFlight'
  BY <1>1, <1>2, <1>3, <1>4, <1>5 DEF IInv, LiveIsInFlight, TypeOK
<1>10. LiveIsRunning' /\ PaidIsOver'
  <2>1. LiveIsRunning'
    BY <1>3, <1>5 DEF IInv, LiveIsRunning
  <2>2. \A d \in Calls : row[d] # NoRow /\ row[d].status = "succeeded" => call[d].request # r
    BY <1>1 DEF CachedJob
  <2>3. PaidIsOver'
    BY <1>3, <1>5, <2>2 DEF IInv, PaidIsOver
  <2> QED
    BY <2>1, <2>3
<1>11. UnusedIsBlank' /\ CancelledIsLive' /\ BackoffHasAttempt'
  BY <1>1, <1>3, <1>5 DEF IInv, UnusedIsBlank, CancelledIsLive, BackoffHasAttempt
<1> QED
  BY <1>2, <1>6, <1>7, <1>8, <1>9, <1>10, <1>11 DEF IInv, CallsConsistent

(* A call moves on, with no more attempts left than were left before. *)
Moves(c, phase, attempt, cancelled, amount) ==
    /\ Live(c) /\ phase \in {"waiting", "backoff"} /\ attempt \in 0..MaxRetries
    /\ cancelled \in BOOLEAN /\ amount \in Nat
    /\ phase = "backoff" => attempt < MaxRetries
    /\ call' = [call EXCEPT ![c] = [phase |-> phase, request |-> call[c].request,
                                    attempt |-> attempt, cancelled |-> cancelled]]
    /\ billed' = [billed EXCEPT ![c] = @ + amount]
    /\ amount + AttemptsLeft(c)' <= AttemptsLeft(c)
    /\ UNCHANGED <<config, source, row, inflight, faults>>

LEMMA MovesInv ==
  ASSUME IInv, NEW c \in Calls, NEW phase, NEW attempt, NEW cancelled, NEW amount,
         Moves(c, phase, attempt, cancelled, amount)
  PROVE  IInv'
<1> DEFINE moved == [phase |-> phase, request |-> call[c].request,
                     attempt |-> attempt, cancelled |-> cancelled]
<1>1. /\ Live(c) /\ call' = [call EXCEPT ![c] = moved]
      /\ billed' = [billed EXCEPT ![c] = @ + amount] /\ amount \in Nat
      /\ row' = row /\ source' = source /\ config' = config /\ inflight' = inflight
      /\ faults' = faults
      /\ phase \in {"waiting", "backoff"} /\ attempt \in 0..MaxRetries /\ cancelled \in BOOLEAN
      /\ phase = "backoff" => attempt < MaxRetries
  BY DEF Moves
<1>2. TypeOK /\ TypeOK'
  <2>1. TypeOK
    BY DEF IInv, CallsConsistent
  <2>2. moved \in [phase : Phases, request : Requests \cup {NoCall},
                   attempt : 0..MaxRetries, cancelled : BOOLEAN]
    BY <1>1, <2>1 DEF Phases, TypeOK
  <2> HIDE DEF moved
  <2> QED
    BY <1>1, <2>1, <2>2 DEF TypeOK
<1>3. /\ call'[c] = moved /\ billed'[c] = billed[c] + amount
      /\ \A d \in Calls \ {c} : call'[d] = call[d] /\ billed'[d] = billed[d]
  BY <1>1, <1>2 DEF TypeOK
<1>4. \A d \in Calls : /\ call'[d].request = call[d].request /\ Live(d)' = Live(d)
                       /\ (call'[d].phase = "unused") = (call[d].phase = "unused")
  BY <1>1, <1>3 DEF Live
<1>5. OpenCostsAreReserved'
  <2> SUFFICES ASSUME NEW d \in Calls, row[d] # NoRow,
                      row[d].status \in {"running", "uncertain", "cancelled"}
               PROVE  PerCall * (billed'[d] + AttemptsLeft(d)') <= row[d].cost
    BY <1>1 DEF OpenCostsAreReserved
  <2>1. PerCall * (billed[d] + AttemptsLeft(d)) <= row[d].cost
    BY DEF IInv, CallsConsistent, OpenCostsAreReserved
  <2>2. CASE d # c
    BY <1>3, <2>1, <2>2 DEF AttemptsLeft
  <2>3. CASE d = c
    <3>1. billed[c] \in Nat /\ row[c].cost \in Nat
      BY <1>2, <2>3 DEF TypeOK, Rows, Job
    <3>2. AttemptsLeft(c) \in Nat /\ AttemptsLeft(c)' \in Nat
      BY <1>1, <1>2, <1>3, CostAssumption DEF AttemptsLeft, IInv, BackoffHasAttempt, TypeOK
    <3>3. amount + AttemptsLeft(c)' <= AttemptsLeft(c)
      BY DEF Moves
    <3> DEFINE before == billed[c] + AttemptsLeft(c)
               after == billed'[c] + AttemptsLeft(c)'
    <3>4. before \in Nat /\ after \in Nat /\ after <= before
      BY <1>1, <1>3, <3>1, <3>2, <3>3
    <3>5. PerCall * before <= row[c].cost
      BY <2>1, <2>3
    <3> HIDE DEF before, after
    <3>6. /\ PerCall * after <= PerCall * before
          /\ PerCall * after \in Nat /\ PerCall * before \in Nat
      BY <3>4, FewerCostLess
    <3>7. PerCall * after <= row[c].cost
      BY <3>1, <3>5, <3>6
    <3> QED
      BY <2>3, <3>7 DEF after
  <2> QED
    BY <2>2, <2>3
<1>6. NeverRunTwice' /\ PurgedSourcesStayPurged'
  BY <1>1, <1>4 DEF IInv, CallsConsistent, NeverRunTwice, PurgedSourcesStayPurged, Quotes
<1>7. LiveIsInFlight' /\ LiveIsRunning' /\ PaidIsOver'
  BY <1>1, <1>4 DEF IInv, LiveIsInFlight, LiveIsRunning, PaidIsOver
<1>8. UnusedIsBlank'
  <2>1. call[c].phase # "unused"
    BY <1>1 DEF Live
  <2> QED
    BY <1>1, <1>3, <1>4, <2>1 DEF IInv, UnusedIsBlank
<1>9. CancelledIsLive' /\ BackoffHasAttempt'
  BY <1>1, <1>3, <1>4 DEF IInv, CancelledIsLive, BackoffHasAttempt
<1> QED
  BY <1>2, <1>5, <1>6, <1>7, <1>8, <1>9 DEF IInv, CallsConsistent

LEMMA CancelMoves ==
  ASSUME IInv, NEW c \in Calls, Cancel(c)
  PROVE  Moves(c, call[c].phase, call[c].attempt, TRUE, 0)
<1>1. /\ Live(c) /\ call' = [call EXCEPT ![c].cancelled = TRUE]
      /\ UNCHANGED <<config, source, row, inflight, billed, faults>>
  BY DEF Cancel
<1>2. /\ call \in [Calls -> [phase : Phases, request : Requests \cup {NoCall},
                            attempt : 0..MaxRetries, cancelled : BOOLEAN]]
      /\ billed \in [Calls -> Nat]
  BY DEF IInv, CallsConsistent, TypeOK
<1>3. call' = [call EXCEPT ![c] = [phase |-> call[c].phase, request |-> call[c].request,
                                   attempt |-> call[c].attempt, cancelled |-> TRUE]]
  <2>1. \A b \in BOOLEAN : [call[c] EXCEPT !.cancelled = b] =
           [phase |-> call[c].phase, request |-> call[c].request,
            attempt |-> call[c].attempt, cancelled |-> b]
    BY <1>2
  <2>2. call' = [call EXCEPT ![c] = [call[c] EXCEPT !.cancelled = TRUE]]
    BY <1>1
  <2> QED
    BY <2>1, <2>2
<1>4. AttemptsLeft(c) \in Nat /\ AttemptsLeft(c)' = AttemptsLeft(c)
  BY <1>2, <1>3, CostAssumption DEF AttemptsLeft, IInv, BackoffHasAttempt
<1>5. 0 + AttemptsLeft(c)' <= AttemptsLeft(c)
  BY <1>4
<1>6. billed' = [billed EXCEPT ![c] = @ + 0]
  BY <1>1, <1>2
<1> QED
  BY <1>1, <1>2, <1>3, <1>5, <1>6 DEF Moves, Live, IInv, BackoffHasAttempt

LEMMA BackoffMoves ==
  ASSUME IInv, NEW c \in Calls, NEW amount \in 0..1,
         call[c].phase = "waiting", call[c].attempt < MaxRetries,
         billed' = [billed EXCEPT ![c] = @ + amount],
         call' = [call EXCEPT ![c].phase = "backoff"],
         UNCHANGED <<config, source, row, inflight, faults>>
  PROVE  Moves(c, "backoff", call[c].attempt, call[c].cancelled, amount)
<1>2. call \in [Calls -> [phase : Phases, request : Requests \cup {NoCall},
                         attempt : 0..MaxRetries, cancelled : BOOLEAN]]
  BY DEF IInv, CallsConsistent, TypeOK
<1>3. call' = [call EXCEPT ![c] = [phase |-> "backoff", request |-> call[c].request,
                           attempt |-> call[c].attempt, cancelled |-> call[c].cancelled]]
  <2>1. [call[c] EXCEPT !.phase = "backoff"] =
           [phase |-> "backoff", request |-> call[c].request,
            attempt |-> call[c].attempt, cancelled |-> call[c].cancelled]
    BY <1>2
  <2>2. call' = [call EXCEPT ![c] = [call[c] EXCEPT !.phase = "backoff"]]
    OBVIOUS
  <2> QED
    BY <2>1, <2>2
<1>4. /\ AttemptsLeft(c)' = MaxRetries - call[c].attempt /\ AttemptsLeft(c)' \in Nat
      /\ AttemptsLeft(c) = (MaxRetries - call[c].attempt) + 1
  BY <1>2, <1>3, CostAssumption DEF AttemptsLeft
<1>5. amount + AttemptsLeft(c)' <= AttemptsLeft(c)
  BY <1>4
<1> QED
  <2>1. /\ call[c].attempt \in 0..MaxRetries /\ call[c].cancelled \in BOOLEAN
        /\ amount \in Nat /\ Live(c)
    BY <1>2, CostAssumption DEF Live
  <2> QED
    BY <2>1, <1>3, <1>5 DEF Moves

LEMMA DispatchMoves ==
  ASSUME IInv, NEW c \in Calls, Retry(c), ~call[c].cancelled
  PROVE  Moves(c, "waiting", call[c].attempt + 1, call[c].cancelled, 0)
<1>1. /\ call[c].phase = "backoff" /\ billed' = billed /\ Dispatch(c)
      /\ call[c].attempt < MaxRetries
  BY DEF Retry, IInv, BackoffHasAttempt
<1>2. /\ call \in [Calls -> [phase : Phases, request : Requests \cup {NoCall},
                            attempt : 0..MaxRetries, cancelled : BOOLEAN]]
      /\ billed \in [Calls -> Nat]
  BY DEF IInv, CallsConsistent, TypeOK
<1>3. call' = [call EXCEPT ![c] = [phase |-> "waiting", request |-> call[c].request,
                           attempt |-> call[c].attempt + 1, cancelled |-> call[c].cancelled]]
  BY <1>1, <1>2 DEF Dispatch
<1>4. /\ AttemptsLeft(c)' = AttemptsLeft(c) /\ AttemptsLeft(c) \in Nat
  BY <1>1, <1>2, <1>3, CostAssumption DEF AttemptsLeft
<1>5. 0 + AttemptsLeft(c)' <= AttemptsLeft(c)
  BY <1>4
<1>6. billed' = [billed EXCEPT ![c] = @ + 0]
  BY <1>1, <1>2
<1> QED
  BY <1>1, <1>2, <1>3, <1>5, <1>6, CostAssumption DEF Moves, Live, Dispatch

-----------------------------------------------------------------------------
(* The steps of the store and of the process.                               *)
LEMMA ProtectInv ==
  ASSUME IInv, NEW s \in Sources, NEW as \in {"student_sensitive", "deleted"},
         ProtectSource(s, as)
  PROVE  IInv'
<1>1. /\ source' = [source EXCEPT ![s] = as] /\ row' = Purged(s)
      /\ config' = config /\ call' = call /\ inflight' = inflight
      /\ billed' = billed /\ faults' = faults
  BY DEF ProtectSource
<1>2. TypeOK
  BY DEF IInv, CallsConsistent
<1>3. \A c \in Calls : row'[c] # NoRow =>
         row'[c] = row[c] /\ row[c] # NoRow /\ ~Quotes(call[c].request, s)
  BY <1>1 DEF Purged
<1>4. TypeOK'
  <2>1. row' \in [Calls -> Rows]
    BY <1>1, <1>2 DEF TypeOK, Purged, Rows
  <2> QED
    BY <1>1, <1>2, <2>1 DEF TypeOK
<1>5. OpenCostsAreReserved'
  BY <1>1, <1>3 DEF IInv, CallsConsistent, OpenCostsAreReserved, AttemptsLeft
<1>6. NeverRunTwice'
  BY <1>1, <1>3 DEF IInv, CallsConsistent, NeverRunTwice, Live
<1>7. PurgedSourcesStayPurged'
  <2> SUFFICES ASSUME NEW c \in Calls, NEW t \in Sources, row'[c] # NoRow,
                      Quotes(call[c].request, t)
               PROVE  source'[t] \notin {"student_sensitive", "deleted"}
    BY <1>1 DEF PurgedSourcesStayPurged, Quotes
  <2>1. t # s /\ row[c] # NoRow
    BY <1>3
  <2> QED
    BY <1>1, <1>2, <2>1 DEF IInv, CallsConsistent, PurgedSourcesStayPurged, TypeOK
<1>8. LiveIsInFlight' /\ LiveIsRunning' /\ PaidIsOver'
  BY <1>1, <1>3 DEF IInv, LiveIsInFlight, LiveIsRunning, PaidIsOver, Live
<1>9. UnusedIsBlank' /\ CancelledIsLive' /\ BackoffHasAttempt'
  BY <1>1, <1>3 DEF IInv, UnusedIsBlank, CancelledIsLive, BackoffHasAttempt, Live
<1> QED
  BY <1>4, <1>5, <1>6, <1>7, <1>8, <1>9 DEF IInv, CallsConsistent

LEMMA RetireInv == ASSUME IInv, NEW s \in Sources, Retire(s) PROVE IInv'
<1>1. /\ source' = [source EXCEPT ![s] = "retired"] /\ row' = row
      /\ config' = config /\ call' = call /\ inflight' = inflight
      /\ billed' = billed /\ faults' = faults
  BY DEF Retire
<1>2. TypeOK /\ TypeOK'
  BY <1>1 DEF IInv, CallsConsistent, TypeOK
<1>3. OpenCostsAreReserved' /\ NeverRunTwice'
  BY <1>1 DEF IInv, CallsConsistent, OpenCostsAreReserved, AttemptsLeft, NeverRunTwice, Live
<1>4. PurgedSourcesStayPurged'
  BY <1>1, <1>2 DEF IInv, CallsConsistent, PurgedSourcesStayPurged, Quotes, TypeOK
<1> QED
  BY <1>1, <1>2, <1>3, <1>4
     DEF IInv, CallsConsistent, LiveIsInFlight, LiveIsRunning, PaidIsOver, UnusedIsBlank,
         CancelledIsLive, BackoffHasAttempt, Live

LEMMA ConfigureInv ==
  ASSUME IInv, config' \in [cap : Caps, network : BOOLEAN],
         UNCHANGED <<source, row, call, inflight, billed, faults>>
  PROVE  IInv'
<1>1. TypeOK'
  BY DEF IInv, CallsConsistent, TypeOK
<1>2. /\ OpenCostsAreReserved' /\ NeverRunTwice' /\ PurgedSourcesStayPurged'
  BY DEF IInv, CallsConsistent, OpenCostsAreReserved, AttemptsLeft, NeverRunTwice,
         PurgedSourcesStayPurged, Quotes, Live
<1> QED
  BY <1>1, <1>2
     DEF IInv, CallsConsistent, LiveIsInFlight, LiveIsRunning, PaidIsOver, UnusedIsBlank,
         CancelledIsLive, BackoffHasAttempt, Live

(* What a restart leaves of a call: it is over, its request is still known,  *)
(* and an attempt that was out was reserved.                                *)
LEMMA RestartLeaves ==
  ASSUME IInv, Restart, NEW c \in Calls
  PROVE  /\ ~Live(c)' /\ ~call'[c].cancelled /\ call'[c].request = call[c].request
         /\ call'[c].attempt <= call[c].attempt /\ call'[c].attempt \in 0..MaxRetries
         /\ (call'[c].phase = "unused") = (call[c].phase = "unused")
         /\ row'[c] # NoRow => row[c] # NoRow /\ row'[c].cost = row[c].cost
         /\ row'[c] # NoRow /\ row'[c].status = "succeeded" => row'[c] = row[c]
<1>1. /\ call' = [d \in Calls |-> IF Live(d) THEN Forgotten(d) ELSE call[d]]
      /\ row' = [d \in Calls |-> IF row[d] # NoRow /\ row[d].status = "running"
                                 THEN [row[d] EXCEPT !.status = "uncertain"] ELSE row[d]]
  BY DEF Restart
<1>2. TypeOK
  BY DEF IInv, CallsConsistent
<1>3. CASE Live(c)
  BY <1>1, <1>2, <1>3, CostAssumption DEF Forgotten, Live, TypeOK
<1>4. CASE ~Live(c)
  BY <1>1, <1>2, <1>4, CostAssumption DEF Live, TypeOK, IInv, CancelledIsLive
<1>5. /\ row'[c] # NoRow => row[c] # NoRow /\ row'[c].cost = row[c].cost
      /\ row'[c] # NoRow /\ row'[c].status = "succeeded" => row'[c] = row[c]
  BY <1>1, <1>2 DEF TypeOK, Rows, Job
<1> QED
  BY <1>3, <1>4, <1>5

LEMMA RestartInv == ASSUME IInv, Restart PROVE IInv'
<1>1. /\ call' = [c \in Calls |-> IF Live(c) THEN Forgotten(c) ELSE call[c]]
      /\ row' = [c \in Calls |-> IF row[c] # NoRow /\ row[c].status = "running"
                                 THEN [row[c] EXCEPT !.status = "uncertain"] ELSE row[c]]
      /\ inflight' = [r \in Requests |-> NoCall] /\ config' = config /\ source' = source
  BY DEF Restart
<1>2. billed' = [c \in Calls |-> IF call[c].phase = "waiting" THEN billed[c] + 1
                               ELSE billed[c]]
  BY DEF Restart
<1>3. TypeOK
  BY DEF IInv, CallsConsistent
<1>4. TypeOK'
  <2>1. faults' \in 0..MaxFaults
    BY <1>3, CostAssumption DEF Restart, Fault, TypeOK
  <2>2. billed' \in [Calls -> Nat]
    BY <1>2, <1>3 DEF TypeOK
  <2>3. \A c \in Calls : row[c] # NoRow =>
           [row[c] EXCEPT !.status = "uncertain"] \in Job
    BY <1>3 DEF TypeOK, Rows, Job, Statuses
  <2>4. row' \in [Calls -> Rows]
    BY <1>1, <1>3, <2>3 DEF TypeOK, Rows
  <2>5. \A c \in Calls : Forgotten(c) \in [phase : Phases, request : Requests \cup {NoCall},
                                           attempt : 0..MaxRetries, cancelled : BOOLEAN]
    BY <1>3, CostAssumption DEF Forgotten, TypeOK, Phases
  <2>6. call' \in [Calls -> [phase : Phases, request : Requests \cup {NoCall},
                            attempt : 0..MaxRetries, cancelled : BOOLEAN]]
    BY <1>1, <1>3, <2>5 DEF TypeOK
  <2> QED
    BY <1>1, <1>3, <2>1, <2>2, <2>4, <2>6 DEF TypeOK
<1>5. OpenCostsAreReserved'
  <2> SUFFICES ASSUME NEW c \in Calls, row'[c] # NoRow,
                      row'[c].status \in {"running", "uncertain", "cancelled"}
               PROVE  PerCall * (billed'[c] + AttemptsLeft(c)') <= row'[c].cost
    BY DEF OpenCostsAreReserved
  <2>1. /\ row[c] # NoRow /\ row'[c].cost = row[c].cost /\ row[c].cost \in Nat
        /\ row[c].status \in {"running", "uncertain", "cancelled"}
    BY <1>1, <1>3 DEF TypeOK, Rows, Job
  <2>2. PerCall * (billed[c] + AttemptsLeft(c)) <= row[c].cost /\ billed[c] \in Nat
    BY <2>1, <1>3 DEF IInv, CallsConsistent, OpenCostsAreReserved, TypeOK
  <2>3. AttemptsLeft(c)' = 0
    BY RestartLeaves DEF AttemptsLeft, Live
  <2>4. AttemptsLeft(c) \in Nat /\ (call[c].phase = "waiting" => AttemptsLeft(c) >= 1)
    BY LeftIsNat
  <2>5. billed'[c] = IF call[c].phase = "waiting" THEN billed[c] + 1 ELSE billed[c]
    BY <1>2
  <2> DEFINE before == billed[c] + AttemptsLeft(c)
             after == billed'[c] + AttemptsLeft(c)'
  <2>6. before \in Nat /\ after \in Nat /\ after <= before
    BY <2>2, <2>3, <2>4, <2>5
  <2>7. PerCall * before <= row[c].cost
    BY <2>2
  <2> HIDE DEF before, after
  <2>8. /\ PerCall * after <= PerCall * before
        /\ PerCall * after \in Nat /\ PerCall * before \in Nat
    BY <2>6, FewerCostLess
  <2>9. PerCall * after <= row'[c].cost
    BY <2>1, <2>7, <2>8
  <2> QED
    BY <2>9 DEF after
<1>6. NeverRunTwice' /\ PurgedSourcesStayPurged'
  <2>1. NeverRunTwice'
    BY RestartLeaves DEF IInv, CallsConsistent, NeverRunTwice
  <2>2. PurgedSourcesStayPurged'
    BY RestartLeaves, <1>1 DEF IInv, CallsConsistent, PurgedSourcesStayPurged, Quotes
  <2> QED
    BY <2>1, <2>2
<1>7. LiveIsInFlight' /\ LiveIsRunning' /\ PaidIsOver' /\ CancelledIsLive'
  BY RestartLeaves DEF LiveIsInFlight, LiveIsRunning, PaidIsOver, CancelledIsLive
<1>8. UnusedIsBlank'
  <2>1. \A c \in Calls : call[c].phase = "unused" => billed'[c] = billed[c]
    BY <1>2
  <2> QED
    BY RestartLeaves, <2>1 DEF IInv, UnusedIsBlank
<1>9. BackoffHasAttempt'
  BY RestartLeaves DEF BackoffHasAttempt, Live
<1> QED
  BY <1>4, <1>5, <1>6, <1>7, <1>8, <1>9 DEF IInv, CallsConsistent

-----------------------------------------------------------------------------
(* The kinds of step: a request starts a call, a call moves on or ends, or   *)
(* the store or the process changes under all of them.                      *)
Starts == \E r \in Requests, c \in Calls : Run(r, c)
GoesOn(c) ==
    \E phase \in {"waiting", "backoff"}, attempt \in Nat, cancelled \in BOOLEAN, amount \in Nat :
        /\ Moves(c, phase, attempt, cancelled, amount)
        /\ call[c].cancelled => attempt = call[c].attempt
Protects ==
    \E s \in Sources, as \in {"student_sensitive", "deleted"} : ProtectSource(s, as)

LEMMA StepKinds ==
  ASSUME IInv, [Next]_vars
  PROVE  \/ Starts
         \/ \E c \in Calls : GoesOn(c) \/ Ends(c)
         \/ Protects \/ Restart
         \/ \E s \in Sources : Retire(s)
         \/ /\ config' \in [cap : Caps, network : BOOLEAN]
            /\ UNCHANGED <<source, row, call, inflight, billed, faults>>
<1>1. TypeOK
  BY DEF IInv, CallsConsistent
<1>2. ASSUME NEW c \in Calls, Cancel(c) PROVE GoesOn(c)
  <2>1. Moves(c, call[c].phase, call[c].attempt, TRUE, 0)
    BY <1>2, CancelMoves
  <2>2. call[c].phase \in {"waiting", "backoff"} /\ call[c].attempt \in Nat
    BY <1>1, <1>2, CostAssumption DEF Cancel, Live, TypeOK
  <2> QED
    BY <2>1, <2>2 DEF GoesOn
<1>3. ASSUME NEW c \in Calls, Retry(c) PROVE GoesOn(c) \/ Ends(c)
  <2>1. CASE call[c].cancelled
    BY <1>3, <2>1, CancelledRetryEnds
  <2>2. CASE ~call[c].cancelled
    <3>1. Moves(c, "waiting", call[c].attempt + 1, call[c].cancelled, 0)
      BY <1>3, <2>2, DispatchMoves
    <3>2. call[c].attempt + 1 \in Nat /\ call[c].cancelled \in BOOLEAN
      BY <1>1, CostAssumption DEF TypeOK
    <3> QED
      BY <2>2, <3>1, <3>2 DEF GoesOn
  <2> QED
    BY <2>1, <2>2
<1>4. ASSUME NEW c \in Calls, ProviderFails(c) PROVE GoesOn(c) \/ Ends(c)
  <2>1. PICK code \in ProviderErrors(c) :
           /\ IF code \in NotCharged THEN UNCHANGED billed ELSE Bill(c)
           /\ IF code \in Transient /\ call[c].attempt < MaxRetries
              THEN /\ call' = [call EXCEPT ![c].phase = "backoff"]
                   /\ UNCHANGED <<config, source, row, inflight, faults>>
              ELSE FinalError(c, code)
    BY <1>4 DEF ProviderFails
  <2>2. PICK amount \in 0..1 : billed' = [billed EXCEPT ![c] = @ + amount]
    <3>1. CASE code \in NotCharged
      <4>1. billed' = [billed EXCEPT ![c] = @ + 0]
        BY <1>1, <2>1, <3>1 DEF TypeOK
      <4> QED
        BY <4>1
    <3>2. CASE code \notin NotCharged
      BY <2>1, <3>2 DEF Bill
    <3> QED
      BY <3>1, <3>2
  <2>3. call[c].phase = "waiting"
    BY <1>4 DEF ProviderFails
  <2>4. CASE code \in Transient /\ call[c].attempt < MaxRetries
    <3>1. Moves(c, "backoff", call[c].attempt, call[c].cancelled, amount)
      BY <2>1, <2>2, <2>3, <2>4, BackoffMoves
    <3>2. call[c].attempt \in Nat /\ call[c].cancelled \in BOOLEAN /\ amount \in Nat
      BY <1>1, CostAssumption DEF TypeOK
    <3> QED
      BY <3>1, <3>2 DEF GoesOn
  <2>5. CASE ~(code \in Transient /\ call[c].attempt < MaxRetries)
    BY <2>1, <2>2, <2>3, <2>5, FinalErrorEnds
  <2> QED
    BY <2>4, <2>5
<1>5. ASSUME NEW c \in Calls, Answer(c) \/ Timeout(c) \/ WriteFails(c) PROVE Ends(c)
  BY <1>5, AnswerEnds, TimeoutEnds, WriteFailsEnds
<1>6. ASSUME NEW s \in Sources, ReclassifySource(s) \/ DeleteSource(s) PROVE Protects
  BY <1>6 DEF ReclassifySource, DeleteSource, Protects
<1>7. CASE Next
  BY <1>2, <1>3, <1>4, <1>5, <1>6, <1>7 DEF Next, Starts, Configure
<1>8. CASE UNCHANGED vars
  BY <1>1, <1>8 DEF vars, TypeOK
<1> QED
  BY <1>7, <1>8

LEMMA StepInv == IInv /\ [Next]_vars => IInv'
<1> SUFFICES ASSUME IInv, [Next]_vars PROVE IInv'
  OBVIOUS
<1>1. CASE Starts
  BY <1>1, RunInv DEF Starts
<1>2. ASSUME NEW c \in Calls, GoesOn(c) PROVE IInv'
  BY <1>2, MovesInv DEF GoesOn
<1>3. ASSUME NEW c \in Calls, Ends(c) PROVE IInv'
  BY <1>3, EndsInv
<1>4. CASE Protects
  BY <1>4, ProtectInv DEF Protects
<1> QED
  BY <1>1, <1>2, <1>3, <1>4, RestartInv, RetireInv, ConfigureInv, StepKinds

(* Jobs, reservations and sources agree in every state, whatever overlaps:  *)
(* an open cost is reserved, one request runs and is paid once, and a       *)
(* purged source leaves no job.                                             *)
THEOREM JobsStayConsistent == Spec => []CallsConsistent
<1>1. IInv => CallsConsistent
  BY DEF IInv
<1> QED
  BY <1>1, InitInv, StepInv, PTL DEF Spec

(* What a step does to a call that was cancelled.                           *)
StaysCancelled(c) ==
    /\ call'[c].attempt <= call[c].attempt
    /\ row'[c] # NoRow => row'[c].status # "succeeded"

LEMMA CancelStep ==
  ASSUME IInv, [Next]_vars, NEW c \in Calls, call[c].cancelled
  PROVE  StaysCancelled(c)
<1>1. /\ TypeOK /\ Live(c) /\ call[c].attempt \in Nat
      /\ row[c] # NoRow => row[c].status = "running"
  BY CostAssumption DEF IInv, CallsConsistent, TypeOK, CancelledIsLive, LiveIsRunning
<1>2. call'[c] = call[c] /\ row'[c] = row[c] => StaysCancelled(c)
  BY <1>1 DEF StaysCancelled
<1>3. ASSUME NEW r \in Requests, NEW d \in Calls, Run(r, d) PROVE StaysCancelled(c)
  <2>1. d # c
    BY <1>1, <1>3 DEF Run, Live
  <2> QED
    BY <1>1, <1>2, <1>3, <2>1 DEF Run, TypeOK
<1>4. ASSUME NEW d \in Calls, GoesOn(d) PROVE StaysCancelled(c)
  <2>1. PICK phase \in {"waiting", "backoff"}, attempt \in Nat,
             cancelled \in BOOLEAN, amount \in Nat :
           /\ Moves(d, phase, attempt, cancelled, amount)
           /\ call[d].cancelled => attempt = call[d].attempt
    BY <1>4 DEF GoesOn
  <2>2. /\ call' = [call EXCEPT ![d] = [phase |-> phase, request |-> call[d].request,
                                       attempt |-> attempt, cancelled |-> cancelled]]
        /\ row' = row
    BY <2>1 DEF Moves
  <2>3. CASE d = c
    BY <1>1, <2>1, <2>2, <2>3 DEF StaysCancelled, TypeOK
  <2>4. CASE d # c
    BY <1>1, <1>2, <2>2, <2>4 DEF TypeOK
  <2> QED
    BY <2>3, <2>4
<1>5. ASSUME NEW d \in Calls, Ends(d) PROVE StaysCancelled(c)
  <2>1. CASE d = c
    <3>1. call'[c].attempt = 0
      BY <1>5, <2>1, EndsCall
    <3>2. row'[c] # NoRow => row'[c].status # "succeeded"
      BY <1>1, <1>5, <2>1 DEF Ends, TypeOK
    <3> QED
      BY <1>1, <3>1, <3>2 DEF StaysCancelled
  <2>2. CASE d # c
    <3>1. row'[c] = row[c]
      BY <1>1, <1>5, <2>2 DEF Ends, TypeOK
    <3> QED
      BY <1>2, <1>5, <2>2, <3>1, EndsCall
  <2> QED
    BY <2>1, <2>2
<1>6. ASSUME NEW s \in Sources, NEW as, ProtectSource(s, as) PROVE StaysCancelled(c)
  BY <1>1, <1>6 DEF ProtectSource, Purged, StaysCancelled
<1>7. CASE Restart
  BY <1>1, <1>7, RestartLeaves DEF StaysCancelled
<1>8. CASE UNCHANGED <<row, call>>
  BY <1>2, <1>8
<1> QED
  BY <1>3, <1>4, <1>5, <1>6, <1>7, <1>8, StepKinds DEF Starts, Protects, Retire

(* After a cancellation no attempt is dispatched and no result committed,   *)
(* in whatever order answers, timers, back-offs and restarts come.          *)
THEOREM CancellationIsFinal == Spec => CancelIsFinal
<1>1. ASSUME IInv, [Next]_vars
      PROVE  [\A c \in Calls : call[c].cancelled =>
                 /\ call'[c].attempt <= call[c].attempt
                 /\ row'[c] # NoRow => row'[c].status # "succeeded"]_vars
  BY <1>1, CancelStep DEF StaysCancelled
<1> QED
  BY <1>1, InitInv, StepInv, PTL DEF Spec, CancelIsFinal

-----------------------------------------------------------------------------
(* Sums over finite sets: SumFunction adds in some order, any gives the same. *)
Chosen(s) == CHOOSE x \in s : TRUE
Adds(g, f) ==
    g = [s \in SUBSET (DOMAIN f) |-> IF s = {} THEN 0 ELSE f[Chosen(s)] + g[s \ {Chosen(s)}]]

LEMMA SumIs ==
  ASSUME NEW f
  PROVE  SumFunction(f) = (CHOOSE g : Adds(g, f))[DOMAIN f]
BY Zenon DEF SumFunction, SumFunctionOnSet, FoldFunctionOnSet, MapThenFoldSet, Adds, Chosen

(* Of subsets of a finite set one is smallest, of numbers one is least. *)
LEMMA SmallestSubset ==
  ASSUME NEW S, IsFiniteSet(S), NEW T, T \subseteq SUBSET S, T # {}
  PROVE  \E s \in T : IsFiniteSet(s) /\ \A x \in s : s \ {x} \notin T
<1>1. IsWellFoundedOn(StrictSubsetOrdering(S), SUBSET S)
  BY FS_StrictSubsetOrderingWellFounded, FS_FiniteSubsetsOfFinite
<1>2. PICK s \in T : \A t \in T : ~(<<t, s>> \in StrictSubsetOrdering(S))
  BY <1>1, WFMin, Zenon
<1>3. ASSUME NEW x \in s PROVE s \ {x} \notin T
  <2>1. s \ {x} \subseteq s /\ s \ {x} # s /\ s \in SUBSET S /\ s \ {x} \in SUBSET S
    BY <1>3
  <2>2. <<s \ {x}, s>> \in StrictSubsetOrdering(S)
    BY <2>1 DEF StrictSubsetOrdering
  <2> QED
    BY <1>2, <2>2
<1>4. IsFiniteSet(s)
  BY FS_Subset
<1> QED
  BY <1>3, <1>4

LEMMA LeastNumber ==
  ASSUME NEW T, T \subseteq Nat, T # {}
  PROVE  \E n \in T : \A m \in T : n <= m
<1>1. PICK n \in T : \A m \in T : ~(<<m, n>> \in OpToRel(<, Nat))
  BY WFMin, NatLessThanWellFounded, Zenon
<1>2. ASSUME NEW m \in T PROVE n <= m
  <2>1. <<m, n>> \in Nat \X Nat /\ <<m, n>> \notin OpToRel(<, Nat)
    BY <1>1
  <2>2. ~(m < n)
    BY <2>1, Zenon DEF OpToRel
  <2> QED
    BY <2>2
<1> QED
  BY <1>2

LEMMA ChosenIn == ASSUME NEW s, s # {} PROVE Chosen(s) \in s
<1>1. \E x \in s : TRUE
  OBVIOUS
<1> QED
  BY <1>1, Zenon DEF Chosen

(* There is such a g: it is built up by the size of the sets.               *)
Level(S, n) == {s \in SUBSET S : Cardinality(s) <= n}
AddsOn(g, f, U) ==
    g = [s \in U |-> IF s = {} THEN 0 ELSE f[Chosen(s)] + g[s \ {Chosen(s)}]]

LEMMA LevelBelow ==
  ASSUME NEW S, IsFiniteSet(S), NEW n \in Nat, NEW s \in Level(S, n), s # {}
  PROVE  n # 0 /\ s \ {Chosen(s)} \in Level(S, n - 1)
<1>1. s \subseteq S /\ IsFiniteSet(s) /\ Cardinality(s) <= n
  BY FS_Subset DEF Level
<1>2. Cardinality(s \ {Chosen(s)}) = Cardinality(s) - 1 /\ Cardinality(s) \in Nat
  BY <1>1, FS_RemoveElement, FS_CardinalityType, ChosenIn
<1>3. Cardinality(s \ {Chosen(s)}) \in Nat
  BY <1>1, FS_Subset, FS_CardinalityType
<1> QED
  BY <1>1, <1>2, <1>3 DEF Level

LEMMA SumsOnLevels ==
  ASSUME NEW f, NEW S, IsFiniteSet(S), NEW n \in Nat
  PROVE  \E g : AddsOn(g, f, Level(S, n))
<1> DEFINE Bad == {m \in Nat : ~ \E g : AddsOn(g, f, Level(S, m))}
<1> SUFFICES ASSUME Bad # {} PROVE FALSE
  OBVIOUS
<1>1. PICK m \in Bad : \A k \in Bad : m <= k
  BY LeastNumber
<1>2. CASE m = 0
  <2> DEFINE h == [s \in Level(S, 0) |-> 0]
  <2>1. \A s \in Level(S, 0) : s = {}
    BY LevelBelow
  <2>2. AddsOn(h, f, Level(S, 0))
    BY <2>1 DEF AddsOn
  <2> QED
    BY <1>2, <2>2
<1>3. CASE m # 0
  <2>1. m - 1 \in Nat /\ m - 1 \notin Bad
    BY <1>1, <1>3
  <2>2. PICK g : AddsOn(g, f, Level(S, m - 1))
    BY <2>1
  <2> DEFINE h == [s \in Level(S, m) |-> IF s = {} THEN 0
                                          ELSE f[Chosen(s)] + g[s \ {Chosen(s)}]]
  <2>3. \A s \in Level(S, m - 1) : s \in Level(S, m) /\ h[s] = g[s]
    <3>1. \A s \in Level(S, m - 1) : s \in Level(S, m)
      <4> SUFFICES ASSUME NEW s \in Level(S, m - 1) PROVE s \in Level(S, m)
        OBVIOUS
      <4>1. Cardinality(s) \in Nat
        BY FS_Subset, FS_CardinalityType DEF Level
      <4> QED
        BY <2>1, <4>1 DEF Level
    <3>2. \A s \in Level(S, m - 1) : g[s] = IF s = {} THEN 0
                                           ELSE f[Chosen(s)] + g[s \ {Chosen(s)}]
      BY <2>2 DEF AddsOn
    <3> QED
      BY <3>1, <3>2
  <2>4. \A s \in Level(S, m) : s # {} => h[s \ {Chosen(s)}] = g[s \ {Chosen(s)}]
    BY <2>3, LevelBelow
  <2>5. AddsOn(h, f, Level(S, m))
    BY <2>4 DEF AddsOn
  <2> QED
    BY <2>5
<1> QED
  BY <1>2, <1>3

LEMMA SumsExist ==
  ASSUME NEW f, IsFiniteSet(DOMAIN f)
  PROVE  \E g : Adds(g, f)
<1> DEFINE n == Cardinality(DOMAIN f)
<1>1. n \in Nat
  BY FS_CardinalityType
<1>2. Level(DOMAIN f, n) = SUBSET (DOMAIN f)
  BY FS_Subset DEF Level
<1> HIDE DEF n
<1>3. PICK g : AddsOn(g, f, Level(DOMAIN f, n))
  BY <1>1, SumsOnLevels
<1> QED
  BY <1>2, <1>3 DEF Adds, AddsOn

(* The sum that is chosen, of every subset.                                 *)
Sums(f) == CHOOSE g : Adds(g, f)

LEMMA SumsAre ==
  ASSUME NEW S, IsFiniteSet(S), NEW f \in [S -> Nat]
  PROVE  /\ SumFunction(f) = Sums(f)[S]
         /\ Sums(f)[{}] = 0
         /\ \A s \in SUBSET S : s # {} =>
               Sums(f)[s] = f[Chosen(s)] + Sums(f)[s \ {Chosen(s)}]
<1>1. DOMAIN f = S
  OBVIOUS
<1>2. \E g : Adds(g, f)
  BY <1>1, SumsExist
<1>3. Adds(Sums(f), f)
  BY <1>2, Zenon DEF Sums
<1>4. SumFunction(f) = Sums(f)[S]
  BY <1>1, SumIs DEF Sums
<1> QED
  BY <1>1, <1>3, <1>4 DEF Adds

LEMMA SumsAreNumbers ==
  ASSUME NEW S, IsFiniteSet(S), NEW f \in [S -> Nat]
  PROVE  \A s \in SUBSET S : Sums(f)[s] \in Nat
<1> DEFINE Bad == {s \in SUBSET S : Sums(f)[s] \notin Nat}
<1> SUFFICES ASSUME Bad # {} PROVE FALSE
  OBVIOUS
<1>1. PICK s \in Bad : \A x \in s : s \ {x} \notin Bad
  BY SmallestSubset
<1>2. CASE s = {}
  BY <1>1, <1>2, SumsAre
<1>3. CASE s # {}
  <2>1. Chosen(s) \in s /\ f[Chosen(s)] \in Nat
    BY <1>3, ChosenIn
  <2>2. Sums(f)[s \ {Chosen(s)}] \in Nat
    BY <1>1, <2>1
  <2>3. Sums(f)[s] = f[Chosen(s)] + Sums(f)[s \ {Chosen(s)}]
    BY <1>1, <1>3, SumsAre
  <2> QED
    BY <1>1, <2>1, <2>2, <2>3
<1> QED
  BY <1>2, <1>3

(* Whichever element is added last.                                         *)
LEMMA AnyOrder ==
  ASSUME NEW S, IsFiniteSet(S), NEW f \in [S -> Nat]
  PROVE  \A s \in SUBSET S : \A x \in s : Sums(f)[s] = f[x] + Sums(f)[s \ {x}]
<1> DEFINE Holds(s) == \A x \in s : Sums(f)[s] = f[x] + Sums(f)[s \ {x}]
           Bad == {s \in SUBSET S : ~Holds(s)}
<1> SUFFICES ASSUME Bad # {} PROVE FALSE
  OBVIOUS
<1>1. PICK s \in Bad : \A x \in s : s \ {x} \notin Bad
  BY SmallestSubset
<1>2. PICK x \in s : Sums(f)[s] # f[x] + Sums(f)[s \ {x}]
  BY <1>1
<1> DEFINE y == Chosen(s)
<1>3. s # {} /\ y \in s /\ s \in SUBSET S
  BY <1>1, <1>2, ChosenIn
<1> HIDE DEF y
<1>4. Sums(f)[s] = f[y] + Sums(f)[s \ {y}]
  BY <1>3, SumsAre DEF y
<1>5. y # x
  BY <1>2, <1>4
<1>6. Sums(f)[s \ {y}] = f[x] + Sums(f)[(s \ {y}) \ {x}]
  BY <1>1, <1>3, <1>5
<1>7. Sums(f)[s \ {x}] = f[y] + Sums(f)[(s \ {x}) \ {y}]
  BY <1>1, <1>3, <1>5
<1>8. (s \ {y}) \ {x} = (s \ {x}) \ {y} /\ (s \ {x}) \ {y} \in SUBSET S
  BY <1>3
<1>9. f[x] \in Nat /\ f[y] \in Nat /\ Sums(f)[(s \ {x}) \ {y}] \in Nat
  BY <1>3, <1>8, SumsAreNumbers
<1> DEFINE rest == Sums(f)[(s \ {x}) \ {y}]
<1>10. Sums(f)[s] = f[y] + (f[x] + rest) /\ Sums(f)[s \ {x}] = f[y] + rest
  BY <1>4, <1>6, <1>7, <1>8
<1>11. f[y] + (f[x] + rest) = f[x] + (f[y] + rest)
  BY <1>9
<1> QED
  BY <1>2, <1>10, <1>11

(* A larger function over more elements has a larger sum.                   *)
LEMMA SumGrows ==
  ASSUME NEW T, IsFiniteSet(T), NEW S \in SUBSET T,
         NEW f \in [S -> Nat], NEW h \in [T -> Nat], \A x \in S : f[x] <= h[x]
  PROVE  /\ SumFunction(f) \in Nat /\ SumFunction(h) \in Nat
         /\ SumFunction(f) <= SumFunction(h)
<1> DEFINE Bad == {t \in SUBSET T : ~(Sums(f)[t \cap S] <= Sums(h)[t])}
<1>0. IsFiniteSet(S)
  BY FS_Subset
<1>9. Sums(f)[{}] = 0 /\ Sums(h)[{}] = 0
  BY <1>0, SumsAre
<1>1. Bad = {}
  <2> SUFFICES ASSUME Bad # {} PROVE FALSE
    OBVIOUS
  <2>1. PICK t \in Bad : \A x \in t : t \ {x} \notin Bad
    BY SmallestSubset
  <2>2. t # {}
    <3>1. {} \cap S = {}
      OBVIOUS
    <3>2. {} \notin Bad
      BY <1>9, <3>1
    <3> QED
      BY <2>1, <3>2
  <2>3. PICK x \in t : TRUE
    BY <2>2
  <2>4. Sums(f)[(t \ {x}) \cap S] <= Sums(h)[t \ {x}]
    BY <2>1, <2>3
  <2>5. /\ Sums(h)[t] = h[x] + Sums(h)[t \ {x}]
        /\ h[x] \in Nat /\ Sums(h)[t \ {x}] \in Nat
    <3>1. t \in SUBSET T /\ t \ {x} \in SUBSET T /\ x \in T
      BY <2>1
    <3>2. Sums(h)[t] = h[x] + Sums(h)[t \ {x}]
      BY <2>3, <3>1, AnyOrder
    <3>3. Sums(h)[t \ {x}] \in Nat
      BY <3>1, SumsAreNumbers
    <3> QED
      BY <3>1, <3>2, <3>3
  <2>6. CASE x \in S
    <3>1. (t \cap S) \ {x} = (t \ {x}) \cap S /\ t \cap S \in SUBSET S /\ x \in t \cap S
      BY <2>3, <2>6
    <3>2. Sums(f)[t \cap S] = f[x] + Sums(f)[(t \ {x}) \cap S]
      BY <1>0, <3>1, AnyOrder
    <3>3. Sums(f)[(t \ {x}) \cap S] \in Nat /\ f[x] \in Nat /\ f[x] <= h[x]
      BY <1>0, <2>6, SumsAreNumbers
    <3>4. Sums(f)[t \cap S] <= Sums(h)[t]
      BY <2>4, <2>5, <3>2, <3>3
    <3> QED
      BY <2>1, <3>4
  <2>7. CASE x \notin S
    <3>1. t \cap S = (t \ {x}) \cap S
      BY <2>7
    <3>2. Sums(f)[(t \ {x}) \cap S] \in Nat
      BY <1>0, SumsAreNumbers
    <3>3. Sums(f)[(t \ {x}) \cap S] <= Sums(h)[t]
      BY <2>4, <2>5, <3>2
    <3>4. Sums(f)[t \cap S] = Sums(f)[(t \ {x}) \cap S]
      BY <3>1
    <3> QED
      BY <2>1, <3>3, <3>4
  <2> QED
    BY <2>6, <2>7
<1>2. Sums(f)[T \cap S] <= Sums(h)[T] /\ T \cap S = S
  BY <1>1
<1>3. SumFunction(f) = Sums(f)[S] /\ SumFunction(h) = Sums(h)[T]
  BY <1>0, SumsAre
<1>4. Sums(f)[S] \in Nat /\ Sums(h)[T] \in Nat
  BY <1>0, SumsAreNumbers
<1> QED
  BY <1>2, <1>3, <1>4

(* One more element adds its value.                                         *)
LEMMA SumAdds ==
  ASSUME NEW T, IsFiniteSet(T), NEW c \in T,
         NEW f \in [T \ {c} -> Nat], NEW h \in [T -> Nat], \A x \in T \ {c} : h[x] = f[x]
  PROVE  SumFunction(h) = h[c] + SumFunction(f)
<1> DEFINE S == T \ {c}
           Bad == {s \in SUBSET S : Sums(h)[s] # Sums(f)[s]}
<1>0. IsFiniteSet(S) /\ f \in [S -> Nat]
  BY FS_Subset
<1> HIDE DEF S
<1>1. Bad = {}
  <2> SUFFICES ASSUME Bad # {} PROVE FALSE
    OBVIOUS
  <2>1. PICK s \in Bad : \A x \in s : s \ {x} \notin Bad
    <3>1. Bad \subseteq SUBSET S /\ Bad # {}
      OBVIOUS
    <3> HIDE DEF Bad
    <3> QED
      BY <1>0, <3>1, SmallestSubset
  <2>2. s # {}
    BY <2>1, <1>0, SumsAre
  <2>3. PICK x \in s : TRUE
    BY <2>2
  <2>4. s \in SUBSET S /\ s \in SUBSET T /\ s \ {x} \in SUBSET S
    BY <2>1 DEF S
  <2>5. Sums(h)[s] = h[x] + Sums(h)[s \ {x}]
    BY <2>3, <2>4, AnyOrder
  <2>6. Sums(f)[s] = f[x] + Sums(f)[s \ {x}]
    BY <1>0, <2>3, <2>4, AnyOrder
  <2>7. h[x] = f[x] /\ Sums(h)[s \ {x}] = Sums(f)[s \ {x}]
    BY <2>1, <2>3, <2>4 DEF S
  <2> QED
    BY <2>1, <2>5, <2>6, <2>7
<1>2. Sums(h)[S] = Sums(f)[S]
  BY <1>1
<1>3. Sums(h)[T] = h[c] + Sums(h)[S]
  BY AnyOrder DEF S
<1> QED
  BY <1>0, <1>2, <1>3, SumsAre

-----------------------------------------------------------------------------
(* The jobs that exist are finitely many, and one that is under way holds    *)
(* exactly the reservation it was made with.                                *)
Made == {c \in Calls : row[c] # NoRow}
LiveIsReserved == \A c \in Calls : Live(c) /\ row[c] # NoRow => row[c].cost = Reservation
BudgetInv == IInv /\ IsFiniteSet(Made) /\ LiveIsReserved

LEMMA InitBudget == Init => BudgetInv
<1> SUFFICES ASSUME Init PROVE BudgetInv
  OBVIOUS
<1>1. IInv
  BY InitInv
<1>2. Made = {} /\ LiveIsReserved
  BY DEF Init, Made, LiveIsReserved
<1> QED
  BY <1>1, <1>2, FS_EmptySet DEF BudgetInv

LEMMA StepBudget == BudgetInv /\ [Next]_vars => BudgetInv'
<1> SUFFICES ASSUME BudgetInv, [Next]_vars PROVE BudgetInv'
  OBVIOUS
<1>1. IInv /\ IInv' /\ TypeOK
  BY StepInv DEF BudgetInv, IInv, CallsConsistent
<1>2. ASSUME NEW c \in Calls, Made' \subseteq Made \cup {c} PROVE IsFiniteSet(Made)'
  <2>1. IsFiniteSet(Made \cup {c})
    BY FS_AddElement DEF BudgetInv
  <2> QED
    BY <1>2, <2>1, FS_Subset
<1>3. Made' \subseteq Made => IsFiniteSet(Made)'
  BY FS_Subset DEF BudgetInv
<1>4. ASSUME Made' \subseteq Made,
             \A c \in Calls : Live(c)' /\ row'[c] # NoRow => Live(c) /\ row'[c] = row[c]
      PROVE  BudgetInv'
  BY <1>1, <1>3, <1>4 DEF BudgetInv, LiveIsReserved
<1>5. ASSUME NEW r \in Requests, NEW c \in Calls, Run(r, c) PROVE BudgetInv'
  <2>1. row' = [row EXCEPT ![c] = [status |-> "running", cost |-> Reservation]]
    BY <1>5 DEF Run
  <2>2. Made' \subseteq Made \cup {c}
    BY <1>1, <2>1 DEF Made, TypeOK
  <2>3. \A d \in Calls \ {c} : row'[d] = row[d] /\ (Live(d)' => Live(d))
    BY <1>1, <1>5 DEF Run, Live, TypeOK
  <2>4. row'[c].cost = Reservation
    BY <1>1, <2>1 DEF TypeOK
  <2>5. LiveIsReserved'
    BY <2>3, <2>4 DEF LiveIsReserved, BudgetInv
  <2> QED
    BY <1>1, <1>2, <2>2, <2>5 DEF BudgetInv
<1>6. ASSUME NEW c \in Calls, GoesOn(c) PROVE BudgetInv'
  <2>1. row' = row /\ \A d \in Calls : Live(d)' => Live(d)
    BY <1>1, <1>6 DEF GoesOn, Moves, Live, TypeOK
  <2> QED
    BY <1>4, <2>1 DEF Made
<1>7. ASSUME NEW c \in Calls, Ends(c) PROVE BudgetInv'
  <2>1. \A d \in Calls : Live(d)' => Live(d) /\ d # c
    BY <1>1, <1>7, EndsCall DEF Live
  <2>2. Made' \subseteq Made /\ \A d \in Calls \ {c} : row'[d] = row[d]
    BY <1>1, <1>7 DEF Ends, Made, TypeOK
  <2> QED
    BY <1>4, <2>1, <2>2
<1>8. CASE Protects
  <2>1. \A c \in Calls : row'[c] # NoRow => row[c] # NoRow /\ row'[c] = row[c]
    BY <1>8 DEF Protects, ProtectSource, Purged
  <2>2. call' = call
    BY <1>8 DEF Protects, ProtectSource
  <2> QED
    BY <1>4, <2>1, <2>2 DEF Made, Live
<1>9. CASE Restart
  BY <1>1, <1>4, <1>9, RestartLeaves DEF Made
<1>10. CASE UNCHANGED <<row, call>>
  BY <1>4, <1>10 DEF Made, Live
<1> QED
  BY <1>1, <1>5, <1>6, <1>7, <1>8, <1>9, <1>10, StepKinds DEF Starts, Retire

(* No step but a new call brings a job back into the sum, and none but a     *)
(* call settled above its reservation makes one dearer.                     *)
NoneDearer == Counted' \subseteq Counted /\ \A c \in Counted' : row'[c].cost <= row[c].cost

LEMMA UpdateIsNotDearer ==
  ASSUME BudgetInv, NEW c \in Calls, Live(c), NEW status, NEW cost \in Nat, cost <= Reservation,
         Update(c, status, cost)
  PROVE  NoneDearer
<1>1. TypeOK
  BY DEF BudgetInv, IInv, CallsConsistent
<1>2. row[c] # NoRow => c \in Counted /\ row[c].cost = Reservation
  BY DEF BudgetInv, IInv, LiveIsRunning, LiveIsReserved, Counted
<1>3. \A d \in Calls : row'[d] = row[d] \/ (d = c /\ row[c] # NoRow /\ row'[d].cost = cost)
  BY <1>1 DEF Update, TypeOK
<1>4. \A d \in Counted : row[d].cost \in Nat
  BY <1>1 DEF TypeOK, Rows, Job, Counted
<1> QED
  BY <1>2, <1>3, <1>4 DEF NoneDearer, Counted

LEMMA SettleIsNotDearer ==
  ASSUME BudgetInv, NEW c \in Calls, Live(c), NEW status,
         NEW cost \in {0, Reserved(c)}, Settle(c, status, cost)
  PROVE  NoneDearer
<1>1. Reserved(c) = Reservation /\ Reservation \in Nat
  BY Price DEF Reserved, BudgetInv, LiveIsReserved
<1>2. cost \in Nat /\ cost <= Reservation
  BY <1>1
<1> QED
  BY <1>2, UpdateIsNotDearer DEF Settle

(* An answer is settled within its reservation, or it overruns it.           *)
LEMMA AnswerIsSettled ==
  ASSUME BudgetInv, NEW c \in Calls, Answer(c)
  PROVE  NoneDearer \/ Overruns(c)
<1>1. Live(c) /\ TypeOK
  BY DEF Answer, Live, BudgetInv, IInv, CallsConsistent
<1>2. CASE call[c].cancelled
  BY <1>1, <1>2, SettleIsNotDearer DEF Answer
<1>3. CASE ~call[c].cancelled
  <2>1. PICK status \in {"succeeded", "failed"}, cost \in Reported \cup {Reservation} :
           Settle(c, status, cost)
    BY <1>3 DEF Answer
  <2>2. Update(c, status, cost) /\ cost \in Nat /\ Reservation \in Nat
    BY <2>1, Price, CostAssumption DEF Settle
  <2>3. CASE cost <= Reservation
    BY <1>1, <2>2, <2>3, UpdateIsNotDearer
  <2>4. CASE row[c] = NoRow
    <3>1. row' = row
      BY <2>2, <2>4 DEF Update
    <3>2. \A d \in Counted : row[d].cost \in Nat
      BY <1>1 DEF TypeOK, Rows, Job, Counted
    <3> QED
      BY <3>1, <3>2 DEF NoneDearer, Counted
  <2>5. CASE ~(cost <= Reservation) /\ row[c] # NoRow
    <3>1. row' = [row EXCEPT ![c] = [status |-> status, cost |-> cost]]
      BY <2>2, <2>5 DEF Update
    <3>2. row'[c] = [status |-> status, cost |-> cost]
      BY <1>1, <3>1 DEF TypeOK
    <3>3. cost > Reservation /\ cost \in Reported
      BY <2>2, <2>5
    <3>4. row[c].cost = Reservation
      BY <1>1, <2>5 DEF BudgetInv, LiveIsReserved
    <3>5. CASE row'[c] = NoRow
      <4>1. \A d \in Calls \ {c} : row'[d] = row[d]
        BY <1>1, <3>1 DEF TypeOK
      <4>2. \A d \in Counted : row[d].cost \in Nat
        BY <1>1 DEF TypeOK, Rows, Job, Counted
      <4> QED
        BY <3>5, <4>1, <4>2 DEF NoneDearer, Counted
    <3>6. CASE row'[c] # NoRow
      BY <1>1, <2>5, <3>2, <3>3, <3>4, <3>6 DEF Overruns
    <3> QED
      BY <3>5, <3>6
  <2> QED
    BY <2>3, <2>4, <2>5
<1> QED
  BY <1>2, <1>3

LEMMA OnlyRunIsDearer ==
  ASSUME BudgetInv, Next, ~Starts
  PROVE  NoneDearer \/ \E c \in Calls : Overruns(c)
<1>1. TypeOK
  BY DEF BudgetInv, IInv, CallsConsistent
<1>2. \A c \in Counted : row[c].cost \in Nat
  BY <1>1 DEF TypeOK, Rows, Job, Counted
<1>3. row' = row => NoneDearer
  BY <1>2 DEF NoneDearer, Counted
<1>4. ASSUME NEW c \in Calls, Answer(c) PROVE NoneDearer \/ Overruns(c)
  BY <1>4, AnswerIsSettled
<1>5. ASSUME NEW c \in Calls, ProviderFails(c) PROVE NoneDearer
  BY <1>3, <1>5, SettleIsNotDearer DEF ProviderFails, FinalError, Live
<1>6. ASSUME NEW c \in Calls, Timeout(c) PROVE NoneDearer
  BY <1>6, SettleIsNotDearer DEF Timeout, Live
<1>7. ASSUME NEW c \in Calls, Retry(c) PROVE NoneDearer
  BY <1>3, <1>7, SettleIsNotDearer DEF Retry, Dispatch, Live
<1>8. ASSUME NEW c \in Calls, WriteFails(c) PROVE NoneDearer
  <2>1. Live(c) /\ Reserved(c) = Reservation /\ Reservation \in Nat
    BY <1>8, Price DEF WriteFails, Live, Reserved, BudgetInv, LiveIsReserved
  <2> QED
    BY <1>3, <1>8, <2>1, UpdateIsNotDearer DEF WriteFails
<1>9. ASSUME NEW s \in Sources, NEW as, ProtectSource(s, as) PROVE NoneDearer
  <2>1. \A c \in Calls : row'[c] # NoRow => row'[c] = row[c]
    BY <1>9 DEF ProtectSource, Purged
  <2> QED
    BY <1>2, <2>1 DEF NoneDearer, Counted
<1>10. CASE Restart
  <2>1. ASSUME NEW c \in Calls, row'[c] # NoRow
        PROVE  /\ row[c] # NoRow /\ row'[c].cost = row[c].cost
               /\ row[c].status = "cancelled" => row'[c].status = "cancelled"
    <3>1. row'[c] = IF row[c] # NoRow /\ row[c].status = "running"
                    THEN [row[c] EXCEPT !.status = "uncertain"] ELSE row[c]
      BY <1>10 DEF Restart
    <3> QED
      BY <1>10, <2>1, <3>1, RestartLeaves DEF BudgetInv
  <2>2. ASSUME NEW c \in Counted' PROVE c \in Counted /\ row'[c].cost = row[c].cost
    <3>1. c \in Calls /\ row'[c] # NoRow /\ row'[c].status # "cancelled"
      BY <2>2 DEF Counted
    <3>2. row[c] # NoRow /\ row'[c].cost = row[c].cost /\ row[c].status # "cancelled"
      BY <2>1, <3>1
    <3> QED
      BY <3>1, <3>2 DEF Counted
  <2> QED
    BY <1>2, <2>2 DEF NoneDearer
<1> QED
  BY <1>3, <1>4, <1>5, <1>6, <1>7, <1>8, <1>9, <1>10
     DEF Next, Starts, Cancel, Retire, ReclassifySource, DeleteSource, Configure

LEMMA SpentIsFinite ==
  ASSUME BudgetInv
  PROVE  IsFiniteSet(Counted) /\ [c \in Counted |-> row[c].cost] \in [Counted -> Nat]
<1>1. Counted \subseteq Made
  BY DEF Counted, Made
<1>2. \A c \in Counted : row[c].cost \in Nat
  BY DEF Counted, BudgetInv, IInv, CallsConsistent, TypeOK, Rows, Job
<1> QED
  BY <1>1, <1>2, FS_Subset DEF BudgetInv

(* A step that makes no job dearer does not add to what is spent.            *)
LEMMA SpendsNoMore ==
  ASSUME BudgetInv, BudgetInv', NoneDearer
  PROVE  ~(BudgetSpent' > BudgetSpent)
<1> DEFINE f == [c \in Counted |-> row[c].cost]
           g == [c \in Counted' |-> row'[c].cost]
<1>1. IsFiniteSet(Counted) /\ f \in [Counted -> Nat]
  BY SpentIsFinite
<1>2. g \in [Counted' -> Nat]
  BY DEF Counted, BudgetInv, IInv, CallsConsistent, TypeOK, Rows, Job
<1>3. Counted' \in SUBSET Counted /\ \A c \in Counted' : g[c] <= f[c]
  BY DEF NoneDearer
<1>4. BudgetSpent = SumFunction(f) /\ BudgetSpent' = SumFunction(g)
  BY DEF BudgetSpent
<1> HIDE DEF f, g
<1> QED
  BY <1>1, <1>2, <1>3, <1>4, SumGrows

(* A new call adds its reservation, for which there was room.                *)
LEMMA RunSpends ==
  ASSUME BudgetInv, BudgetInv', NEW r \in Requests, NEW c \in Calls, Run(r, c),
         config.cap > 0
  PROVE  ~(BudgetSpent' > BudgetSpent) \/ BudgetSpent' <= config.cap
<1>1. TypeOK /\ row[c] = NoRow
  BY DEF BudgetInv, IInv, CallsConsistent, UnusedIsBlank, Run
<1>2. row' = [row EXCEPT ![c] = [status |-> "running", cost |-> Reservation]]
  BY DEF Run
<1>3. /\ \A d \in Calls \ {c} : row'[d] = row[d]
      /\ row'[c] = [status |-> "running", cost |-> Reservation]
  BY <1>1, <1>2 DEF TypeOK
<1>4. CASE row'[c] = NoRow
  <2>1. NoneDearer
    <3>1. \A d \in Counted : row[d].cost \in Nat
      BY <1>1 DEF TypeOK, Rows, Job, Counted
    <3> QED
      BY <1>3, <1>4, <3>1 DEF NoneDearer, Counted
  <2> QED
    BY <2>1, SpendsNoMore
<1>5. CASE row'[c] # NoRow
  <2> DEFINE T == Counted'
             f == [d \in T \ {c} |-> row[d].cost]
             h == [d \in T |-> row'[d].cost]
  <2>1. c \in T /\ T \ {c} = Counted
    BY <1>1, <1>3, <1>5 DEF Counted
  <2>2. IsFiniteSet(T) /\ h \in [T -> Nat]
    <3>1. IsFiniteSet(T)
      BY <2>1, SpentIsFinite, FS_AddElement
    <3>2. \A d \in T : row'[d].cost \in Nat
      BY DEF Counted, BudgetInv, IInv, CallsConsistent, TypeOK, Rows, Job
    <3> QED
      BY <3>1, <3>2
  <2>3. f \in [T \ {c} -> Nat] /\ \A d \in T \ {c} : h[d] = f[d]
    <3>1. \A d \in T \ {c} : d \in Calls /\ row'[d] = row[d] /\ h[d] = row'[d].cost
      BY <1>3, <2>1 DEF Counted
    <3> QED
      BY <2>2, <3>1
  <2>4. BudgetSpent = SumFunction(f) /\ BudgetSpent' = SumFunction(h)
    BY <2>1 DEF BudgetSpent
  <2>5. h[c] = Reservation
    BY <1>3, <2>1
  <2> HIDE DEF T, f, h
  <2>6. BudgetSpent' = Reservation + BudgetSpent
    BY <2>1, <2>2, <2>3, <2>4, <2>5, SumAdds
  <2>7. BudgetSpent + Reservation <= config.cap
    BY DEF Run, CanReserve
  <2>8. BudgetSpent \in Nat
    <3>1. IsFiniteSet(T \ {c}) /\ T \ {c} \in SUBSET (T \ {c})
      BY <2>1, SpentIsFinite
    <3>2. \A d \in T \ {c} : f[d] <= f[d]
      BY <2>3
    <3> QED
      BY <2>3, <2>4, <3>1, <3>2, SumGrows
  <2> QED
    BY <2>6, <2>7, <2>8, Price
<1> QED
  BY <1>4, <1>5

(* A job that is not running is not written again, only deleted.             *)
LEMMA SettledStays ==
  ASSUME IInv, [Next]_vars, NEW c \in Calls, row[c] # NoRow, row[c].status # "running"
  PROVE  row'[c] \in {row[c], NoRow}
<1>1. TypeOK /\ ~Live(c) /\ call[c].phase # "unused"
  BY DEF IInv, CallsConsistent, LiveIsRunning, UnusedIsBlank
<1>2. ASSUME NEW r \in Requests, NEW d \in Calls, Run(r, d) PROVE row'[c] = row[c]
  <2>1. d # c
    BY <1>1, <1>2 DEF Run
  <2> QED
    BY <1>1, <1>2, <2>1 DEF Run, TypeOK
<1>3. ASSUME NEW d \in Calls, GoesOn(d) PROVE row'[c] = row[c]
  BY <1>3 DEF GoesOn, Moves
<1>4. ASSUME NEW d \in Calls, Ends(d) PROVE row'[c] = row[c]
  <2>1. d # c
    BY <1>1, <1>4 DEF Ends
  <2> QED
    BY <1>1, <1>4, <2>1 DEF Ends, TypeOK
<1>5. CASE Protects
  BY <1>5 DEF Protects, ProtectSource, Purged
<1>6. CASE Restart
  BY <1>6 DEF Restart
<1> QED
  BY <1>2, <1>3, <1>4, <1>5, <1>6, StepKinds DEF Starts, Retire

(* Whatever overlaps and whatever providers report, only a call settled       *)
(* above its own reservation takes what is spent and reserved above the cap, *)
(* and a settled cost is never written again.                               *)
THEOREM SpendingIsReservedFirst == Spec => SpendingFollowsTheCap
<1>1. ASSUME BudgetInv, BudgetInv', [Next]_vars
      PROVE  [/\ BudgetSpent' > BudgetSpent /\ config.cap > 0 =>
                     BudgetSpent' <= config.cap \/ \E c \in Calls : Overruns(c)
              /\ \A c \in Calls : row[c] # NoRow /\ row[c].status # "running" =>
                     row'[c] \in {row[c], NoRow}]_vars
  <2>1. ASSUME NoneDearer PROVE ~(BudgetSpent' > BudgetSpent)
    BY <1>1, <2>1, SpendsNoMore
  <2>2. \A c \in Calls : row[c] # NoRow /\ row[c].status # "running" =>
           row'[c] \in {row[c], NoRow}
    BY <1>1, SettledStays DEF BudgetInv
  <2>3. CASE Starts /\ config.cap > 0
    <3>1. PICK r \in Requests, c \in Calls : Run(r, c)
      BY <2>3 DEF Starts
    <3>2. ~(BudgetSpent' > BudgetSpent) \/ BudgetSpent' <= config.cap
      BY <1>1, <2>3, <3>1, RunSpends
    <3> QED
      BY <2>2, <3>2
  <2>4. CASE Next /\ ~Starts
    BY <1>1, <2>1, <2>2, <2>4, OnlyRunIsDearer
  <2>5. CASE Starts /\ ~(config.cap > 0)
    BY <2>2, <2>5
  <2> QED
    BY <1>1, <2>3, <2>4, <2>5
<1> QED
  BY <1>1, InitBudget, StepBudget, PTL DEF Spec, SpendingFollowsTheCap

=============================================================================
