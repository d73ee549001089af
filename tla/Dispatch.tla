------------------------------- MODULE Dispatch -------------------------------
(***************************************************************************)
(* The life of a request: handleLoadBalancedRequest (cmd/loadbalancer/     *)
(* main.go, served at /lb/) and handleTest (internal/api/api.go, served at *)
(* /api/test) pick a server, count the request against it, give up if it   *)
(* is busy, forward it, report the outcome to the circuit breaker and try  *)
(* another server on failure.  Every handler is a goroutine; they run      *)
(* concurrently with each other, with the breaker's monitor, the health    *)
(* checker and the operator calls toggleServer, resetServer, updateConfig. *)
(*                                                                         *)
(* Grain.  A step is one critical section (the pick, under Balancer.mu),   *)
(* one atomic operation on ActiveRequests, or one call of the breaker or   *)
(* of an operator on a server record.  Those last calls are not            *)
(* synchronised in the code; the interleavings of their memory accesses    *)
(* are the subject of module Breaker.                                      *)
(***************************************************************************)
EXTENDS Balancer, Integers, FiniteSets

CONSTANTS
  Requests,          \* handler goroutines, one per HTTP request
  TestRequests,      \* those that run handleTest; the others proxy /lb/
  Operators,         \* goroutines serving toggle and reset calls
  SessionOf,         \* session_id cookie of a request, or NoSession
  HomeOf,            \* the server its client IP hashes to
  Faulty,            \* servers whose backend may fail a forwarded request
  BusyThreshold,     \* lb.BusyThreshold
  FailureThreshold,  \* CircuitBreakerSettings.FailureThreshold
  TrialRequests      \* CircuitBreakerSettings.TrialRequests

(* The thresholds are environment variables read with Atoi, 0 meaning the  *)
(* default; a negative one acts like 1, so positive ones are enough.       *)
ASSUME DispatchAssumption ==
  /\ IsFiniteSet(Servers)
  /\ IsFiniteSet(Requests)
  /\ TestRequests \subseteq Requests
  /\ NoServer \notin Servers
  /\ NoSession \notin Sessions
  /\ Configs \subseteq [sticky : BOOLEAN, ipHash : BOOLEAN]
  /\ SessionOf \in [Requests -> Sessions \cup {NoSession}]
  /\ HomeOf \in [Requests -> Servers]
  /\ Faulty \subseteq Servers
  /\ BusyThreshold \in Nat
  /\ FailureThreshold \in Nat \ {0}
  /\ TrialRequests \in Nat \ {0}

VARIABLES
  failures,   \* Server.FailureCount, capped at FailureThreshold
  trials,     \* Server.TrialSuccessCount
  active,     \* Server.ActiveRequests
  pc,         \* where each handler is
  target,     \* its local srv
  attempt,    \* its loop counter
  attempted,  \* its local map of server IDs already tried
  aborted,    \* /lb/ requests whose client went away (r.Context() is done)
  opPc,       \* where each operator call is
  opTarget,   \* its targetServer
  drained     \* history: decrements of active[s] made by operator calls

serverVars  == <<breaker, ping, failures, trials>>
configVars  == <<useStickySessions, useIPHash>>
handlerVars == <<pc, target, attempt, attempted>>
opVars      == <<opPc, opTarget>>
vars == <<serverVars, configVars, sessionToSrv, active, handlerVars, aborted,
          opVars, drained>>

(***************************************************************************)
(* Program points of a handler:                                            *)
(*   picking     about to call PickServerWithExclude                       *)
(*   dispatched  a server is chosen, BeginRequest not called yet           *)
(*   busy        counted, found the server busy, EndRequest pending        *)
(*   forwarding  counted, waiting for the backend                          *)
(*   failing     failed and uncounted, RecordFailure pending               *)
(*   succeeding  RecordSuccess done, still counted, EndRequest pending     *)
(*   served / refused / rejected  answered 2xx-4xx / 503 / 400             *)
(***************************************************************************)
Counted  == {"busy", "forwarding", "succeeding"}
Engaged  == Counted \cup {"dispatched", "failing"}
Answered == {"served", "refused", "rejected"}
HandlerPc == {"idle", "picking"} \cup Engaged \cup Answered

InFlight(s)   == {r \in Requests : target[r] = s /\ pc[r] \in Counted}
Forwarding(s) == {r \in Requests : target[r] = s /\ pc[r] = "forwarding"}

TypeOK ==
  /\ BalancerTypeOK
  /\ failures \in [Servers -> 0..FailureThreshold]
  /\ trials \in [Servers -> 0..TrialRequests]
  /\ active \in [Servers -> Int]
  /\ pc \in [Requests -> HandlerPc]
  /\ target \in [Requests -> Servers \cup {NoServer}]
  /\ \A r \in Requests : target[r] # NoServer <=> pc[r] \in Engaged
  /\ attempt \in [Requests -> Nat]
  /\ attempted \in [Requests -> SUBSET Servers]
  /\ aborted \subseteq Requests
  /\ opPc \in [Operators -> {"idle", "test", "end"}]
  /\ opTarget \in [Operators -> Servers \cup {NoServer}]
  /\ \A o \in Operators : opTarget[o] # NoServer <=> opPc[o] # "idle"
  /\ drained \in [Servers -> Nat]

Init ==
  /\ BalancerInit
  /\ failures = [s \in Servers |-> 0]
  /\ trials = [s \in Servers |-> 0]
  /\ active = [s \in Servers |-> 0]
  /\ pc = [r \in Requests |-> "idle"]
  /\ target = [r \in Requests |-> NoServer]
  /\ attempt = [r \in Requests |-> 0]
  /\ attempted = [r \in Requests |-> {}]
  /\ aborted = {}
  /\ opPc = [o \in Operators |-> "idle"]
  /\ opTarget = [o \in Operators |-> NoServer]
  /\ drained = [s \in Servers |-> 0]

-------------------------------------------------------------------------------
(* The request handlers.                                                   *)

At(r, point) == pc[r] = point

Goto(r, point) == pc' = [pc EXCEPT ![r] = point]

(* Back to the head of the loop, or out of the handler: srv goes out of scope. *)
Leave(r, point) ==
  /\ Goto(r, point)
  /\ target' = [target EXCEPT ![r] = NoServer]

Arrive(r) ==
  /\ At(r, "idle")
  /\ Goto(r, "picking")
  /\ UNCHANGED <<serverVars, configVars, sessionToSrv, active, target, attempt,
                 attempted, aborted, opVars, drained>>

(* io.ReadAll of a proxied request's body fails.                           *)
RejectBody(r) ==
  /\ At(r, "idle")
  /\ r \notin TestRequests
  /\ Goto(r, "rejected")
  /\ UNCHANGED <<serverVars, configVars, sessionToSrv, active, target, attempt,
                 attempted, aborted, opVars, drained>>

(* The loop runs at most totalServers times.                               *)
MoreAttemptsOffByOne(r) == attempt[r] + 1 < Cardinality(Servers)  \* mutant

MoreAttempts(r) == attempt[r] < Cardinality(Servers)

Pick(r, s) ==
  /\ At(r, "picking")
  /\ MoreAttempts(r)
  /\ PickServer(SessionOf[r], HomeOf[r], attempted[r], s)
  /\ Goto(r, "dispatched")
  /\ target' = [target EXCEPT ![r] = s]
  /\ attempt' = [attempt EXCEPT ![r] = @ + 1]
  /\ attempted' = [attempted EXCEPT ![r] = @ \cup {s}]
  /\ UNCHANGED <<failures, trials, active, aborted, opVars, drained>>

RefuseAtLimitOnly(r) ==  \* mutant: the nil server of an empty pick not handled
  /\ At(r, "picking")
  /\ ~MoreAttempts(r)
  /\ Leave(r, "refused")
  /\ UNCHANGED <<serverVars, configVars, sessionToSrv, active, attempt,
                 attempted, aborted, opVars, drained>>

Refuse(r) ==
  /\ At(r, "picking")
  /\ \/ ~MoreAttempts(r)
     \/ Picks(SessionOf[r], HomeOf[r], attempted[r]) = {}
  /\ Leave(r, "refused")
  /\ UNCHANGED <<serverVars, configVars, sessionToSrv, active, attempt,
                 attempted, aborted, opVars, drained>>

BeginRequestOnOldValue(r) ==  \* mutant: compares the value before the increment
  LET s == target[r] IN
  /\ At(r, "dispatched")
  /\ active' = [active EXCEPT ![s] = @ + 1]
  /\ Goto(r, IF active[s] > BusyThreshold THEN "busy" ELSE "forwarding")
  /\ UNCHANGED <<serverVars, configVars, sessionToSrv, target, attempt,
                 attempted, aborted, opVars, drained>>

(* The counter is bumped first and its new value decides.                  *)
BeginRequest(r) ==
  LET s == target[r] IN
  /\ At(r, "dispatched")
  /\ active' = [active EXCEPT ![s] = @ + 1]
  /\ Goto(r, IF active[s] + 1 > BusyThreshold THEN "busy" ELSE "forwarding")
  /\ UNCHANGED <<serverVars, configVars, sessionToSrv, target, attempt,
                 attempted, aborted, opVars, drained>>

EndRequest(r) == active' = [active EXCEPT ![target[r]] = @ - 1]

Reroute(r) ==
  /\ At(r, "busy")
  /\ EndRequest(r)
  /\ Leave(r, "picking")
  /\ UNCHANGED <<serverVars, configVars, sessionToSrv, attempt, attempted,
                 aborted, opVars, drained>>

(* The backend errs, times out or answers 5xx, the client's context is     *)
(* done, or handleTest rolls a simulated failure.                          *)
CanFail(r) == r \in TestRequests \/ r \in aborted \/ target[r] \in Faulty

BackendFailsLeaking(r) ==  \* mutant: no EndRequest on the failure path
  /\ At(r, "forwarding")
  /\ CanFail(r)
  /\ Goto(r, "failing")
  /\ UNCHANGED <<serverVars, configVars, sessionToSrv, active, target, attempt,
                 attempted, aborted, opVars, drained>>

BackendFails(r) ==
  /\ At(r, "forwarding")
  /\ CanFail(r)
  /\ EndRequest(r)
  /\ Goto(r, "failing")
  /\ UNCHANGED <<serverVars, configVars, sessionToSrv, target, attempt,
                 attempted, aborted, opVars, drained>>

RecordFailure(r) ==
  LET s == target[r]
      tripped == breaker[s] = "closed" /\ failures[s] + 1 >= FailureThreshold
  IN
  /\ At(r, "failing")
  /\ failures' = [failures EXCEPT ![s] = IF @ < FailureThreshold THEN @ + 1 ELSE @]
  /\ breaker' = [breaker EXCEPT ![s] =
                   IF tripped \/ @ = "halfOpen" THEN "open" ELSE @]
  /\ Leave(r, "picking")
  /\ UNCHANGED <<ping, trials, configVars, sessionToSrv, active, attempt,
                 attempted, aborted, opVars, drained>>

RecordSuccessNeverClosing(r) ==  \* mutant: trials are counted for nothing
  LET s == target[r] IN
  /\ At(r, "forwarding")
  /\ r \notin aborted
  /\ failures' = [failures EXCEPT ![s] = IF breaker[s] = "closed" THEN 0 ELSE @]
  /\ trials' = [trials EXCEPT ![s] = IF breaker[s] = "halfOpen" THEN @ + 1 ELSE @]
  /\ Goto(r, "succeeding")
  /\ UNCHANGED <<breaker, ping, configVars, sessionToSrv, active, target, attempt,
                 attempted, aborted, opVars, drained>>

RecordSuccessKeepingTrials(r) ==  \* mutant: TrialSuccessCount is not reset
  LET s == target[r]
      proven == breaker[s] = "halfOpen" /\ trials[s] + 1 >= TrialRequests
  IN
  /\ At(r, "forwarding")
  /\ r \notin aborted
  /\ breaker' = [breaker EXCEPT ![s] = IF proven THEN "closed" ELSE @]
  /\ failures' = [failures EXCEPT ![s] =
                    IF breaker[s] = "closed" \/ proven THEN 0 ELSE @]
  /\ trials' = [trials EXCEPT ![s] = IF breaker[s] = "halfOpen" THEN @ + 1 ELSE @]
  /\ Goto(r, "succeeding")
  /\ UNCHANGED <<ping, configVars, sessionToSrv, active, target, attempt,
                 attempted, aborted, opVars, drained>>

RecordSuccess(r) ==
  LET s == target[r]
      proven == breaker[s] = "halfOpen" /\ trials[s] + 1 >= TrialRequests
  IN
  /\ At(r, "forwarding")
  /\ r \notin aborted
  /\ breaker' = [breaker EXCEPT ![s] = IF proven THEN "closed" ELSE @]
  /\ failures' = [failures EXCEPT ![s] =
                    IF breaker[s] = "closed" \/ proven THEN 0 ELSE @]
  /\ trials' = [trials EXCEPT ![s] =
                  IF proven THEN 0
                  ELSE IF breaker[s] = "halfOpen" THEN @ + 1
                  ELSE @]
  /\ Goto(r, "succeeding")
  /\ UNCHANGED <<ping, configVars, sessionToSrv, active, target, attempt,
                 attempted, aborted, opVars, drained>>

Complete(r) ==
  /\ At(r, "succeeding")
  /\ EndRequest(r)
  /\ Leave(r, "served")
  /\ UNCHANGED <<serverVars, configVars, sessionToSrv, attempt, attempted,
                 aborted, opVars, drained>>

(* The client of a proxied request disconnects: net/http cancels           *)
(* r.Context(), which every later forward of the request runs under.       *)
ClientAborts(r) ==
  /\ r \notin TestRequests
  /\ pc[r] \in Engaged \cup {"picking"}
  /\ aborted' = aborted \cup {r}
  /\ UNCHANGED <<serverVars, configVars, sessionToSrv, active, handlerVars,
                 opVars, drained>>

HandlerStep(r) ==
  \/ \E s \in Servers : Pick(r, s)
  \/ Refuse(r)
  \/ BeginRequest(r)
  \/ Reroute(r)
  \/ BackendFails(r)
  \/ RecordFailure(r)
  \/ RecordSuccess(r)
  \/ Complete(r)

-------------------------------------------------------------------------------
(* The operator calls of the dashboards.                                   *)

StartDrain(o, s) ==
  /\ opPc' = [opPc EXCEPT ![o] = "test"]
  /\ opTarget' = [opTarget EXCEPT ![o] = s]

ClearBreaker(s, state) ==
  /\ breaker' = [breaker EXCEPT ![s] = state]
  /\ failures' = [failures EXCEPT ![s] = 0]
  /\ trials' = [trials EXCEPT ![s] = 0]

Enable(o, s) ==
  /\ opPc[o] = "idle"
  /\ ~ping[s]
  /\ ping' = [ping EXCEPT ![s] = TRUE]
  /\ ClearBreaker(s, "closed")
  /\ UNCHANGED <<configVars, sessionToSrv, active, handlerVars, aborted,
                 opVars, drained>>

Disable(o, s) ==
  /\ opPc[o] = "idle"
  /\ ping[s]
  /\ ping' = [ping EXCEPT ![s] = FALSE]
  /\ ClearBreaker(s, "open")
  /\ StartDrain(o, s)
  /\ UNCHANGED <<configVars, sessionToSrv, active, handlerVars, aborted, drained>>

toggleServer(o, s) == Enable(o, s) \/ Disable(o, s)

resetServer(o, s) ==
  /\ opPc[o] = "idle"
  /\ ping' = [ping EXCEPT ![s] = TRUE]
  /\ ClearBreaker(s, "closed")
  /\ StartDrain(o, s)
  /\ UNCHANGED <<configVars, sessionToSrv, active, handlerVars, aborted, drained>>

(* for server.GetActiveRequests(srv) > 0 { server.EndRequest(srv) }, the   *)
(* loop at the end of both calls: the test and the decrement are two       *)
(* separate atomic operations.                                             *)
DrainTest(o) ==
  /\ opPc[o] = "test"
  /\ IF active[opTarget[o]] > 0
     THEN opPc' = [opPc EXCEPT ![o] = "end"] /\ UNCHANGED opTarget
     ELSE /\ opPc' = [opPc EXCEPT ![o] = "idle"]
          /\ opTarget' = [opTarget EXCEPT ![o] = NoServer]
  /\ UNCHANGED <<serverVars, configVars, sessionToSrv, active, handlerVars,
                 aborted, drained>>

DrainEnd(o) ==
  LET s == opTarget[o] IN
  /\ opPc[o] = "end"
  /\ active' = [active EXCEPT ![s] = @ - 1]
  /\ drained' = [drained EXCEPT ![s] = @ + 1]
  /\ opPc' = [opPc EXCEPT ![o] = "test"]
  /\ UNCHANGED <<serverVars, configVars, sessionToSrv, handlerVars, aborted,
                 opTarget>>

DrainStep(o) == DrainTest(o) \/ DrainEnd(o)

(* The two flags are assigned one after the other, without a lock, by any  *)
(* number of calls at once: each can change at any time.                   *)
updateConfig ==
  /\ \E c \in Configs : \/ useIPHash' = c.ipHash /\ UNCHANGED useStickySessions
                        \/ useStickySessions' = c.sticky /\ UNCHANGED useIPHash
  /\ UNCHANGED <<serverVars, sessionToSrv, active, handlerVars, aborted,
                 opVars, drained>>

-------------------------------------------------------------------------------
(* The background goroutines, one server of their loop at a time.          *)

(* MonitorServers finds s Open for at least CooldownPeriod.  The period is *)
(* configurable, so any delay is possible.                                 *)
MonitorServers(s) ==
  /\ breaker[s] = "open"
  /\ breaker' = [breaker EXCEPT ![s] = "halfOpen"]
  /\ trials' = [trials EXCEPT ![s] = 0]
  /\ UNCHANGED <<ping, failures, configVars, sessionToSrv, active, handlerVars,
                 aborted, opVars, drained>>

(* checkServers through FetchMetrics: the simulated ping overwrites        *)
(* PingStatus, whoever wrote it last.                                      *)
checkServers(s) ==
  /\ \E up \in BOOLEAN : ping' = [ping EXCEPT ![s] = up]
  /\ UNCHANGED <<breaker, failures, trials, configVars, sessionToSrv, active,
                 handlerVars, aborted, opVars, drained>>

-------------------------------------------------------------------------------
Next ==
  \/ \E r \in Requests :
        Arrive(r) \/ RejectBody(r) \/ HandlerStep(r) \/ ClientAborts(r)
  \/ \E o \in Operators, s \in Servers : toggleServer(o, s) \/ resetServer(o, s)
  \/ \E o \in Operators : DrainStep(o)
  \/ updateConfig
  \/ \E s \in Servers : MonitorServers(s) \/ checkServers(s)

(* A runnable goroutine is eventually scheduled, sync.Mutex hands itself   *)
(* over in bounded time, and the HTTP client's 5 second timeout ends every *)
(* forward: an accepted request keeps moving, and so do an operator call   *)
(* and the monitor.  Nothing obliges clients, operators or pings.          *)
Fairness ==
  /\ \A r \in Requests : WF_vars(HandlerStep(r))
  /\ \A o \in Operators : WF_vars(DrainStep(o))
  /\ \A s \in Servers : WF_vars(MonitorServers(s))

Spec == Init /\ [][Next]_vars

FairSpec == Spec /\ Fairness

-------------------------------------------------------------------------------
(* Correctness.                                                            *)

(* ActiveRequests is the number of requests in flight, less what operator  *)
(* calls drained: every path through the handlers (busy, failed, served)   *)
(* pairs its BeginRequest with exactly one EndRequest on the same server,  *)
(* so the counter never over-reports and never leaks.                      *)
Accounting ==
  \A s \in Servers : active[s] = Cardinality(InFlight(s)) - drained[s]

(* However handlers interleave between the increment and the comparison, a *)
(* server is never forwarded more than BusyThreshold requests at once, as  *)
(* long as no operator call has drained its counter; each drained unit     *)
(* lets one more through.                                                  *)
BusyCap ==
  \A s \in Servers : Cardinality(Forwarding(s)) <= BusyThreshold + drained[s]

(* The attempted map and the loop counter agree: no strategy (sticky       *)
(* session, IP hash, round robin) ever returns a server the same request   *)
(* has tried before.                                                       *)
AttemptsDistinct ==
  \A r \in Requests : attempt[r] = Cardinality(attempted[r])

(* A closed breaker is never one that should have tripped, nor one that    *)
(* starts its next trial period with credit from an earlier one, and a     *)
(* half-open breaker has not passed its trial yet: the resets scattered    *)
(* over RecordSuccess, MonitorServers, toggleServer and resetServer agree. *)
BreakerCounters ==
  \A s \in Servers :
     /\ breaker[s] = "closed" => failures[s] < FailureThreshold /\ trials[s] = 0
     /\ breaker[s] = "halfOpen" => trials[s] < TrialRequests

(* 503 is a last resort: at the moment a request is refused every server   *)
(* it has not tried yet is offline or has a breaker that is not closed.    *)
RefusesWhenExhausted ==
  \A r \in Requests :
     pc[r] = "picking" /\ pc'[r] = "refused" =>
       \A s \in Servers \ attempted[r] : ~ping[s] \/ breaker[s] # "closed"

RefusedOnlyWhenExhausted == [][RefusesWhenExhausted]_vars

(* A session is moved off its server only for cause: sticky sessions found *)
(* the server's breaker not closed, the request moving it had already      *)
(* tried that server, or sticky sessions were off when it chose.           *)
MovesForCause ==
  \A x \in Sessions :
     LET s == sessionToSrv[x] IN
     sessionToSrv'[x] # s /\ s # NoServer =>
       \/ breaker[s] # "closed"
       \/ ~useStickySessions
       \/ \E r \in Requests : /\ SessionOf[r] = x
                              /\ pc[r] = "picking" /\ pc'[r] = "dispatched"
                              /\ s \in attempted[r]

SessionMovesForCause == [][MovesForCause]_vars

(* Every accepted request is answered: busy servers, failures and other    *)
(* requests' reroutes cannot keep one in the retry loop for ever.          *)
RequestsAnswered ==
  \A r \in Requests : pc[r] = "picking" ~> pc[r] \in Answered

(* What a client sees of Dispatch, in the terms of module Failover: a busy *)
(* server is one that is skipped, and the request is answered as soon as   *)
(* the breaker has been told of the success.  The capacity lent to a       *)
(* server is what operator calls drained from its counter.                 *)
Promise == INSTANCE Failover WITH
  Capacity <- BusyThreshold,
  tried    <- attempted,
  assigned <- [r \in Requests |->
                 IF pc[r] \in {"dispatched", "busy", "forwarding"}
                 THEN target[r] ELSE NoServer],
  working  <- {r \in Requests : pc[r] = "forwarding"},
  answer   <- [r \in Requests |->
                 IF pc[r] \in {"succeeding", "served"} THEN "served"
                 ELSE IF pc[r] \in {"refused", "rejected"} THEN "refused"
                 ELSE "none"],
  lent     <- drained

(* Dispatch implements Failover: retries go to servers not tried before,   *)
(* admission respects the capacity, and every request has one answer.      *)
ImplementsFailover == Promise!Spec

(* readme.md:19, "Servers marked PingStatus = false, or whose circuit      *)
(* breaker is Open, are skipped": no pick returns a server that is marked  *)
(* offline at that moment.                                                 *)
OfflineSkipped ==
  [][\A r \in Requests, s \in Servers :
        target[r] = NoServer /\ target'[r] = s => ping[s]]_vars

===============================================================================
