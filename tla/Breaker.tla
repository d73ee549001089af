-------------------------------- MODULE Breaker --------------------------------
(***************************************************************************)
(* The circuit breaker of one server (internal/lb/circuit_breaker.go), one *)
(* memory access at a time.  RecordFailure and RecordSuccess run in the    *)
(* request handlers, MonitorServers in a goroutine of its own, toggleServer *)
(* and resetServer (internal/api/api.go) in the handlers of the dashboards *)
(* and the health checker overwrites PingStatus.  Nothing synchronises     *)
(* them: no lock and no atomic protects the fields of a Server.            *)
(*                                                                         *)
(* A call is a sequence of reads and tests, each a step, followed by the   *)
(* writes it decided on, kept in todo and done one per step.               *)
(*                                                                         *)
(* Time is the bit cooled: whether CooldownPeriod has passed since         *)
(* OpenSince.  It is true at first, OpenSince being the zero time.  The    *)
(* period is configurable, so it may end before or after any other step.   *)
(***************************************************************************)
EXTENDS Integers, Sequences

CONSTANTS
  Requests,          \* handler goroutines
  Operators,         \* goroutines serving toggle and reset calls
  Outcomes,          \* how a forwarded request may end: "failure", "success"
  FailureThreshold,  \* CircuitBreakerSettings.FailureThreshold
  TrialRequests      \* CircuitBreakerSettings.TrialRequests

ASSUME BreakerAssumption ==
  /\ Outcomes \subseteq {"failure", "success"}
  /\ FailureThreshold \in Nat \ {0}
  /\ TrialRequests \in Nat \ {0}
  /\ Requests \cap Operators = {}
  /\ "monitor" \notin Requests \cup Operators

VARIABLES
  breaker,   \* CircuitBreakerState
  ping,      \* PingStatus
  failures,  \* FailureCount, capped at FailureThreshold (a handler delayed
             \*   in mid-call lets both counters grow without bound)
  trials,    \* TrialSuccessCount, capped at TrialRequests
  cooled,    \* time.Since(OpenSince) >= CooldownPeriod
  pc,        \* where each goroutine is
  loaded,    \* the counter value a handler has read
  todo,      \* the writes a goroutine has decided on and not done yet
  disabled   \* history: a disable call has returned, no later call has begun

fields == <<breaker, ping, failures, trials, cooled>>
vars == <<fields, pc, loaded, todo, disabled>>

CBState == {"closed", "open", "halfOpen"}
Actors == Requests \cup Operators \cup {"monitor"}
HandlerPc == {"idle", "inFlight", "loadFailures", "storeFailures", "testClosed",
              "testThreshold", "testHalfOpen", "testState", "testTrial",
              "loadTrials", "storeTrials", "testTrials", "writing"}
OperatorPc == {"idle", "lower", "raise", "branch", "disabling", "writing"}
MonitorPc == {"idle", "testCooled", "writing"}

(* The writes of each call, in program order. *)
TripWrites    == <<"open", "stamp">>
CloseWritesReversed == <<"zeroFailures", "zeroTrials", "closed">>  \* mutant
CloseWrites   == <<"closed", "zeroFailures", "zeroTrials">>
ProbeWrites   == <<"halfOpen", "zeroTrials">>
DisableWrites == <<"open", "stamp", "zeroFailures", "zeroTrials">>
ResetWrites   == <<"closed", "zeroFailures", "zeroTrials", "pingUp">>

Writes == CBState \cup {"stamp", "zeroFailures", "zeroTrials", "pingUp"}

TypeOK ==
  /\ breaker \in CBState
  /\ ping \in BOOLEAN
  /\ failures \in 0..FailureThreshold
  /\ trials \in 0..TrialRequests
  /\ cooled \in BOOLEAN
  /\ pc \in [Actors -> HandlerPc \cup OperatorPc \cup MonitorPc]
  /\ \A r \in Requests : pc[r] \in HandlerPc
  /\ \A o \in Operators : pc[o] \in OperatorPc
  /\ pc["monitor"] \in MonitorPc
  /\ loaded \in [Requests -> Nat]
  /\ todo \in [Actors -> Seq(Writes)]
  /\ \A a \in Actors : todo[a] # <<>> <=> pc[a] \in {"writing", "disabling"}
  /\ disabled \in BOOLEAN

Init ==
  /\ breaker = "closed"
  /\ ping = TRUE
  /\ failures = 0
  /\ trials = 0
  /\ cooled = TRUE
  /\ pc = [a \in Actors |-> "idle"]
  /\ loaded = [r \in Requests |-> 0]
  /\ todo = [a \in Actors |-> <<>>]
  /\ disabled = FALSE

Capped(n, bound) == IF n < bound THEN n ELSE bound

Move(a, from, to) == pc[a] = from /\ pc' = [pc EXCEPT ![a] = to]

(* A step that only reads. *)
Reads == UNCHANGED <<fields, loaded, todo, disabled>>

(* Locals go out of scope. *)
Forget(a) == loaded' = [r \in Requests |-> IF r = a THEN 0 ELSE loaded[r]]

(* The goroutine has decided on its writes. *)
Decide(a, from, to, writes) ==
  /\ Move(a, from, to)
  /\ todo' = [todo EXCEPT ![a] = writes]
  /\ Forget(a)
  /\ UNCHANGED <<fields, disabled>>

(* The call returns without writing anything. *)
Return(a, from) ==
  /\ Move(a, from, "idle")
  /\ Forget(a)
  /\ UNCHANGED <<fields, todo, disabled>>

-------------------------------------------------------------------------------
(* Writes.                                                                 *)

Write(w) ==
  /\ breaker' = IF w \in CBState THEN w ELSE breaker
  /\ ping' = (w = "pingUp" \/ ping)
  /\ failures' = IF w = "zeroFailures" THEN 0 ELSE failures
  /\ trials' = IF w = "zeroTrials" THEN 0 ELSE trials
  /\ cooled' = (w # "stamp" /\ cooled)

Flush(a) ==
  /\ todo[a] # <<>>
  /\ Write(Head(todo[a]))
  /\ todo' = [todo EXCEPT ![a] = Tail(@)]
  /\ pc' = [pc EXCEPT ![a] = IF Len(todo[a]) = 1 THEN "idle" ELSE @]
  /\ disabled' = (disabled \/ (pc[a] = "disabling" /\ Len(todo[a]) = 1))
  /\ UNCHANGED loaded

-------------------------------------------------------------------------------
(* The handlers.  They come back for another request when one is done.     *)

(* Every strategy of the balancer demands a closed breaker; sticky         *)
(* sessions and the IP hash demand nothing else.                           *)
PickServer(r) ==
  /\ breaker = "closed"
  /\ Move(r, "idle", "inFlight")
  /\ Reads

Fails(r) == "failure" \in Outcomes /\ Move(r, "inFlight", "loadFailures") /\ Reads

Succeeds(r) == "success" \in Outcomes /\ Move(r, "inFlight", "testState") /\ Reads

(* srv.FailureCount++ is a load and a store. *)
LoadFailures(r) ==
  /\ Move(r, "loadFailures", "storeFailures")
  /\ loaded' = [loaded EXCEPT ![r] = failures]
  /\ UNCHANGED <<fields, todo, disabled>>

StoreFailures(r) ==
  /\ Move(r, "storeFailures", "testClosed")
  /\ failures' = Capped(loaded[r] + 1, FailureThreshold)
  /\ loaded' = [loaded EXCEPT ![r] = Capped(@ + 1, FailureThreshold)]
  /\ UNCHANGED <<breaker, ping, trials, cooled, todo, disabled>>

TestClosed(r) ==
  /\ Move(r, "testClosed", IF breaker = "closed" THEN "testThreshold" ELSE "testHalfOpen")
  /\ Reads

(* The compiler may read the count again or keep it in a register. *)
TestThreshold(r) ==
  \E count \in {failures, loaded[r]} :
     IF count >= FailureThreshold
     THEN Decide(r, "testThreshold", "writing", TripWrites)
     ELSE Move(r, "testThreshold", "testHalfOpen") /\ Reads

TestHalfOpen(r) ==
  IF breaker = "halfOpen"
  THEN Decide(r, "testHalfOpen", "writing", TripWrites)
  ELSE Return(r, "testHalfOpen")

RecordFailure(r) ==
  \/ LoadFailures(r) \/ StoreFailures(r) \/ TestClosed(r)
  \/ TestThreshold(r) \/ TestHalfOpen(r)

TestStateDecaying(r) ==  \* mutant: a success takes one failure back
  IF breaker = "closed"
  THEN /\ Move(r, "testState", "idle")
       /\ failures' = failures - 1
       /\ UNCHANGED <<breaker, ping, trials, cooled, loaded, todo, disabled>>
  ELSE Move(r, "testState", "testTrial") /\ Reads

TestState(r) ==
  IF breaker = "closed"
  THEN Decide(r, "testState", "writing", <<"zeroFailures">>)
  ELSE Move(r, "testState", "testTrial") /\ Reads

TestTrial(r) ==
  /\ Move(r, "testTrial", IF breaker = "halfOpen" THEN "loadTrials" ELSE "idle")
  /\ Reads

LoadTrials(r) ==
  /\ Move(r, "loadTrials", "storeTrials")
  /\ loaded' = [loaded EXCEPT ![r] = trials]
  /\ UNCHANGED <<fields, todo, disabled>>

StoreTrials(r) ==
  /\ Move(r, "storeTrials", "testTrials")
  /\ trials' = Capped(loaded[r] + 1, TrialRequests)
  /\ loaded' = [loaded EXCEPT ![r] = Capped(@ + 1, TrialRequests)]
  /\ UNCHANGED <<breaker, ping, failures, cooled, todo, disabled>>

TestTrials(r) ==
  \E count \in {trials, loaded[r]} :
     IF count >= TrialRequests
     THEN Decide(r, "testTrials", "writing", CloseWrites)
     ELSE Return(r, "testTrials")

RecordSuccess(r) ==
  TestState(r) \/ TestTrial(r) \/ LoadTrials(r) \/ StoreTrials(r) \/ TestTrials(r)

Handler(r) == Fails(r) \/ Succeeds(r) \/ RecordFailure(r) \/ RecordSuccess(r) \/ Flush(r)

-------------------------------------------------------------------------------
(* The monitor, the passing of time and the health checker.                *)

SeesOpen ==
  /\ breaker = "open"
  /\ Move("monitor", "idle", "testCooled")
  /\ Reads

TestCooledInverted ==  \* mutant: < for >=
  IF ~cooled
  THEN Decide("monitor", "testCooled", "writing", ProbeWrites)
  ELSE Return("monitor", "testCooled")

TestCooled ==
  IF cooled
  THEN Decide("monitor", "testCooled", "writing", ProbeWrites)
  ELSE Return("monitor", "testCooled")

MonitorServers == SeesOpen \/ TestCooled \/ Flush("monitor")

Cool ==
  /\ ~cooled
  /\ cooled' = TRUE
  /\ UNCHANGED <<breaker, ping, failures, trials, pc, loaded, todo, disabled>>

FetchMetrics ==
  /\ ping' \in BOOLEAN
  /\ UNCHANGED <<breaker, failures, trials, cooled, pc, loaded, todo, disabled>>

-------------------------------------------------------------------------------
(* The operators.  srv.PingStatus = !srv.PingStatus is a load and a store, *)
(* and the branch after it reads PingStatus again.                         *)

BeginToggle(o) ==
  /\ Move(o, "idle", IF ping THEN "lower" ELSE "raise")
  /\ disabled' = FALSE
  /\ UNCHANGED <<fields, loaded, todo>>

Flip(o) ==
  /\ ping' = (pc[o] = "raise")
  /\ Move(o, "lower", "branch") \/ Move(o, "raise", "branch")
  /\ UNCHANGED <<breaker, failures, trials, cooled, loaded, todo, disabled>>

Branch(o) ==
  IF ping
  THEN Decide(o, "branch", "writing", CloseWrites)
  ELSE Decide(o, "branch", "disabling", DisableWrites)

BeginReset(o) ==
  /\ Move(o, "idle", "writing")
  /\ todo' = [todo EXCEPT ![o] = ResetWrites]
  /\ disabled' = FALSE
  /\ UNCHANGED <<fields, loaded>>

toggleServer(o) == BeginToggle(o) \/ Flip(o) \/ Branch(o) \/ Flush(o)

resetServer(o) == BeginReset(o) \/ Flush(o)

-------------------------------------------------------------------------------
Next ==
  \/ \E r \in Requests : PickServer(r) \/ Handler(r)
  \/ \E o \in Operators : toggleServer(o) \/ resetServer(o)
  \/ MonitorServers
  \/ Cool
  \/ FetchMetrics

Spec == Init /\ [][Next]_vars

(* Goroutines are scheduled, a forward ends (the client has a timeout), the *)
(* cooldown passes, and clients keep coming.  Operators need not act.      *)
Fairness ==
  /\ \A r \in Requests : WF_vars(Handler(r)) /\ WF_vars(PickServer(r))
  /\ WF_vars(MonitorServers)
  /\ WF_vars(Cool)

FairSpec == Spec /\ Fairness

-------------------------------------------------------------------------------
(* Correctness.                                                            *)

Quiet == \A a \in Actors : pc[a] \in {"idle", "inFlight"}

(* Whatever the calls interleaved, once none is half done the breaker is   *)
(* not stuck beyond its thresholds: it is not closed with the failures     *)
(* that should have tripped it, and has no pending trial that was passed.  *)
(* It depends on the order of the writes: the breaker is closed before     *)
(* FailureCount is zeroed, so a failure stored after that is tested        *)
(* against a closed breaker.                                               *)
AtRest ==
  Quiet => /\ breaker = "closed" => failures < FailureThreshold
           /\ trials < TrialRequests

(* An open breaker does not stay open: the monitor probes it, even when    *)
(* reports of older requests keep coming in and operators reset the server *)
(* or toggle it, unless one is disabling it, which restarts the cooldown.  *)
Probed ==
  breaker = "open" ~> (breaker # "open" \/ \E o \in Operators : pc[o] = "disabling")

(* api.go:156, "Disabling the server: trip breaker so it is skipped by     *)
(* balancer": after a disable call has returned, and until another call is *)
(* made, the server is not picked.                                         *)
DisabledSkipped ==
  [][\A r \in Requests : pc[r] = "idle" /\ pc'[r] = "inFlight" => ~disabled]_vars

(* readme.md:26, "moves them to Half-Open for trial requests": as clients  *)
(* keep coming, a half-open breaker is eventually closed or reopened.      *)
TrialsDecide == breaker = "halfOpen" ~> breaker # "halfOpen"

===============================================================================
