------------------------------ MODULE Dashboard ------------------------------
(***************************************************************************)
(* The dashboard the balancer serves itself (internal/dashboard/static/js/ *)
(* dashboard.js): it polls the list of servers, toggles and resets         *)
(* servers, drives test traffic, runs scenarios of several calls and       *)
(* follows the event stream.  A step is one callback: a click, a timer, or *)
(* the continuation of a fetch.                                            *)
(*                                                                         *)
(* Abstractions.  Of a control only `disabled` is kept.  A burst has Burst *)
(* test requests.  A test request is answered, by some server or with an   *)
(* error, in the step in which its continuation runs.  Messages, the event *)
(* log, animation, and the look of charts are left out.                    *)
(***************************************************************************)
EXTENDS ServerApi, FiniteSetsExt

CONSTANTS
  Burst,    \* test requests of a burst
  MaxTests  \* bound on requests of the traffic generator

ASSUME DashboardAssumption == Burst \in Nat \ {0} /\ MaxTests \in Nat

VARIABLES
  isFirstLoad,
  trafficTimer,         \* is there one?
  startOff, stopOff,    \* startTrafficBtn.disabled, stopTrafficBtn.disabled
  scenarioBusy,
  scenarioOff,          \* disabled: failure, heavy and priority buttons
  recoveryOff,          \* disabled: the recovery button
  bursts,               \* bursts the running scenario has not finished
  burstTests,           \* its test requests in flight
  driverTests,          \* those of the traffic generator
  serverRequestCounts,
  totalRequests,
  stream,               \* the EventSource, or the timer to reconnect
  indicator,            \* does the status indicator say Online?
  swept                 \* history: servers changed last by a call of the
                        \*   recovery sweep, none of whose calls got lost

buttons == <<startOff, stopOff, scenarioOff, recoveryOff>>
scenario == <<scenarioBusy, bursts, burstTests>>
tallies == <<isFirstLoad, serverRequestCounts, totalRequests>>
feed == <<stream, indicator>>
api == <<enabled, list, polls, calls, budget>>
vars == <<api, trafficTimer, buttons, scenario, driverTests, tallies, feed, swept>>

TypeOK ==
  /\ ApiTypeOK
  /\ {isFirstLoad, trafficTimer, startOff, stopOff, scenarioBusy, scenarioOff,
      recoveryOff, indicator} \subseteq BOOLEAN
  /\ bursts \in 0..2
  /\ burstTests \in 0..Burst
  /\ driverTests \in 0..MaxTests
  /\ serverRequestCounts \in [Servers -> Nat]
  /\ totalRequests \in Nat
  /\ stream \in {"connecting", "open", "waiting"}
  /\ swept \subseteq Servers

Zero == [s \in Servers |-> 0]

Init ==
  /\ ApiInit
  /\ isFirstLoad = TRUE
  /\ trafficTimer = FALSE
  /\ startOff = TRUE /\ stopOff = TRUE
  /\ scenarioBusy = FALSE
  /\ scenarioOff = TRUE /\ recoveryOff = FALSE
  /\ bursts = 0 /\ burstTests = 0 /\ driverTests = 0
  /\ serverRequestCounts = Zero
  /\ totalRequests = 0
  /\ stream = "connecting"
  /\ indicator = TRUE
  /\ swept = {}

-------------------------------------------------------------------------------
(* The list: fetchServers and renderServers.                               *)

Poll ==
  /\ Cardinality(polls) < MaxPolls
  /\ polls' = polls \cup {Sent}
  /\ UNCHANGED <<enabled, list, calls, budget, trafficTimer, buttons, scenario,
                 driverTests, tallies, feed, swept>>

setScenarioBusyState(isBusy, l) ==
  /\ scenarioOff' = (isBusy \/ ~Online(l))
  /\ recoveryOff' = isBusy

renderServersOnly(l) ==  \* mutant: the scenario buttons are not refreshed
  /\ list' = l
  /\ trafficTimer' = (trafficTimer /\ l # NoServers)
  /\ startOff' = (trafficTimer' \/ ~Online(l))
  /\ stopOff' = ~trafficTimer'
  /\ UNCHANGED <<scenarioOff, recoveryOff>>

renderServers(l) ==
  /\ list' = l
  /\ trafficTimer' = (trafficTimer /\ l # NoServers)
  /\ startOff' = (trafficTimer' \/ ~Online(l))
  /\ stopOff' = ~trafficTimer'
  /\ setScenarioBusyState(scenarioBusy, l)

initChartsAlways ==  \* mutant: the charts are set up again by every answer
  /\ isFirstLoad' = FALSE
  /\ serverRequestCounts' = Zero

initCharts ==
  /\ isFirstLoad' = FALSE
  /\ serverRequestCounts' = IF isFirstLoad THEN Zero ELSE serverRequestCounts

ListReturns(p) ==
  /\ p \in polls
  /\ p.st # "sent"
  /\ polls' = polls \ {p}
  /\ renderServers(p.list)
  /\ IF p.st = "ok" THEN initCharts /\ UNCHANGED indicator
     ELSE indicator' = FALSE /\ UNCHANGED <<isFirstLoad, serverRequestCounts>>
  /\ UNCHANGED <<enabled, calls, budget, scenario, driverTests, totalRequests, stream, swept>>

-------------------------------------------------------------------------------
(* The traffic generator.                                                  *)

(* startTrafficLoop, once there is no timer. *)
StartLoop ==
  /\ trafficTimer' = Online(list)
  /\ startOff' = TRUE
  /\ stopOff' = ~Online(list)

startTrafficLoop ==
  /\ ~startOff
  /\ ~trafficTimer
  /\ StartLoop
  /\ UNCHANGED <<api, scenarioOff, recoveryOff, scenario, driverTests, tallies, feed, swept>>

stopTrafficLoop ==
  /\ ~stopOff
  /\ trafficTimer
  /\ trafficTimer' = FALSE
  /\ startOff' = ~Online(list)
  /\ stopOff' = TRUE
  /\ UNCHANGED <<api, scenarioOff, recoveryOff, scenario, driverTests, tallies, feed, swept>>

(* Another rate stops and starts the loop; it may not start again. *)
ChangeRate ==
  /\ trafficTimer
  /\ StartLoop
  /\ UNCHANGED <<api, scenarioOff, recoveryOff, scenario, driverTests, tallies, feed, swept>>

TimerFires ==
  /\ trafficTimer
  /\ totalRequests + driverTests < MaxTests
  /\ driverTests' = driverTests + 1
  /\ UNCHANGED <<api, trafficTimer, buttons, scenario, tallies, feed, swept>>

(* The continuation of sendTestRequest; data.server may be any server. *)
CountAnswer ==
  \/ \E s \in Servers :
       /\ serverRequestCounts' = [serverRequestCounts EXCEPT ![s] = @ + 1]
       /\ totalRequests' = totalRequests + 1
       /\ UNCHANGED isFirstLoad
  \/ UNCHANGED tallies

DriverTestReturns ==
  /\ driverTests > 0
  /\ driverTests' = driverTests - 1
  /\ CountAnswer
  /\ UNCHANGED <<api, trafficTimer, buttons, scenario, feed, swept>>

-------------------------------------------------------------------------------
(* The buttons of a server's card.                                         *)

(* A second click on a button waits until the first call is handled. *)
Click(op, s) ==
  /\ s \in DOMAIN list
  /\ Spend
  /\ Call(op, s, "card") \notin calls
  /\ calls' = calls \cup {Call(op, s, "card")}
  /\ UNCHANGED <<enabled, list, polls, trafficTimer, buttons, scenario,
                 driverTests, tallies, feed, swept>>

toggleServerStatus(s) == Click("toggle", s)
resetServer(s) == Click("reset", s)

(* The continuations of the two; a failure is only reported. *)
CardReturns(c) ==
  /\ c.by = "card" /\ c.st # "sent"
  /\ calls' = calls \ {c}
  /\ polls' = IF c.st = "ok" THEN polls \cup {Sent} ELSE polls
  /\ UNCHANGED <<enabled, list, budget, trafficTimer, buttons, scenario,
                 driverTests, tallies, feed, swept>>

-------------------------------------------------------------------------------
(* The scenarios.                                                          *)

triggerScenario ==
  /\ ~scenarioBusy
  /\ scenarioBusy' = TRUE
  /\ setScenarioBusyState(TRUE, list)
  /\ Spend
  /\ UNCHANGED <<enabled, list, polls, trafficTimer, startOff, stopOff,
                 driverTests, tallies, feed>>

(* The finally of triggerScenario, in the step that settles its handler. *)
Finish ==
  /\ scenarioBusy' = FALSE
  /\ setScenarioBusyState(FALSE, list)
  /\ UNCHANGED <<enabled, list, budget, trafficTimer, startOff, stopOff,
                 driverTests, feed, swept>>

(* A button that is not disabled found a server online when the list came. *)
runFailureScenario ==
  /\ ~scenarioOff
  /\ triggerScenario
  /\ calls' = calls \cup {Call("toggle", FirstOnline(list), "drill")}
  /\ UNCHANGED <<bursts, burstTests, swept>>

DrillReturnsThen(c) ==  \* mutant: then instead of finally
  /\ c.by = "drill" /\ c.st # "sent"
  /\ calls' = calls \ {c}
  /\ polls' = IF c.st = "ok" THEN polls \cup {Sent} ELSE polls
  /\ IF c.st = "ok" THEN Finish
     ELSE UNCHANGED <<enabled, list, budget, trafficTimer, buttons, scenarioBusy,
                      driverTests, feed, swept>>
  /\ UNCHANGED <<bursts, burstTests, tallies>>

DrillReturns(c) ==
  /\ c.by = "drill" /\ c.st # "sent"
  /\ calls' = calls \ {c}
  /\ polls' = IF c.st = "ok" THEN polls \cup {Sent} ELSE polls
  /\ Finish
  /\ UNCHANGED <<bursts, burstTests, tallies>>

(* Without any server the sweep ends where it starts. *)
runRecoveryScenario ==
  /\ ~recoveryOff
  /\ list # NoServers
  /\ triggerScenario
  /\ calls' = calls \cup
       {Call(IF list[s] THEN "reset" ELSE "toggle", s, "sweep") : s \in DOMAIN list}
  /\ swept' = {}
  /\ UNCHANGED <<bursts, burstTests>>

FollowUpNone(c) == {}  \* mutant: a server is toggled or reset

(* A toggle is followed by the reset, if it was answered. *)
FollowUp(c) ==
  IF c.op = "toggle" /\ c.st = "ok" THEN {Call("reset", c.srv, "sweep")} ELSE {}

SweepReturnsAll(c) ==  \* mutant: Promise.all, which ends at the first rejection
  /\ c.by = "sweep" /\ c.st # "sent"
  /\ calls' = (calls \ {c}) \cup FollowUp(c)
  /\ IF c.st = "lost" \/ (From("sweep") = {c} /\ FollowUp(c) = {})
     THEN /\ polls' = polls \cup {Sent}
          /\ Finish
     ELSE UNCHANGED <<enabled, list, polls, budget, trafficTimer, buttons,
                      scenarioBusy, driverTests, feed, swept>>
  /\ UNCHANGED <<bursts, burstTests, tallies>>

SweepReturns(c) ==
  /\ c.by = "sweep" /\ c.st # "sent"
  /\ calls' = (calls \ {c}) \cup FollowUp(c)
  /\ IF From("sweep") = {c} /\ FollowUp(c) = {}
     THEN /\ polls' = polls \cup {Sent}
          /\ Finish
     ELSE UNCHANGED <<enabled, list, polls, budget, trafficTimer, buttons,
                      scenarioBusy, driverTests, feed, swept>>
  /\ UNCHANGED <<bursts, burstTests, tallies>>

(* runTrafficBurst, once or twice in a row. *)
RunBursts(n) ==
  /\ ~scenarioOff
  /\ triggerScenario
  /\ bursts' = n
  /\ burstTests' = Burst
  /\ UNCHANGED <<calls, swept>>

runHeavyScenario == RunBursts(1)
runPriorityScenario == RunBursts(2)

BurstTestReturns ==
  /\ burstTests > 0
  /\ CountAnswer
  /\ CASE burstTests > 1 -> burstTests' = burstTests - 1 /\ UNCHANGED bursts
       [] burstTests = 1 /\ bursts > 1 -> burstTests' = Burst /\ bursts' = bursts - 1
       [] OTHER -> burstTests' = 0 /\ bursts' = 0
  /\ IF burstTests' = 0 THEN Finish
     ELSE UNCHANGED <<enabled, list, budget, trafficTimer, buttons, scenarioBusy,
                      driverTests, feed, swept>>
  /\ UNCHANGED <<polls, calls>>

-------------------------------------------------------------------------------
(* The event stream.                                                       *)

StreamUnchanged == UNCHANGED <<enabled, list, polls, calls, trafficTimer, buttons,
                               scenario, driverTests, tallies, swept>>

connectEventSourceOnline ==  \* mutant: no retry once the page is offline
  /\ stream = "waiting" /\ indicator
  /\ stream' = "connecting"
  /\ UNCHANGED <<budget, indicator>> /\ StreamUnchanged

connectEventSource ==
  /\ stream = "waiting"
  /\ stream' = "connecting"
  /\ UNCHANGED <<budget, indicator>> /\ StreamUnchanged

StreamOpens ==
  /\ stream = "connecting"
  /\ stream' = "open"
  /\ indicator' = TRUE
  /\ UNCHANGED budget /\ StreamUnchanged

StreamBreaks ==
  /\ stream # "waiting"
  /\ Spend
  /\ stream' = "waiting"
  /\ indicator' = FALSE
  /\ StreamUnchanged

-------------------------------------------------------------------------------
(* The server's side: none of it touches the page.                         *)

PageUnchanged == UNCHANGED <<list, trafficTimer, buttons, scenario, driverTests,
                             tallies, feed>>

(* Who changed a server last? *)
Changes(s, by) == swept' = IF by = "sweep" THEN swept \cup {s} ELSE swept \ {s}

Outside ==
  /\ \/ (GetServers \/ LosePoll) /\ UNCHANGED swept
     \/ \E c \in calls : Handle(c) /\ Changes(c.srv, c.by)
     \/ \E c \in calls : LoseCall(c) /\ swept' = swept \ {c.srv}
     \/ \E s \in Servers : Ping(s) /\ Changes(s, "ping")
  /\ PageUnchanged

-------------------------------------------------------------------------------
Page ==
  \/ Poll \/ (\E p \in polls : ListReturns(p))
  \/ startTrafficLoop \/ stopTrafficLoop \/ ChangeRate
  \/ TimerFires \/ DriverTestReturns
  \/ \E s \in Servers : toggleServerStatus(s) \/ resetServer(s)
  \/ \E c \in calls : CardReturns(c) \/ DrillReturns(c) \/ SweepReturns(c)
  \/ runFailureScenario \/ runHeavyScenario \/ runPriorityScenario
  \/ runRecoveryScenario \/ BurstTestReturns
  \/ connectEventSource \/ StreamOpens \/ StreamBreaks

Next == Page \/ Outside

Spec == Init /\ [][Next]_vars

(* Timers fire, the server answers what reaches it, and the browser        *)
(* settles every fetch.  Nobody need click, and nothing need break.        *)
Fairness ==
  /\ WF_vars(Poll)
  /\ WF_vars(PageUnchanged /\ UNCHANGED swept /\ GetServers)
  /\ WF_vars(PageUnchanged /\ \E c \in calls : Handle(c) /\ Changes(c.srv, c.by))
  /\ WF_vars(\E p \in polls : ListReturns(p))
  /\ WF_vars(\E c \in calls : CardReturns(c) \/ DrillReturns(c) \/ SweepReturns(c))
  /\ WF_vars(BurstTestReturns)
  /\ WF_vars(connectEventSource) /\ WF_vars(StreamOpens)

FairSpec == Spec /\ Fairness

-------------------------------------------------------------------------------
(* Correctness.                                                            *)

(* The four buttons always fit what they start: the list shown, the        *)
(* traffic timer and the running scenario.  Each of the three changes in   *)
(* callbacks of its own, and each callback sets only some buttons.         *)
Controls ==
  /\ startOff = (trafficTimer \/ ~Online(list))
  /\ stopOff = ~trafficTimer
  /\ scenarioOff = (scenarioBusy \/ ~Online(list))
  /\ recoveryOff = scenarioBusy

(* The distribution chart accounts for every request the total counts,     *)
(* although a list sets the counts up, and lists keep arriving while the   *)
(* answers of the generator and of scenarios are counted.                  *)
TalliesAgree ==
  totalRequests = MapThenSumSet(LAMBDA s : serverRequestCounts[s], Servers)

(* The kinds of scenario that still have a call or a test in flight. *)
Running ==
  {by \in {"drill", "sweep"} : From(by) # {}} \cup (IF burstTests > 0 THEN {"burst"} ELSE {})

(* One scenario at a time: while the page is busy exactly one has requests *)
(* in flight, and none has when it is not, whichever of its requests fail  *)
(* and in whatever order they are answered.                                *)
ScenarioExclusive == Cardinality(Running) = (IF scenarioBusy THEN 1 ELSE 0)

(* A recovery sweep brings back each server it got through to: one that no *)
(* other call and no ping has changed since, and whose calls were not lost, *)
(* is enabled, even if the sweep toggled it by a list that was out of date. *)
SweepRestores ==
  \A s \in swept : (\A c \in From("sweep") : c.srv # s) => enabled[s]

(* Once nothing is lost, broken or clicked any more, the page shows the    *)
(* servers as they are and follows the stream, whatever it missed before   *)
(* and in whatever order old answers still arrive.                         *)
Converges == <>[](list = enabled /\ stream = "open")

(* Every scenario ends, also when its calls fail. *)
ScenarioEnds == scenarioBusy ~> ~scenarioBusy

===============================================================================
