----------------------------- MODULE ControlPanel -----------------------------
(***************************************************************************)
(* The React dashboard (frontend/src/App.jsx, components/ControlPanel.jsx, *)
(* ServerList.jsx): it polls the list of servers, toggles and resets them, *)
(* drives traffic, runs scenarios and switches the configuration.  A step  *)
(* is one callback, or the effect that React runs some time after it has   *)
(* rendered a new list.                                                    *)
(*                                                                         *)
(* Abstractions.  A click sees the state as it was last set: React renders *)
(* before the next click.  A burst has Burst test requests.  The rate, the *)
(* priority, messages and layout are left out, and so is the form that     *)
(* adds a server: no route of the balancer answers it.                     *)
(***************************************************************************)
EXTENDS ServerApi

CONSTANT Burst  \* test requests of a burst

ASSUME PanelAssumption == Burst \in Nat \ {0}

VARIABLES
  trafficActive,
  intervals,     \* intervals that send test requests
  timerRef,      \* does trafficTimerRef.current hold one?
  effectDue,     \* has the effect on [servers, trafficActive] still to run?
  busyScenario,  \* "none" or the scenario
  tests,         \* test requests of the running scenario in flight
  switches,      \* useIPHash and useSticky of the page
  config,        \* UseIPHash and UseStickySessions of the balancer
  posts,         \* fetches of /api/config in flight
  alone          \* history: since the last quiet moment there was one such
                 \*   fetch at a time, and it was not lost

traffic == <<trafficActive, intervals, timerRef>>
scenario == <<busyScenario, tests>>
configuration == <<switches, config, posts, alone>>
api == <<enabled, list, polls, calls, budget>>
vars == <<api, traffic, effectDue, scenario, configuration>>

Scenarios == {"failure", "heavy", "priority", "recovery"}
Configs == [ipHash : BOOLEAN, sticky : BOOLEAN]
AllPosts == [n : 1..Budget, body : Configs, st : {"sent", "half", "ok", "lost"}]

TypeOK ==
  /\ ApiTypeOK
  /\ {trafficActive, timerRef, effectDue, alone} \subseteq BOOLEAN
  /\ intervals \in 0..1
  /\ busyScenario \in Scenarios \cup {"none"}
  /\ tests \in 0..Burst
  /\ {switches, config} \subseteq Configs
  /\ posts \subseteq AllPosts

(* The page does not ask for the configuration there is. *)
Init ==
  /\ ApiInit
  /\ trafficActive = FALSE /\ intervals = 0 /\ timerRef = FALSE
  /\ effectDue = FALSE
  /\ busyScenario = "none" /\ tests = 0
  /\ switches = [ipHash |-> FALSE, sticky |-> TRUE]
  /\ config \in Configs
  /\ posts = {}
  /\ alone = FALSE

-------------------------------------------------------------------------------
(* App: the list, and the buttons of ServerList.                           *)

fetchServers == polls' = polls \cup {Sent}

Poll ==
  /\ Cardinality(polls) < MaxPolls
  /\ fetchServers
  /\ UNCHANGED <<enabled, list, calls, budget, traffic, effectDue, scenario, configuration>>

ListReturnsUnobserved(p) ==  \* mutant: no `servers` among the effect's dependencies
  /\ p.st # "sent"
  /\ polls' = polls \ {p}
  /\ list' = IF p.st = "ok" THEN p.list ELSE list
  /\ UNCHANGED <<enabled, calls, budget, traffic, effectDue, scenario, configuration>>

(* An error leaves the list as it is. *)
ListReturns(p) ==
  /\ p.st # "sent"
  /\ polls' = polls \ {p}
  /\ IF p.st = "ok" THEN list' = p.list /\ effectDue' = (effectDue \/ trafficActive)
     ELSE UNCHANGED <<list, effectDue>>
  /\ UNCHANGED <<enabled, calls, budget, traffic, scenario, configuration>>

(* A second click on a button waits until the first call is handled. *)
Click(op, s) ==
  /\ s \in DOMAIN list
  /\ Spend
  /\ Call(op, s, "card") \notin calls
  /\ calls' = calls \cup {Call(op, s, "card")}
  /\ UNCHANGED <<enabled, list, polls, traffic, effectDue, scenario, configuration>>

toggleServer(s) == Click("toggle", s)
resetServer(s) == Click("reset", s)

CardReturns(c) ==
  /\ c.by = "card" /\ c.st # "sent"
  /\ calls' = calls \ {c}
  /\ IF c.st = "ok" THEN fetchServers ELSE UNCHANGED polls
  /\ UNCHANGED <<enabled, list, budget, traffic, effectDue, scenario, configuration>>

-------------------------------------------------------------------------------
(* The traffic generator.                                                  *)

TrafficOnly == UNCHANGED <<api, scenario, configuration>>

startTraffic ==
  /\ ~trafficActive /\ ~timerRef
  /\ Online(list)
  /\ timerRef' = TRUE
  /\ intervals' = intervals + 1
  /\ trafficActive' = TRUE
  /\ effectDue' = TRUE

Stop ==
  /\ timerRef' = FALSE
  /\ intervals' = IF timerRef THEN intervals - 1 ELSE intervals
  /\ trafficActive' = (trafficActive /\ ~timerRef)

stopTraffic == trafficActive /\ Stop /\ UNCHANGED effectDue

restartLeaking ==  \* mutant: no clearInterval
  /\ timerRef
  /\ IF ~Online(list) THEN Stop
     ELSE intervals' = intervals + 1 /\ UNCHANGED <<timerRef, trafficActive>>
  /\ UNCHANGED effectDue

(* Another rate: the old interval is cleared, a new one set. *)
restartTrafficTimer ==
  /\ timerRef
  /\ IF ~Online(list) THEN Stop ELSE UNCHANGED <<timerRef, intervals, trafficActive>>
  /\ UNCHANGED effectDue

EffectMarking ==  \* mutant: setTrafficActive(false) alone
  /\ effectDue
  /\ effectDue' = FALSE
  /\ trafficActive' = (trafficActive /\ Online(list))
  /\ UNCHANGED <<intervals, timerRef>>

Effect ==
  /\ effectDue
  /\ effectDue' = FALSE
  /\ IF trafficActive /\ ~Online(list) THEN Stop ELSE UNCHANGED traffic

-------------------------------------------------------------------------------
(* The scenarios.                                                          *)

Begin(sc) ==
  /\ busyScenario = "none"
  /\ list # NoServers
  /\ sc # "recovery" => Online(list)
  /\ Spend
  /\ busyScenario' = sc
  /\ UNCHANGED <<enabled, list, polls, traffic, effectDue, configuration>>

runScenario ==
  \/ /\ Begin("failure")
     /\ calls' = calls \cup {Call("toggle", FirstOnline(list), "drill")}
     /\ UNCHANGED tests
  \/ /\ Begin("heavy") \/ Begin("priority")
     /\ tests' = Burst
     /\ UNCHANGED calls
  \/ /\ Begin("recovery")
     /\ calls' = calls \cup {Call("reset", s, "sweep") : s \in DOMAIN list}
     /\ UNCHANGED tests

(* onScenarioComplete, and the finally *)
Complete ==
  /\ busyScenario' = "none"
  /\ fetchServers

DrillReturns(c) ==
  /\ c.by = "drill" /\ c.st # "sent"
  /\ calls' = calls \ {c}
  /\ IF c.st = "ok" THEN Complete ELSE busyScenario' = "none" /\ UNCHANGED polls
  /\ UNCHANGED <<enabled, list, budget, traffic, effectDue, tests, configuration>>

TestReturns ==
  /\ tests > 0
  /\ tests' = tests - 1
  /\ IF tests = 1 THEN Complete ELSE UNCHANGED <<busyScenario, polls>>
  /\ UNCHANGED <<enabled, list, calls, budget, traffic, effectDue, configuration>>

(* Promise.all: the first rejection ends the scenario and leaves the other *)
(* calls behind.                                                           *)
Leave(cs) == {[c EXCEPT !.by = "left"] : c \in cs}

SweepReturnsSettled(c) ==  \* mutant: the scenario ends with the first answer
  /\ c.by = "sweep" /\ c.st # "sent"
  /\ calls' = calls \ {c}
  /\ Complete
  /\ UNCHANGED <<enabled, list, budget, traffic, effectDue, tests, configuration>>

SweepReturns(c) ==
  /\ c.by = "sweep" /\ c.st # "sent"
  /\ \/ /\ c.st = "lost"
        /\ calls' = (calls \ From("sweep")) \cup Leave(From("sweep") \ {c})
        /\ busyScenario' = "none"
        /\ UNCHANGED polls
     \/ /\ c.st = "ok"
        /\ calls' = calls \ {c}
        /\ IF From("sweep") = {c} THEN Complete ELSE UNCHANGED <<busyScenario, polls>>
  /\ UNCHANGED <<enabled, list, budget, traffic, effectDue, tests, configuration>>

LeftReturns(c) ==
  /\ c.by = "left" /\ c.st # "sent"
  /\ calls' = calls \ {c}
  /\ UNCHANGED <<enabled, list, polls, budget, traffic, effectDue, scenario, configuration>>

-------------------------------------------------------------------------------
(* The configuration switches.                                             *)

ConfigOnly == UNCHANGED <<enabled, list, calls, traffic, effectDue, scenario>>

SendConfig(next, body) ==
  /\ Spend
  /\ switches' = next
  /\ posts' = posts \cup {[n |-> budget, body |-> body, st |-> "sent"]}
  /\ alone' = (posts = {})
  /\ UNCHANGED <<polls, config>> /\ ConfigOnly

updateConfigPartly ==  \* mutant: the other switch is not taken over from the page
  \/ SendConfig([switches EXCEPT !.ipHash = ~@], [ipHash |-> ~switches.ipHash, sticky |-> TRUE])
  \/ SendConfig([switches EXCEPT !.sticky = ~@], [ipHash |-> FALSE, sticky |-> ~switches.sticky])

(* The body holds both switches. *)
updateConfig ==
  \E next \in {[switches EXCEPT !.ipHash = ~@], [switches EXCEPT !.sticky = ~@]} :
     SendConfig(next, next)

(* The balancer stores UseIPHash, then UseStickySessions. *)
StoreConfig(p) ==
  /\ \/ /\ p.st = "sent"
        /\ config' = [config EXCEPT !.ipHash = p.body.ipHash]
        /\ posts' = (posts \ {p}) \cup {[p EXCEPT !.st = "half"]}
     \/ /\ p.st = "half"
        /\ config' = [config EXCEPT !.sticky = p.body.sticky]
        /\ posts' = (posts \ {p}) \cup {[p EXCEPT !.st = "ok"]}
  /\ UNCHANGED <<polls, switches, alone, budget>> /\ ConfigOnly

LosePost(p) ==
  /\ p.st \in {"sent", "ok"}
  /\ Spend
  /\ posts' = (posts \ {p}) \cup {[p EXCEPT !.st = "lost"]}
  /\ alone' = FALSE
  /\ UNCHANGED <<polls, switches, config>> /\ ConfigOnly

ConfigReturns(p) ==
  /\ p.st \in {"ok", "lost"}
  /\ posts' = posts \ {p}
  /\ IF p.st = "ok" THEN fetchServers ELSE UNCHANGED polls
  /\ UNCHANGED <<switches, config, alone, budget>> /\ ConfigOnly

-------------------------------------------------------------------------------
PageUnchanged == UNCHANGED <<list, traffic, effectDue, scenario, configuration>>

Next ==
  \/ Poll \/ \E p \in polls : ListReturns(p)
  \/ \E s \in Servers : toggleServer(s) \/ resetServer(s)
  \/ \E c \in calls : CardReturns(c) \/ DrillReturns(c) \/ SweepReturns(c) \/ LeftReturns(c)
  \/ (startTraffic \/ stopTraffic \/ restartTrafficTimer \/ Effect) /\ TrafficOnly
  \/ runScenario \/ TestReturns
  \/ updateConfig
  \/ \E p \in posts : StoreConfig(p) \/ LosePost(p) \/ ConfigReturns(p)
  \/ PageUnchanged /\ (GetServers \/ LosePoll)
  \/ PageUnchanged /\ \E c \in calls : Handle(c) \/ LoseCall(c)
  \/ PageUnchanged /\ \E s \in Servers : Ping(s)

Spec == Init /\ [][Next]_vars

(* React runs the effects of a render. *)
FairSpec == Spec /\ WF_vars(Effect /\ TrafficOnly)

-------------------------------------------------------------------------------
(* Correctness.                                                            *)

(* The page knows of every interval that sends requests, and once React    *)
(* has run its effects one is running only while a listed server is        *)
(* online, however lists, clicks and changes of the rate came in between.  *)
Generator ==
  /\ intervals = (IF trafficActive THEN 1 ELSE 0)
  /\ trafficActive /\ ~effectDue => Online(list)

(* The generator does not go on for ever against a list without an online  *)
(* server, although only an effect stops it.                               *)
TrafficStops ==
  intervals > 0 /\ ~Online(list) ~> intervals = 0 \/ Online(list)

(* While the page is busy the scenario has something in flight, and when   *)
(* it is not, only a recovery that lost a call can have left calls behind. *)
OneScenario ==
  /\ busyScenario = "failure"             <=> From("drill") # {}
  /\ busyScenario = "recovery"            <=> From("sweep") # {}
  /\ busyScenario \in {"heavy", "priority"} <=> tests > 0

(* Both switches show what the balancer does once a change of either was   *)
(* answered, whatever it was configured to do before: unless changes       *)
(* overlapped or one was lost, for then the page keeps no order.           *)
ConfigInSync == posts = {} /\ alone => config = switches

===============================================================================
