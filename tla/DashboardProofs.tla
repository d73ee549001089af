---------------------------- MODULE DashboardProofs ----------------------------
(***************************************************************************)
(* Theorems about Dashboard, for any number of servers, any length of a    *)
(* burst and any number of lost calls, failed pings and clicks.            *)
(***************************************************************************)
EXTENDS Dashboard, DataTheorems

(* The calls of a scenario, or its tests, are there while it runs.         *)
Exclusive ==
  /\ \A c, d \in From("drill") : c = d
  /\ ~scenarioBusy => From("drill") = {} /\ From("sweep") = {} /\ burstTests = 0
  /\ scenarioBusy =>
       \/ From("drill") # {} /\ From("sweep") = {} /\ burstTests = 0
       \/ From("drill") = {} /\ From("sweep") # {} /\ burstTests = 0
       \/ From("drill") = {} /\ From("sweep") = {} /\ burstTests # 0

(* A sweep has one call for a server at a time.  A server it has changed   *)
(* last is enabled, unless the reset has still to be handled.              *)
Sweeps ==
  /\ \A c, d \in From("sweep") : c.srv = d.srv => c = d
  /\ \A s \in swept :
       /\ \A c \in From("sweep") : c.srv = s => c.st # "lost"
       /\ \/ enabled[s]
          \/ \E c \in From("sweep") : c.srv = s /\ (c.op = "toggle" \/ c.st = "sent")

Inv == TypeOK /\ Controls /\ Exclusive /\ Sweeps
-------------------------------------------------------------------------------
(* The list of servers and the calls of the page (ServerApi).              *)

(* The first server that a list shows online is one of the servers.        *)
LEMMA FirstOnlineListed ==
  ASSUME NEW l \in Lists, Online(l)
  PROVE  FirstOnline(l) \in Servers
<1> DEFINE up == {s \in Servers : l[s]}
<1>1. up # {} /\ up \subseteq Nat /\ DOMAIN l = Servers
  BY ServerApiAssumption DEF ServerApiAssumption, Lists, Online, Servers
<1>2. PICK s \in up : \A t \in up : s <= t
  BY <1>1, LeastNat
<1>3. s \in DOMAIN l /\ l[s] /\ \A t \in 1..(s - 1) : ~l[t]
  BY <1>1, <1>2, ServerApiAssumption DEF ServerApiAssumption, Servers
<1> QED
  BY <1>1, <1>3 DEF FirstOnline

(* Without a list nothing is online; every list has a first server.        *)
LEMMA ListFacts ==
  /\ ~Online(NoServers)
  /\ \A l \in Lists : DOMAIN l = Servers /\ 1 \in DOMAIN l
  /\ \A l \in Lists \cup {NoServers} : /\ Online(l) \in BOOLEAN
                                       /\ Online(l) => l \in Lists
<1>1. ~Online(NoServers)
  BY DEF Online, NoServers
<1> QED
  BY <1>1, ServerApiAssumption DEF ServerApiAssumption, Servers, Lists, Online

(* A call for a listed server is typed, and known by who made it.          *)
LEMMA CallTyped ==
  ASSUME NEW op \in {"toggle", "reset"}, NEW s \in Servers,
         NEW by \in {"card", "drill", "sweep", "left"}
  PROVE  Call(op, s, by) \in AllCalls /\ Call(op, s, by).by = by
BY DEF Call, AllCalls
-------------------------------------------------------------------------------
LEMMA InitInv == Init => Inv
<1> SUFFICES ASSUME Init PROVE Inv
  OBVIOUS
<1> USE ServerApiAssumption, DashboardAssumption
    DEF ServerApiAssumption, DashboardAssumption, Init, ApiInit
<1>1. ApiTypeOK
  BY DEF ApiTypeOK, Lists, AllPolls
<1>2. TypeOK
  <2>1. {isFirstLoad, trafficTimer, startOff, stopOff, scenarioBusy, scenarioOff,
         recoveryOff, indicator} \subseteq BOOLEAN
    OBVIOUS
  <2>2. /\ serverRequestCounts \in [Servers -> Nat] /\ totalRequests \in Nat
        /\ bursts \in 0..2 /\ burstTests \in 0..Burst /\ driverTests \in 0..MaxTests
    BY DEF Zero
  <2>3. stream \in {"connecting", "open", "waiting"} /\ swept \subseteq Servers
    OBVIOUS
  <2> QED
    BY <1>1, <2>1, <2>2, <2>3 DEF TypeOK
<1>3. Controls
  BY ListFacts DEF Controls
<1>4. From("drill") = {} /\ From("sweep") = {}
  BY DEF From
<1>5. Exclusive /\ Sweeps
  BY <1>4 DEF Exclusive, Sweeps
<1> QED
  BY <1>2, <1>3, <1>5 DEF Inv
-------------------------------------------------------------------------------
(* Types.                                                                  *)
LEMMA ServerSideTypes ==
  ASSUME TypeOK, Outside
  PROVE  ApiTypeOK' /\ swept' \subseteq Servers
<1> USE ServerApiAssumption
    DEF ServerApiAssumption, TypeOK, ApiTypeOK, PageUnchanged, Spend, Changes
<1>1. CASE PageUnchanged /\ (GetServers \/ LosePoll) /\ UNCHANGED swept
  BY <1>1 DEF GetServers, LosePoll, AllPolls, Sent, Lost, Answer
<1>2. ASSUME NEW c \in calls, Handle(c), Changes(c.srv, c.by), PageUnchanged
      PROVE  ApiTypeOK' /\ swept' \subseteq Servers
  <2>1. c \in AllCalls /\ [c EXCEPT !.st = "ok"] \in AllCalls /\ c.srv \in Servers
    BY DEF AllCalls
  <2>2. enabled' \in Lists
    BY <1>2, <2>1 DEF Handle, Lists
  <2> QED
    BY <1>2, <2>1, <2>2 DEF Handle
<1>3. ASSUME NEW c \in calls, LoseCall(c), swept' = swept \ {c.srv}, PageUnchanged
      PROVE  ApiTypeOK' /\ swept' \subseteq Servers
  <2>1. [c EXCEPT !.st = "lost"] \in AllCalls
    BY DEF AllCalls
  <2> QED
    BY <1>3, <2>1 DEF LoseCall
<1>4. ASSUME NEW s \in Servers, Ping(s), Changes(s, "ping"), PageUnchanged
      PROVE  ApiTypeOK' /\ swept' \subseteq Servers
  BY <1>4 DEF Ping, Lists
<1> QED
  BY <1>1, <1>2, <1>3, <1>4 DEF Outside

LEMMA TypeStep ==
  ASSUME TypeOK, Controls, [Next]_vars
  PROVE  TypeOK'
<1> USE ServerApiAssumption, DashboardAssumption
    DEF ServerApiAssumption, DashboardAssumption, TypeOK, ApiTypeOK,
        buttons, scenario, tallies, feed, api, Spend
<1>1. CASE Poll
  BY <1>1 DEF Poll, AllPolls
<1>2. ASSUME NEW p \in polls, ListReturns(p)
      PROVE  TypeOK'
  <2>1. p.list \in Lists \cup {NoServers}
    BY <1>2 DEF ListReturns, AllPolls, Sent, Lost, Answer
  <2>2. /\ isFirstLoad' \in BOOLEAN /\ indicator' \in BOOLEAN
        /\ serverRequestCounts' \in [Servers -> Nat]
    <3>1. CASE p.st = "ok"
      <4>1. initCharts /\ UNCHANGED indicator
        BY <1>2, <3>1 DEF ListReturns
      <4>2. Zero \in [Servers -> Nat]
        BY DEF Zero
      <4> QED
        BY <4>1, <4>2 DEF initCharts
    <3>2. CASE p.st # "ok"
      <4>1. indicator' = FALSE /\ UNCHANGED <<isFirstLoad, serverRequestCounts>>
        BY <1>2, <3>2 DEF ListReturns
      <4> QED
        BY <4>1
    <3> QED
      BY <3>1, <3>2
  <2>3. {trafficTimer', startOff', stopOff', scenarioOff', recoveryOff'} \subseteq BOOLEAN
    BY <1>2 DEF ListReturns, renderServers, setScenarioBusyState
  <2> QED
    BY <1>2, <2>1, <2>2, <2>3 DEF ListReturns, renderServers
<1>3. CASE startTrafficLoop \/ ChangeRate
  <2>1. {trafficTimer', startOff', stopOff'} \subseteq BOOLEAN
    BY <1>3, ListFacts DEF startTrafficLoop, ChangeRate, StartLoop
  <2> QED
    BY <1>3, <2>1 DEF startTrafficLoop, ChangeRate
<1>4. CASE stopTrafficLoop
  BY <1>4 DEF stopTrafficLoop
<1>5. CASE TimerFires
  BY <1>5 DEF TimerFires
<1>6. ASSUME CountAnswer
      PROVE  /\ isFirstLoad' \in BOOLEAN /\ totalRequests' \in Nat
             /\ serverRequestCounts' \in [Servers -> Nat]
  BY <1>6 DEF CountAnswer
<1>7. CASE DriverTestReturns
  BY <1>7, <1>6 DEF DriverTestReturns
<1>8. ASSUME NEW s \in Servers, toggleServerStatus(s) \/ resetServer(s)
      PROVE  TypeOK'
  BY <1>8, CallTyped DEF toggleServerStatus, resetServer, Click
<1>9. ASSUME NEW c \in calls, CardReturns(c)
      PROVE  TypeOK'
  BY <1>9 DEF CardReturns, AllPolls
<1>10. ASSUME Finish
       PROVE  /\ {scenarioBusy', scenarioOff', recoveryOff'} \subseteq BOOLEAN
              /\ UNCHANGED <<enabled, list, budget, trafficTimer, startOff, stopOff,
                              driverTests, stream, indicator, swept>>
  BY <1>10 DEF Finish, setScenarioBusyState
<1>11. ASSUME NEW c \in calls, DrillReturns(c)
       PROVE  TypeOK'
  BY <1>11, <1>10 DEF DrillReturns, AllPolls
<1>12. ASSUME NEW c \in calls, SweepReturns(c)
       PROVE  TypeOK'
  <2>1. c \in AllCalls /\ FollowUp(c) \subseteq AllCalls
    BY CallTyped DEF FollowUp, AllCalls
  <2>2. calls' \subseteq AllCalls /\ polls' \subseteq AllPolls
    BY <1>12, <2>1 DEF SweepReturns, AllPolls
  <2>3. /\ {scenarioBusy', scenarioOff', recoveryOff'} \subseteq BOOLEAN
        /\ UNCHANGED <<enabled, list, budget, trafficTimer, startOff, stopOff,
                        driverTests, stream, indicator, swept>>
    BY <1>12, <1>10 DEF SweepReturns
  <2> QED
    BY <1>12, <2>2, <2>3 DEF SweepReturns
<1>13. ASSUME triggerScenario
       PROVE  /\ {scenarioBusy', scenarioOff', recoveryOff'} \subseteq BOOLEAN
              /\ budget' \in 0..Budget
              /\ UNCHANGED <<enabled, list, polls, trafficTimer, startOff, stopOff,
                              driverTests, isFirstLoad, serverRequestCounts,
                              totalRequests, stream, indicator>>
  BY <1>13 DEF triggerScenario, setScenarioBusyState
<1>14. CASE runFailureScenario
  <2>1. FirstOnline(list) \in Servers
    BY <1>14, ListFacts, FirstOnlineListed DEF runFailureScenario, Controls
  <2>2. Call("toggle", FirstOnline(list), "drill") \in AllCalls
    BY <2>1, CallTyped
  <2> QED
    BY <1>13, <1>14, <2>2 DEF runFailureScenario
<1>15. CASE runRecoveryScenario
  <2>1. DOMAIN list = Servers
    BY <1>15, ListFacts DEF runRecoveryScenario
  <2>2. {Call(IF list[s] THEN "reset" ELSE "toggle", s, "sweep") : s \in DOMAIN list}
          \subseteq AllCalls
    BY <2>1, CallTyped
  <2> QED
    BY <1>13, <1>15, <2>2 DEF runRecoveryScenario
<1>16. CASE runHeavyScenario \/ runPriorityScenario
  BY <1>13, <1>16 DEF runHeavyScenario, runPriorityScenario, RunBursts
<1>17. CASE BurstTestReturns
  <2>1. burstTests' \in 0..Burst /\ bursts' \in 0..2
    BY <1>17 DEF BurstTestReturns
  <2>2. /\ {scenarioBusy', scenarioOff', recoveryOff'} \subseteq BOOLEAN
        /\ UNCHANGED <<enabled, list, budget, trafficTimer, startOff, stopOff,
                        driverTests, stream, indicator, swept>>
    BY <1>17, <1>10 DEF BurstTestReturns
  <2> QED
    BY <1>17, <1>6, <2>1, <2>2 DEF BurstTestReturns
<1>18. CASE connectEventSource \/ StreamOpens \/ StreamBreaks
  <2>1. stream' \in {"connecting", "open", "waiting"} /\ budget' \in 0..Budget
    BY <1>18 DEF connectEventSource, StreamOpens, StreamBreaks
  <2>2. indicator' \in BOOLEAN
    BY <1>18 DEF connectEventSource, StreamOpens, StreamBreaks
  <2>3. StreamUnchanged
    BY <1>18, Zenon DEF connectEventSource, StreamOpens, StreamBreaks
  <2> QED
    BY <2>1, <2>2, <2>3 DEF StreamUnchanged
<1>19. CASE Outside
  <2>1. ApiTypeOK' /\ swept' \subseteq Servers
    BY <1>19, ServerSideTypes
  <2> QED
    BY <1>19, <2>1 DEF Outside, PageUnchanged
<1>20. CASE UNCHANGED vars
  BY <1>20 DEF vars
<1> QED
  BY <1>1, <1>2, <1>3, <1>4, <1>5, <1>7, <1>8, <1>9, <1>11, <1>12, <1>14, <1>15, <1>16,
     <1>17, <1>18, <1>19, <1>20 DEF Next, Page
-------------------------------------------------------------------------------
(* The buttons.  What they show changes only in steps that set them.       *)
ButtonsUnchanged == UNCHANGED <<list, trafficTimer, buttons, scenarioBusy>>

LEMMA ControlsStep ==
  ASSUME Inv, [Next]_vars
  PROVE  Controls'
<1> USE DEF Inv, Controls, buttons, scenario
<1>1. CASE ButtonsUnchanged
  BY <1>1 DEF ButtonsUnchanged, Online
<1>2. ASSUME NEW p \in polls, ListReturns(p)
      PROVE  Controls'
  <2>1. list' = p.list /\ trafficTimer' = (trafficTimer /\ p.list # NoServers)
        /\ startOff' = (trafficTimer' \/ ~Online(p.list)) /\ stopOff' = ~trafficTimer'
    BY <1>2 DEF ListReturns, renderServers
  <2>2. scenarioOff' = (scenarioBusy \/ ~Online(p.list)) /\ recoveryOff' = scenarioBusy
    BY <1>2 DEF ListReturns, renderServers, setScenarioBusyState
  <2>3. scenarioBusy' = scenarioBusy
    BY <1>2 DEF ListReturns
  <2> QED
    BY <2>1, <2>2, <2>3 DEF Online
<1>3. CASE startTrafficLoop \/ ChangeRate \/ stopTrafficLoop
  <2>1. UNCHANGED <<list, scenarioBusy, scenarioOff, recoveryOff>>
    BY <1>3 DEF startTrafficLoop, ChangeRate, stopTrafficLoop, api
  <2>2. startOff' = (trafficTimer' \/ ~Online(list)) /\ stopOff' = ~trafficTimer'
    BY <1>3 DEF startTrafficLoop, ChangeRate, stopTrafficLoop, StartLoop
  <2> QED
    BY <2>1, <2>2 DEF Online
<1>4. ASSUME Finish
      PROVE  Controls'
  BY <1>4 DEF Finish, setScenarioBusyState, Online
<1>5. ASSUME triggerScenario
      PROVE  Controls'
  BY <1>5 DEF triggerScenario, setScenarioBusyState, Online
<1>6. ASSUME NEW c \in calls, SweepReturns(c)
      PROVE  Controls'
  BY <1>6, <1>4, <1>1 DEF SweepReturns, ButtonsUnchanged
<1>7. CASE BurstTestReturns
  BY <1>7, <1>4, <1>1 DEF BurstTestReturns, ButtonsUnchanged
<1>8. CASE Poll \/ TimerFires \/ DriverTestReturns \/ connectEventSource
           \/ StreamOpens \/ StreamBreaks \/ Outside \/ UNCHANGED vars
  BY <1>8, <1>1 DEF ButtonsUnchanged, Poll, TimerFires, DriverTestReturns,
     connectEventSource, StreamOpens, StreamBreaks, StreamUnchanged, Outside,
     PageUnchanged, api, vars
<1>9. ASSUME NEW s \in Servers, toggleServerStatus(s) \/ resetServer(s)
      PROVE  Controls'
  BY <1>9, <1>1 DEF ButtonsUnchanged, toggleServerStatus, resetServer, Click
<1>10. ASSUME NEW c \in calls, CardReturns(c) \/ DrillReturns(c)
       PROVE  Controls'
  BY <1>10, <1>1, <1>4 DEF ButtonsUnchanged, CardReturns, DrillReturns
<1>11. CASE runFailureScenario \/ runRecoveryScenario \/ runHeavyScenario
            \/ runPriorityScenario
  BY <1>11, <1>5 DEF runFailureScenario, runRecoveryScenario, runHeavyScenario,
     runPriorityScenario, RunBursts
<1> QED
  BY <1>2, <1>3, <1>6, <1>7, <1>8, <1>9, <1>10, <1>11 DEF Next, Page
-------------------------------------------------------------------------------
(* One scenario at a time.  Steps that are no part of one leave its calls  *)
(* and tests as they are.                                                  *)
LEMMA ScenarioUntouched ==
  ASSUME Exclusive, UNCHANGED <<scenarioBusy, burstTests>>,
         From("drill")' = From("drill"), From("sweep")' = From("sweep")
  PROVE  Exclusive'
BY DEF Exclusive

(* The server's side settles a call: it stays the call of its scenario.    *)
LEMMA Settled ==
  ASSUME TypeOK, Exclusive, UNCHANGED <<scenarioBusy, burstTests>>,
         NEW c \in calls, NEW st \in {"ok", "lost"},
         calls' = (calls \ {c}) \cup {[c EXCEPT !.st = st]}
  PROVE  Exclusive'
<1>1. c \in AllCalls /\ [c EXCEPT !.st = st] \in AllCalls /\ [c EXCEPT !.st = st].by = c.by
  BY DEF TypeOK, ApiTypeOK, AllCalls
<1>2. \A by \in {"drill", "sweep"} : From(by)' = {} <=> From(by) = {}
  BY <1>1 DEF From
<1>3. \A d, e \in From("drill")' : d = e
  BY <1>1 DEF From, Exclusive
<1> QED
  BY <1>2, <1>3 DEF Exclusive

LEMMA ExclusiveStep ==
  ASSUME Inv, [Next]_vars
  PROVE  Exclusive'
<1> USE ServerApiAssumption, DashboardAssumption
    DEF ServerApiAssumption, DashboardAssumption, Inv, scenario
<1>0. calls \subseteq AllCalls /\ burstTests \in Nat /\ Burst # 0
  BY DEF TypeOK, ApiTypeOK
<1>1. CASE UNCHANGED <<calls, scenarioBusy, burstTests>>
  BY <1>1, ScenarioUntouched DEF From
<1>2. CASE Poll \/ (\E p \in polls : ListReturns(p)) \/ startTrafficLoop
           \/ stopTrafficLoop \/ ChangeRate \/ TimerFires \/ DriverTestReturns
           \/ connectEventSource \/ StreamOpens \/ StreamBreaks \/ UNCHANGED vars
  BY <1>2, <1>1 DEF Poll, ListReturns, startTrafficLoop, stopTrafficLoop, ChangeRate,
     TimerFires, DriverTestReturns, connectEventSource, StreamOpens, StreamBreaks,
     StreamUnchanged, api, vars
<1>3. ASSUME NEW s \in Servers, toggleServerStatus(s) \/ resetServer(s)
      PROVE  Exclusive'
  <2>1. PICK c \in {Call("toggle", s, "card"), Call("reset", s, "card")} :
          calls' = calls \cup {c}
    BY <1>3 DEF toggleServerStatus, resetServer, Click
  <2>2. c.by = "card"
    BY <2>1 DEF Call
  <2>3. UNCHANGED <<scenarioBusy, burstTests>>
    BY <1>3 DEF toggleServerStatus, resetServer, Click
  <2> QED
    BY <2>1, <2>2, <2>3, ScenarioUntouched DEF From
<1>4. ASSUME NEW c \in calls, CardReturns(c)
      PROVE  Exclusive'
  BY <1>4, ScenarioUntouched DEF CardReturns, From
<1>5. ASSUME NEW c \in calls, DrillReturns(c)
      PROVE  Exclusive'
  <2>1. From("drill")' = {} /\ From("sweep")' = From("sweep")
    BY <1>5 DEF DrillReturns, Exclusive, From
  <2>2. scenarioBusy' = FALSE /\ burstTests' = burstTests
    BY <1>5 DEF DrillReturns, Finish
  <2>3. c \in From("drill")
    BY <1>5 DEF DrillReturns, From
  <2> QED
    BY <2>1, <2>2, <2>3 DEF Exclusive, TypeOK
<1>6. ASSUME NEW c \in calls, SweepReturns(c)
      PROVE  Exclusive'
  <2>1. FollowUp(c) \subseteq From("sweep")'
    BY <1>6 DEF SweepReturns, FollowUp, From, Call
  <2>2. /\ From("drill")' = From("drill") /\ burstTests' = burstTests
        /\ From("sweep")' = (From("sweep") \ {c}) \cup FollowUp(c)
        /\ c \in From("sweep")
    BY <1>6 DEF SweepReturns, FollowUp, From, Call
  <2>3. scenarioBusy /\ From("drill") = {} /\ burstTests = 0
    BY <2>2 DEF Exclusive, TypeOK
  <2>4. CASE From("sweep") = {c} /\ FollowUp(c) = {}
    <3>1. scenarioBusy' = FALSE
      BY <1>6, <2>4 DEF SweepReturns, Finish
    <3> QED
      BY <2>2, <2>3, <2>4, <3>1 DEF Exclusive
  <2>5. CASE ~(From("sweep") = {c} /\ FollowUp(c) = {})
    <3>1. scenarioBusy' = scenarioBusy
      BY <1>6, <2>5 DEF SweepReturns
    <3>2. From("sweep")' # {}
      BY <2>2, <2>5
    <3> QED
      BY <2>2, <2>3, <3>1, <3>2 DEF Exclusive
  <2> QED
    BY <2>4, <2>5
<1>7. ASSUME triggerScenario
      PROVE  /\ scenarioBusy' /\ ~scenarioBusy
             /\ From("drill") = {} /\ From("sweep") = {} /\ burstTests = 0
  BY <1>7 DEF triggerScenario, Exclusive
<1>8. CASE runFailureScenario
  <2>1. Call("toggle", FirstOnline(list), "drill").by = "drill"
    BY DEF Call
  <2>2. From("drill")' = {Call("toggle", FirstOnline(list), "drill")}
        /\ From("sweep")' = {} /\ burstTests' = 0
    BY <1>7, <1>8, <2>1 DEF runFailureScenario, From
  <2> QED
    BY <1>7, <1>8, <2>2 DEF runFailureScenario, Exclusive
<1>9. CASE runRecoveryScenario
  <2>1. 1 \in DOMAIN list
    BY <1>9, ListFacts DEF runRecoveryScenario, TypeOK, ApiTypeOK
  <2> DEFINE new == {Call(IF list[s] THEN "reset" ELSE "toggle", s, "sweep") : s \in DOMAIN list}
  <2>2. new # {} /\ \A c \in new : c.by = "sweep"
    <3>1. Call(IF list[1] THEN "reset" ELSE "toggle", 1, "sweep") \in new
      BY <2>1
    <3>2. \A op, s : Call(op, s, "sweep").by = "sweep"
      BY DEF Call
    <3> QED
      BY <3>1, <3>2
  <2>3. calls' = calls \cup new /\ burstTests' = burstTests
    BY <1>9 DEF runRecoveryScenario
  <2> HIDE DEF new
  <2>4. From("drill")' = {} /\ From("sweep")' # {}
    BY <1>7, <1>9, <2>2, <2>3 DEF runRecoveryScenario, From
  <2> QED
    BY <1>7, <1>9, <2>3, <2>4 DEF runRecoveryScenario, Exclusive
<1>10. CASE runHeavyScenario \/ runPriorityScenario
  <2>1. triggerScenario /\ burstTests' = Burst /\ calls' = calls
    BY <1>10 DEF runHeavyScenario, runPriorityScenario, RunBursts
  <2> QED
    BY <1>0, <1>7, <2>1 DEF Exclusive, From
<1>11. CASE BurstTestReturns
  <2>1. calls' = calls /\ burstTests # 0
    BY <1>11 DEF BurstTestReturns
  <2>2. scenarioBusy /\ From("drill") = {} /\ From("sweep") = {}
    BY <2>1 DEF Exclusive
  <2>3. (burstTests' = 0 /\ scenarioBusy' = FALSE) \/ (burstTests' # 0 /\ scenarioBusy' = scenarioBusy)
    BY <1>11 DEF BurstTestReturns, Finish
  <2> QED
    BY <2>1, <2>2, <2>3 DEF Exclusive, From
<1>12. CASE Outside
  <2>1. UNCHANGED <<scenarioBusy, burstTests>>
    BY <1>12 DEF Outside, PageUnchanged
  <2>2. ASSUME NEW c \in calls, Handle(c) \/ LoseCall(c)
        PROVE  Exclusive'
    BY <2>1, <2>2, Settled DEF Handle, LoseCall
  <2>3. CASE calls' = calls
    BY <1>1, <2>1, <2>3
  <2> QED
    BY <1>12, <2>2, <2>3 DEF Outside, GetServers, LosePoll, Ping
<1> QED
  BY <1>2, <1>3, <1>4, <1>5, <1>6, <1>8, <1>9, <1>10, <1>11, <1>12 DEF Next, Page
-------------------------------------------------------------------------------
(* The recovery sweep.  A step that leaves its calls alone and disables no *)
(* server that is counted as swept.                                        *)
LEMMA SweepUntouched ==
  ASSUME Sweeps, From("sweep")' = From("sweep"), swept' \subseteq swept,
         \A s \in swept' : enabled[s] => enabled'[s]
  PROVE  Sweeps'
BY DEF Sweeps

LEMMA SweepsStep ==
  ASSUME Inv, [Next]_vars
  PROVE  Sweeps'
<1> USE ServerApiAssumption, DashboardAssumption
    DEF ServerApiAssumption, DashboardAssumption, Inv, scenario
<1>0. calls \subseteq AllCalls /\ enabled \in Lists /\ swept \subseteq Servers
  BY DEF TypeOK, ApiTypeOK
<1>1. CASE From("sweep")' = From("sweep") /\ UNCHANGED <<enabled, swept>>
  BY <1>1, SweepUntouched
<1>2. CASE Poll \/ (\E p \in polls : ListReturns(p)) \/ startTrafficLoop
           \/ stopTrafficLoop \/ ChangeRate \/ TimerFires \/ DriverTestReturns
           \/ connectEventSource \/ StreamOpens \/ StreamBreaks \/ UNCHANGED vars
  <2>1. UNCHANGED <<calls, enabled, swept>>
    BY <1>2 DEF Poll, ListReturns, startTrafficLoop, stopTrafficLoop, ChangeRate,
       TimerFires, DriverTestReturns, connectEventSource, StreamOpens, StreamBreaks,
       StreamUnchanged, api, vars
  <2> QED
    BY <1>1, <2>1 DEF From
<1>3. ASSUME NEW s \in Servers, toggleServerStatus(s) \/ resetServer(s)
      PROVE  Sweeps'
  <2>1. PICK c \in {Call("toggle", s, "card"), Call("reset", s, "card")} :
          calls' = calls \cup {c}
    BY <1>3 DEF toggleServerStatus, resetServer, Click
  <2>2. c.by = "card"
    BY <2>1 DEF Call
  <2>3. UNCHANGED <<enabled, swept>>
    BY <1>3 DEF toggleServerStatus, resetServer, Click
  <2> QED
    BY <1>1, <2>1, <2>2, <2>3 DEF From
<1>4. ASSUME NEW c \in calls, CardReturns(c) \/ DrillReturns(c)
      PROVE  Sweeps'
  <2>1. From("sweep")' = From("sweep")
    BY <1>4 DEF CardReturns, DrillReturns, From
  <2>2. UNCHANGED <<enabled, swept>>
    BY <1>4 DEF CardReturns, DrillReturns, Finish
  <2> QED
    BY <1>1, <2>1, <2>2
<1>5. ASSUME NEW c \in calls, SweepReturns(c)
      PROVE  Sweeps'
  <2>1. UNCHANGED <<enabled, swept>>
    BY <1>5 DEF SweepReturns, Finish
  <2>2. c \in From("sweep") /\ c.st # "sent" /\ c.op \in {"toggle", "reset"}
    BY <1>0, <1>5 DEF SweepReturns, From, AllCalls
  <2>3. \A d \in FollowUp(c) : /\ d.srv = c.srv /\ d.st = "sent" /\ d.by = "sweep"
                               /\ FollowUp(c) = {d}
    BY DEF FollowUp, Call
  <2>4. From("sweep")' = (From("sweep") \ {c}) \cup FollowUp(c)
    BY <1>5, <2>2, <2>3 DEF SweepReturns, From
  <2>5. \A d, e \in From("sweep")' : d.srv = e.srv => d = e
    BY <2>2, <2>3, <2>4 DEF Sweeps
  <2>6. ASSUME NEW s \in swept
        PROVE  /\ \A d \in From("sweep")' : d.srv = s => d.st # "lost"
               /\ \/ enabled'[s]
                  \/ \E d \in From("sweep")' : d.srv = s /\ (d.op = "toggle" \/ d.st = "sent")
    <3>1. \A d \in From("sweep")' : d.srv = s => d.st # "lost"
      BY <2>3, <2>4 DEF Sweeps
    <3>2. CASE enabled[s]
      BY <2>1, <3>1, <3>2
    <3>3. ASSUME ~enabled[s], NEW d \in From("sweep"), d.srv = s, d.op = "toggle" \/ d.st = "sent"
          PROVE  \E e \in From("sweep")' : e.srv = s /\ (e.op = "toggle" \/ e.st = "sent")
      <4>1. CASE d # c
        BY <2>4, <3>3, <4>1
      <4>2. CASE d = c
        <5>1. c.op = "toggle" /\ c.st = "ok"
          <6>1. c.st # "lost"
            BY <2>2, <3>3, <4>2 DEF Sweeps
          <6>2. c.st \in {"sent", "ok", "lost"}
            BY <1>0 DEF AllCalls
          <6> QED
            BY <2>2, <3>3, <4>2, <6>1, <6>2
        <5>2. Call("reset", c.srv, "sweep") \in FollowUp(c)
          BY <5>1 DEF FollowUp
        <5> QED
          BY <2>3, <2>4, <3>3, <4>2, <5>2
      <4> QED
        BY <4>1, <4>2
    <3> QED
      BY <3>1, <3>2, <3>3 DEF Sweeps
  <2> QED
    BY <2>1, <2>5, <2>6 DEF Sweeps
<1>6. CASE runFailureScenario
  <2>1. Call("toggle", FirstOnline(list), "drill").by = "drill"
    BY DEF Call
  <2>2. From("sweep")' = From("sweep") /\ UNCHANGED <<enabled, swept>>
    BY <1>6, <2>1 DEF runFailureScenario, triggerScenario, From
  <2> QED
    BY <1>1, <2>2
<1>7. CASE runRecoveryScenario
  <2> DEFINE new == {Call(IF list[s] THEN "reset" ELSE "toggle", s, "sweep") : s \in DOMAIN list}
  <2>1. From("sweep") = {}
    BY <1>7 DEF runRecoveryScenario, triggerScenario, Exclusive
  <2>2. \A c \in new : c.by = "sweep" /\ c.srv \in DOMAIN list
                       /\ c = Call(IF list[c.srv] THEN "reset" ELSE "toggle", c.srv, "sweep")
    <3>1. \A op, s : Call(op, s, "sweep").by = "sweep" /\ Call(op, s, "sweep").srv = s
      BY DEF Call
    <3> QED
      BY <3>1
  <2>3. calls' = calls \cup new /\ swept' = {}
    BY <1>7 DEF runRecoveryScenario
  <2> HIDE DEF new
  <2>4. From("sweep")' \subseteq new
    BY <2>1, <2>3 DEF From
  <2>5. \A c, d \in new : c.srv = d.srv => c = d
    BY <2>2
  <2> QED
    BY <2>3, <2>4, <2>5 DEF Sweeps
<1>8. CASE runHeavyScenario \/ runPriorityScenario
  BY <1>1, <1>8 DEF runHeavyScenario, runPriorityScenario, RunBursts, triggerScenario, From
<1>9. CASE BurstTestReturns
  <2>1. calls' = calls /\ UNCHANGED <<enabled, swept>>
    BY <1>9 DEF BurstTestReturns, Finish
  <2> QED
    BY <1>1, <2>1 DEF From
<1>10. ASSUME NEW c \in calls, Handle(c), Changes(c.srv, c.by)
       PROVE  Sweeps'
  <2> DEFINE h == [c EXCEPT !.st = "ok"]
  <2>1. /\ c \in AllCalls /\ c.st = "sent" /\ c.srv \in Servers
        /\ h.by = c.by /\ h.srv = c.srv /\ h.op = c.op /\ h.st = "ok"
        /\ calls' = (calls \ {c}) \cup {h}
    BY <1>0, <1>10 DEF Handle, AllCalls
  <2>2. enabled' = [enabled EXCEPT ![c.srv] = IF c.op = "toggle" THEN ~@ ELSE TRUE]
    BY <1>10 DEF Handle
  <2> HIDE DEF h
  <2>3. \A s \in Servers : s # c.srv => enabled'[s] = enabled[s]
    BY <1>0, <2>2 DEF Lists
  <2>4. c.op # "toggle" => enabled'[c.srv]
    BY <1>0, <2>1, <2>2 DEF Lists
  <2>5. CASE c.by # "sweep"
    <3>1. From("sweep")' = From("sweep") /\ swept' = swept \ {c.srv}
      BY <1>10, <2>1, <2>5 DEF From, Changes
    <3> QED
      BY <1>0, <2>3, <3>1, SweepUntouched
  <2>6. CASE c.by = "sweep"
    <3>1. From("sweep")' = (From("sweep") \ {c}) \cup {h} /\ swept' = swept \cup {c.srv}
          /\ c \in From("sweep")
      BY <1>10, <2>1, <2>6 DEF From, Changes
    <3>2. \A d, e \in From("sweep")' : d.srv = e.srv => d = e
      BY <2>1, <3>1 DEF Sweeps
    <3>3. ASSUME NEW s \in swept', s # c.srv
          PROVE  /\ \A d \in From("sweep")' : d.srv = s => d.st # "lost"
                 /\ \/ enabled'[s]
                    \/ \E d \in From("sweep")' : d.srv = s /\ (d.op = "toggle" \/ d.st = "sent")
      BY <1>0, <2>1, <2>3, <3>1, <3>3 DEF Sweeps
    <3>4. /\ \A d \in From("sweep")' : d.srv = c.srv => d = h
          /\ h \in From("sweep")'
      BY <2>1, <3>1, <3>2
    <3>5. enabled'[c.srv] \/ c.op = "toggle"
      BY <2>4
    <3> QED
      BY <2>1, <3>2, <3>3, <3>4, <3>5 DEF Sweeps
  <2> QED
    BY <2>5, <2>6
<1>11. ASSUME NEW c \in calls, LoseCall(c), swept' = swept \ {c.srv}
       PROVE  Sweeps'
  <2> DEFINE h == [c EXCEPT !.st = "lost"]
  <2>1. /\ c \in AllCalls /\ h.by = c.by /\ h.srv = c.srv
        /\ calls' = (calls \ {c}) \cup {h} /\ enabled' = enabled
    BY <1>0, <1>11 DEF LoseCall, AllCalls
  <2> HIDE DEF h
  <2>2. CASE c.by # "sweep"
    BY <1>11, <2>1, <2>2, SweepUntouched DEF From
  <2>3. CASE c.by = "sweep"
    <3>1. From("sweep")' = (From("sweep") \ {c}) \cup {h} /\ c \in From("sweep")
      BY <2>1, <2>3 DEF From
    <3> QED
      BY <1>11, <2>1, <3>1 DEF Sweeps
  <2> QED
    BY <2>2, <2>3
<1>12. ASSUME NEW s \in Servers, Ping(s), Changes(s, "ping")
       PROVE  Sweeps'
  <2>1. calls' = calls /\ swept' = swept \ {s} /\ enabled' = [enabled EXCEPT ![s] = ~@]
    BY <1>12 DEF Ping, Changes
  <2> QED
    BY <1>0, <2>1, SweepUntouched DEF From, Lists
<1>13. CASE Outside
  <2>1. (GetServers \/ LosePoll) /\ UNCHANGED swept => Sweeps'
    <3>1. SUFFICES ASSUME GetServers \/ LosePoll, UNCHANGED swept PROVE Sweeps'
      OBVIOUS
    <3>2. calls' = calls /\ enabled' = enabled
      BY <3>1 DEF GetServers, LosePoll
    <3> QED
      BY <1>1, <3>1, <3>2 DEF From
  <2> QED
    BY <1>10, <1>11, <1>12, <1>13, <2>1 DEF Outside
<1> QED
  BY <1>2, <1>3, <1>4, <1>5, <1>6, <1>7, <1>8, <1>9, <1>13 DEF Next, Page
-------------------------------------------------------------------------------
(* The distribution chart.                                                 *)

(* Until the first list has arrived the page has sent no test request, so  *)
(* the counts that initCharts sets up again are still those of Init.       *)
Fresh ==
  isFirstLoad => /\ list = NoServers /\ ~trafficTimer
                 /\ driverTests = 0 /\ burstTests = 0 /\ totalRequests = 0

Tallied == Fresh /\ SumOver(serverRequestCounts, Servers) = totalRequests

LEMMA ServersFinite == IsFiniteSet(Servers)
BY ServerApiAssumption, FS_Interval DEF ServerApiAssumption, Servers

LEMMA SumOfZero == SumOver(Zero, Servers) = 0
<1>1. \A s \in Servers : Zero[s] = 0
  BY DEF Zero
<1>2. SumOver(Zero, Servers) = 0 * Cardinality(Servers)
  BY <1>1, ServersFinite, SumConstant
<1> QED
  BY <1>2, ServersFinite, FS_CardinalityType

(* An answer adds one to the count of its server and to the total. *)
LEMMA AnswerCounted ==
  ASSUME TypeOK, Tallied, CountAnswer
  PROVE  SumOver(serverRequestCounts', Servers) = totalRequests'
<1>1. CASE UNCHANGED tallies
  BY <1>1, Zenon DEF Tallied, tallies
<1>2. ASSUME NEW s \in Servers,
             serverRequestCounts' = [serverRequestCounts EXCEPT ![s] = @ + 1],
             totalRequests' = totalRequests + 1
      PROVE  SumOver(serverRequestCounts', Servers) = totalRequests'
  <2>1. /\ \A r \in Servers : /\ serverRequestCounts[r] \in Int
                              /\ serverRequestCounts'[r] \in Int
                              /\ r # s => serverRequestCounts'[r] = serverRequestCounts[r]
        /\ serverRequestCounts'[s] = serverRequestCounts[s] + 1
    BY <1>2 DEF TypeOK
  <2>2. SumOver(serverRequestCounts', Servers)
          = SumOver(serverRequestCounts, Servers) - serverRequestCounts[s]
              + serverRequestCounts'[s]
    BY <2>1, ServersFinite, SumChange
  <2>3. SumOver(serverRequestCounts, Servers) = totalRequests /\ totalRequests \in Int
    BY DEF Tallied, TypeOK
  <2> QED
    BY <1>2, <2>1, <2>2, <2>3
<1> QED
  BY <1>1, <1>2 DEF CountAnswer

LEMMA FreshStep ==
  ASSUME Inv, Tallied, [Next]_vars
  PROVE  Fresh'
<1> USE DEF Inv, scenario, tallies
<1>0. /\ isFirstLoad \in BOOLEAN /\ Fresh
      /\ Fresh /\ isFirstLoad => startOff /\ scenarioOff
  BY ListFacts DEF TypeOK, Controls, Tallied, Fresh
<1>1. CASE UNCHANGED <<isFirstLoad, list, trafficTimer, driverTests, burstTests, totalRequests>>
  BY <1>0, <1>1 DEF Fresh
<1>2. ASSUME NEW p \in polls, ListReturns(p)
      PROVE  Fresh'
  <2>1. CASE p.st = "ok"
    BY <1>2, <2>1 DEF ListReturns, initCharts, Fresh
  <2>2. CASE p.st # "ok"
    <3>1. p = Lost
      BY <1>2, <2>2 DEF ListReturns, TypeOK, ApiTypeOK, AllPolls, Sent, Lost, Answer
    <3>2. list' = NoServers /\ trafficTimer' = FALSE
      BY <1>2, <3>1 DEF ListReturns, renderServers, Lost
    <3>3. UNCHANGED <<isFirstLoad, driverTests, burstTests, totalRequests>>
      BY <1>2, <2>2 DEF ListReturns
    <3> QED
      BY <1>0, <3>2, <3>3 DEF Fresh
  <2> QED
    BY <2>1, <2>2
<1>3. CASE startTrafficLoop \/ ChangeRate \/ TimerFires
  <2>1. ~isFirstLoad
    BY <1>0, <1>3 DEF startTrafficLoop, ChangeRate, TimerFires, Fresh
  <2>2. isFirstLoad' = isFirstLoad
    BY <1>3 DEF startTrafficLoop, ChangeRate, TimerFires
  <2> QED
    BY <2>1, <2>2 DEF Fresh
<1>4. CASE stopTrafficLoop
  BY <1>0, <1>4 DEF stopTrafficLoop, api, Fresh
<1>5. CASE DriverTestReturns \/ BurstTestReturns
  <2>1. ~isFirstLoad
    BY <1>0, <1>5 DEF DriverTestReturns, BurstTestReturns, Fresh
  <2>2. isFirstLoad' = isFirstLoad
    BY <1>5 DEF DriverTestReturns, BurstTestReturns, CountAnswer
  <2> QED
    BY <2>1, <2>2 DEF Fresh
<1>6. CASE runFailureScenario \/ runHeavyScenario \/ runPriorityScenario
  <2>1. ~isFirstLoad
    BY <1>0, <1>6 DEF runFailureScenario, runHeavyScenario, runPriorityScenario, RunBursts
  <2>2. isFirstLoad' = isFirstLoad
    BY <1>6 DEF runFailureScenario, runHeavyScenario, runPriorityScenario, RunBursts,
       triggerScenario
  <2> QED
    BY <2>1, <2>2 DEF Fresh
<1>7. CASE runRecoveryScenario
  BY <1>1, <1>7 DEF runRecoveryScenario, triggerScenario
<1>8. ASSUME NEW c \in calls, CardReturns(c) \/ DrillReturns(c) \/ SweepReturns(c)
      PROVE  Fresh'
  BY <1>1, <1>8 DEF CardReturns, DrillReturns, SweepReturns, Finish
<1>9. CASE \/ Poll \/ (\E s \in Servers : toggleServerStatus(s) \/ resetServer(s))
           \/ connectEventSource \/ StreamOpens \/ StreamBreaks \/ Outside \/ UNCHANGED vars
  BY <1>1, <1>9 DEF Poll, toggleServerStatus, resetServer, Click, connectEventSource,
     StreamOpens, StreamBreaks, StreamUnchanged, Outside, PageUnchanged, api, vars
<1> QED
  BY <1>2, <1>3, <1>4, <1>5, <1>6, <1>7, <1>8, <1>9 DEF Next, Page

(* The page counts an answer in two places; the counts are set up once     *)
(* more only while there is nothing to lose.                               *)
LEMMA TalliedStep ==
  ASSUME Inv, Tallied, [Next]_vars
  PROVE  Tallied'
<1> USE DEF Inv, tallies
<1>0. /\ SumOver(serverRequestCounts, Servers) = totalRequests /\ Fresh
      /\ isFirstLoad \in BOOLEAN
  BY DEF Tallied, TypeOK
<1>1. CASE UNCHANGED <<serverRequestCounts, totalRequests>>
  <2>1. SumOver(serverRequestCounts', Servers) = totalRequests'
    BY <1>0, <1>1, Zenon
  <2> QED
    BY <2>1, FreshStep DEF Tallied
<1>2. ASSUME NEW p \in polls, ListReturns(p)
      PROVE  Tallied'
  <2>1. CASE UNCHANGED <<serverRequestCounts, totalRequests>>
    BY <1>1, <2>1
  <2>2. CASE ~UNCHANGED <<serverRequestCounts, totalRequests>>
    <3>1. isFirstLoad /\ serverRequestCounts' = Zero /\ totalRequests' = totalRequests
      BY <1>2, <2>2 DEF ListReturns, initCharts
    <3>2. totalRequests = 0
      BY <1>0, <3>1 DEF Fresh
    <3>3. SumOver(serverRequestCounts', Servers) = totalRequests'
      BY <3>1, <3>2, SumOfZero, Zenon
    <3> QED
      BY <3>3, FreshStep DEF Tallied
  <2> QED
    BY <2>1, <2>2
<1>3. CASE DriverTestReturns \/ BurstTestReturns
  <2>1. SumOver(serverRequestCounts', Servers) = totalRequests'
    BY <1>3, AnswerCounted DEF DriverTestReturns, BurstTestReturns
  <2> QED
    BY <2>1, FreshStep DEF Tallied
<1>4. CASE \/ Poll \/ startTrafficLoop \/ stopTrafficLoop \/ ChangeRate \/ TimerFires
           \/ (\E s \in Servers : toggleServerStatus(s) \/ resetServer(s))
           \/ connectEventSource \/ StreamOpens \/ StreamBreaks \/ Outside \/ UNCHANGED vars
  BY <1>1, <1>4 DEF Poll, startTrafficLoop, stopTrafficLoop, ChangeRate, TimerFires,
     toggleServerStatus, resetServer, Click, connectEventSource,
     StreamOpens, StreamBreaks, StreamUnchanged, Outside, PageUnchanged, vars
<1>5. CASE runFailureScenario \/ runHeavyScenario \/ runPriorityScenario \/ runRecoveryScenario
  BY <1>1, <1>5 DEF runFailureScenario, runHeavyScenario, runPriorityScenario, RunBursts,
     runRecoveryScenario, triggerScenario
<1>6. ASSUME NEW c \in calls, CardReturns(c) \/ DrillReturns(c) \/ SweepReturns(c)
      PROVE  Tallied'
  BY <1>1, <1>6 DEF CardReturns, DrillReturns, SweepReturns
<1> QED
  BY <1>2, <1>3, <1>4, <1>5, <1>6 DEF Next, Page
-------------------------------------------------------------------------------
LEMMA Invariance == Spec => []Inv
<1>1. Inv /\ [Next]_vars => Inv'
  BY TypeStep, ControlsStep, ExclusiveStep, SweepsStep DEF Inv
<1> QED
  BY InitInv, <1>1, PTL DEF Spec

LEMMA TalliedAlways == Spec => []Tallied
<1>1. Init => Tallied
  BY SumOfZero, Zenon DEF Init, ApiInit, Tallied, Fresh
<1>2. Inv /\ Tallied /\ [Next]_vars => Tallied'
  BY TalliedStep
<1> QED
  BY <1>1, <1>2, Invariance, PTL DEF Spec

(* The state of the page and of the server stays well typed: a scenario    *)
(* never calls for a server that the balancer does not have.               *)
THEOREM TypeCorrect == Spec => []TypeOK
BY Invariance, PTL DEF Inv

(* The buttons fit the list, the timer and the scenario after every        *)
(* callback (renderServers, startTrafficLoop, setScenarioBusyState).       *)
THEOREM ButtonsFit == Spec => []Controls
BY Invariance, PTL DEF Inv

(* One scenario at a time, whatever the number of servers it calls.        *)
THEOREM OneScenarioAtATime == Spec => []ScenarioExclusive
<1>1. Inv => ScenarioExclusive
  <2> SUFFICES ASSUME Inv PROVE ScenarioExclusive
    OBVIOUS
  <2> USE DEF Inv
  <2>1. burstTests \in Nat /\ scenarioBusy \in BOOLEAN
    BY DashboardAssumption DEF DashboardAssumption, TypeOK
  <2>2. CASE ~scenarioBusy
    <3>1. Running = {}
      BY <2>1, <2>2 DEF Running, Exclusive
    <3> QED
      BY <2>2, <3>1, FS_EmptySet DEF ScenarioExclusive
  <2>3. CASE scenarioBusy
    <3>1. Running = {"drill"} \/ Running = {"sweep"} \/ Running = {"burst"}
      BY <2>1, <2>3 DEF Running, Exclusive
    <3>2. Cardinality({"drill"}) = 1 /\ Cardinality({"sweep"}) = 1 /\ Cardinality({"burst"}) = 1
      BY FS_Singleton
    <3> QED
      BY <2>3, <3>1, <3>2 DEF ScenarioExclusive
  <2> QED
    BY <2>1, <2>2, <2>3
<1> QED
  BY Invariance, <1>1, PTL

(* A recovery sweep brings back every server it got through to             *)
(* (runRecoveryScenario), however many there are.                          *)
THEOREM SweepsRestore == Spec => []SweepRestores
<1>1. Inv => SweepRestores
  BY DEF Inv, Sweeps, SweepRestores
<1> QED
  BY Invariance, <1>1, PTL

(* The distribution chart accounts for every request the total counts      *)
(* (sendTestRequest, initCharts), for any number of servers and requests,  *)
(* whenever the first list of servers arrives.                             *)
THEOREM ChartAddsUp == Spec => []TalliesAgree
<1>1. Tallied => TalliesAgree
  BY DEF Tallied, TalliesAgree, SumOver, MapThenSumSet, MapThenFoldSet
<1> QED
  BY TalliedAlways, <1>1, PTL

===============================================================================
