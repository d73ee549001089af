--------------------------- MODULE ControlPanelProofs ---------------------------
(***************************************************************************)
(* Theorems about ControlPanel, for any number of servers, any length of a *)
(* burst and any number of lost calls, failed pings and clicks.            *)
(***************************************************************************)
EXTENDS ControlPanel, DataTheorems

(* The page holds the interval of the generator, and knows that it does.   *)
TimerKnown == timerRef = trafficActive

DrillAlone == \A c, d \in From("drill") : c = d

(* What a change of the configuration has done so far, if it is alone.     *)
Following ==
  alone =>
    /\ \A p, q \in posts : p = q
    /\ posts = {} => config = switches
    /\ \A p \in posts :
         /\ p.body = switches /\ p.st # "lost"
         /\ p.st \in {"half", "ok"} => config.ipHash = switches.ipHash
         /\ p.st = "ok" => config.sticky = switches.sticky

Inv == TypeOK /\ Generator /\ TimerKnown /\ OneScenario /\ DrillAlone /\ Following
-------------------------------------------------------------------------------
(* The list of servers and the calls of the page (ServerApi).              *)

(* The first server that a list shows online is one of the servers.        *)
LEMMA FirstOnlineListed ==
  ASSUME NEW l \in Lists, Online(l)
  PROVE  FirstOnline(l) \in Servers
<1> DEFINE up == {s \in Servers : l[s]}
<1>1. up # {} /\ up \subseteq Nat /\ DOMAIN l = Servers
  BY ServerApiAssumption DEF ServerApiAssumption, Lists, Online, Servers
<1>2. PICK s \in up : \A t \in up : s <= t
  BY <1>1, LeastNat
<1>3. s \in DOMAIN l /\ l[s] /\ \A t \in 1..(s - 1) : ~l[t]
  BY <1>1, <1>2, ServerApiAssumption DEF ServerApiAssumption, Servers
<1> QED
  BY <1>1, <1>3 DEF FirstOnline

(* Without a list nothing is online; every list has a first server.        *)
LEMMA ListFacts ==
  /\ ~Online(NoServers)
  /\ \A l \in Lists : DOMAIN l = Servers /\ 1 \in DOMAIN l
  /\ \A l \in Lists \cup {NoServers} : /\ Online(l) \in BOOLEAN
                                       /\ Online(l) => l \in Lists
<1>1. ~Online(NoServers)
  BY DEF Online, NoServers
<1> QED
  BY <1>1, ServerApiAssumption DEF ServerApiAssumption, Servers, Lists, Online

(* A call for a listed server is typed, and known by who made it.          *)
LEMMA CallTyped ==
  ASSUME NEW op \in {"toggle", "reset"}, NEW s \in Servers,
         NEW by \in {"card", "drill", "sweep", "left"}
  PROVE  Call(op, s, by) \in AllCalls /\ Call(op, s, by).by = by
BY DEF Call, AllCalls
-------------------------------------------------------------------------------
LEMMA InitInv == Init => Inv
<1> SUFFICES ASSUME Init PROVE Inv
  OBVIOUS
<1> USE ServerApiAssumption, PanelAssumption
    DEF ServerApiAssumption, PanelAssumption, Init, ApiInit
<1>1. ApiTypeOK
  BY DEF ApiTypeOK, Lists, AllPolls
<1>2. TypeOK
  <2>1. switches \in Configs /\ busyScenario \in Scenarios \cup {"none"}
    BY DEF Configs
  <2>2. {trafficActive, timerRef, effectDue, alone} \subseteq BOOLEAN
    OBVIOUS
  <2> QED
    BY <1>1, <2>1, <2>2 DEF TypeOK
<1>3. Generator /\ TimerKnown /\ Following
  BY DEF Generator, TimerKnown, Following
<1>4. From("drill") = {} /\ From("sweep") = {}
  BY DEF From
<1> QED
  BY <1>2, <1>3, <1>4 DEF Inv, OneScenario, DrillAlone
-------------------------------------------------------------------------------
(* Types.                                                                  *)
LEMMA ServerSideTypes ==
  ASSUME TypeOK,
         \/ GetServers \/ LosePoll
         \/ \E c \in calls : Handle(c) \/ LoseCall(c)
         \/ \E s \in Servers : Ping(s)
  PROVE  /\ enabled' \in Lists /\ polls' \subseteq AllPolls
         /\ calls' \subseteq AllCalls /\ budget' \in 0..Budget
<1> USE ServerApiAssumption DEF ServerApiAssumption, TypeOK, ApiTypeOK, Spend
<1>1. CASE GetServers \/ LosePoll
  BY <1>1 DEF GetServers, LosePoll, AllPolls, Sent, Lost, Answer
<1>2. ASSUME NEW c \in calls, Handle(c)
      PROVE  /\ enabled' \in Lists /\ polls' = polls
             /\ calls' \subseteq AllCalls /\ budget' = budget
  <2>1. c \in AllCalls /\ [c EXCEPT !.st = "ok"] \in AllCalls /\ c.srv \in Servers
    BY DEF AllCalls
  <2> QED
    BY <1>2, <2>1 DEF Handle, Lists
<1>3. ASSUME NEW c \in calls, LoseCall(c)
      PROVE  /\ enabled' = enabled /\ polls' = polls
             /\ calls' \subseteq AllCalls /\ budget' \in 0..Budget
  <2>1. [c EXCEPT !.st = "lost"] \in AllCalls
    BY DEF AllCalls
  <2> QED
    BY <1>3, <2>1 DEF LoseCall
<1>4. ASSUME NEW s \in Servers, Ping(s)
      PROVE  /\ enabled' \in Lists /\ polls' = polls
             /\ calls' = calls /\ budget' \in 0..Budget
  BY <1>4 DEF Ping, Lists
<1> QED
  BY <1>1, <1>2, <1>3, <1>4

(* Stop clears the interval there is, and the page knows that it did.      *)
LEMMA Stopped ==
  ASSUME Inv, Stop
  PROVE  timerRef' = FALSE /\ intervals' = 0 /\ trafficActive' = FALSE
<1>1. timerRef \in BOOLEAN /\ trafficActive = timerRef
  BY DEF Inv, TypeOK, TimerKnown
<1>2. intervals = IF timerRef THEN 1 ELSE 0
  BY <1>1 DEF Inv, Generator
<1>3. timerRef' = FALSE /\ intervals' = 0
  BY <1>1, <1>2 DEF Stop
<1>4. trafficActive' = (trafficActive /\ ~timerRef)
  BY DEF Stop
<1> QED
  BY <1>1, <1>3, <1>4

LEMMA TypeStep ==
  ASSUME Inv, [Next]_vars
  PROVE  TypeOK'
<1> USE ServerApiAssumption, PanelAssumption
    DEF ServerApiAssumption, PanelAssumption, TypeOK, ApiTypeOK, Inv,
        traffic, scenario, configuration, api, Spend
<1>0. Sent \in AllPolls
  BY DEF AllPolls
<1>1. CASE Poll
  BY <1>0, <1>1 DEF Poll, fetchServers
<1>2. ASSUME NEW p \in polls, ListReturns(p)
      PROVE  TypeOK'
  <2>1. p.list \in Lists \cup {NoServers}
    BY DEF AllPolls, Sent, Lost, Answer
  <2>2. list' \in Lists \cup {NoServers} /\ effectDue' \in BOOLEAN
    BY <1>2, <2>1 DEF ListReturns
  <2> QED
    BY <1>2, <2>2 DEF ListReturns
<1>3. ASSUME NEW s \in Servers, toggleServer(s) \/ resetServer(s)
      PROVE  TypeOK'
  BY <1>3, CallTyped DEF toggleServer, resetServer, Click
<1>4. ASSUME NEW c \in calls, CardReturns(c) \/ DrillReturns(c) \/ LeftReturns(c)
      PROVE  TypeOK'
  BY <1>0, <1>4 DEF CardReturns, DrillReturns, LeftReturns, fetchServers, Complete
<1>5. ASSUME NEW c \in calls, SweepReturns(c)
      PROVE  TypeOK'
  <2>1. Leave(From("sweep") \ {c}) \subseteq AllCalls
    BY DEF Leave, From, AllCalls
  <2>2. calls' \subseteq AllCalls /\ polls' \subseteq AllPolls
        /\ busyScenario' \in Scenarios \cup {"none"}
    BY <1>0, <1>5, <2>1 DEF SweepReturns, Complete, fetchServers
  <2> QED
    BY <1>5, <2>2 DEF SweepReturns
<1>6. CASE (startTraffic \/ stopTraffic \/ restartTrafficTimer \/ Effect) /\ TrafficOnly
  <2>1. {trafficActive', timerRef', effectDue'} \subseteq BOOLEAN /\ intervals' \in 0..1
    <3> USE <1>6 DEF Generator, TimerKnown
    <3>1. CASE startTraffic
      BY <3>1 DEF startTraffic
    <3>2. CASE Stop /\ effectDue' \in BOOLEAN
      <4>1. timerRef' = FALSE /\ intervals' = 0 /\ trafficActive' = FALSE
        BY ONLY <3>2, Inv, Stopped
      <4>2. {trafficActive', timerRef', effectDue'} \subseteq BOOLEAN
        BY ONLY <3>2, <4>1, Zenon
      <4> QED
        BY <4>1, <4>2
    <3>3. CASE stopTraffic
      BY <3>2, <3>3 DEF stopTraffic
    <3>4. CASE restartTrafficTimer
      BY <3>2, <3>4 DEF restartTrafficTimer
    <3>5. CASE Effect
      BY <3>2, <3>5 DEF Effect
    <3> QED
      BY <3>1, <3>3, <3>4, <3>5
  <2> QED
    BY <1>6, <2>1 DEF TrafficOnly
<1>7. CASE runScenario
  <2>1. Online(list) => Call("toggle", FirstOnline(list), "drill") \in AllCalls
    BY ListFacts, FirstOnlineListed, CallTyped
  <2>2. list # NoServers => {Call("reset", s, "sweep") : s \in DOMAIN list} \subseteq AllCalls
    BY ListFacts, CallTyped
  <2>3. calls' \subseteq AllCalls /\ tests' \in 0..Burst
    BY <1>7, <2>1, <2>2 DEF runScenario, Begin
  <2>4. \A sc \in Scenarios : Begin(sc) =>
          /\ busyScenario' \in Scenarios /\ budget' \in 0..Budget
          /\ UNCHANGED <<enabled, list, polls, traffic, effectDue, configuration>>
    BY DEF Begin
  <2>5. \E sc \in Scenarios : Begin(sc)
    BY <1>7 DEF runScenario, Scenarios
  <2> QED
    BY <2>3, <2>4, <2>5
<1>8. CASE TestReturns
  BY <1>0, <1>8 DEF TestReturns, Complete, fetchServers
<1>9. CASE updateConfig
  <2>1. PICK next \in Configs : SendConfig(next, next)
    BY <1>9 DEF updateConfig, Configs
  <2>2. [n |-> budget, body |-> next, st |-> "sent"] \in AllPosts
    BY <2>1 DEF SendConfig, AllPosts
  <2> QED
    BY <2>1, <2>2 DEF SendConfig, ConfigOnly
<1>10. ASSUME NEW p \in posts, StoreConfig(p) \/ LosePost(p) \/ ConfigReturns(p)
       PROVE  TypeOK'
  <2>1. /\ p.body \in Configs
        /\ \A st \in {"sent", "half", "ok", "lost"} : [p EXCEPT !.st = st] \in AllPosts
    BY DEF AllPosts
  <2>2. config' \in Configs /\ posts' \subseteq AllPosts /\ alone' \in BOOLEAN
    BY <1>10, <2>1 DEF StoreConfig, LosePost, ConfigReturns, Configs
  <2>3. budget' \in 0..Budget /\ polls' \subseteq AllPolls /\ switches' = switches
    BY <1>0, <1>10 DEF StoreConfig, LosePost, ConfigReturns, fetchServers
  <2>4. ConfigOnly
    BY <1>10 DEF StoreConfig, LosePost, ConfigReturns
  <2> QED
    BY <2>2, <2>3, <2>4 DEF ConfigOnly
<1>11. CASE /\ PageUnchanged
            /\ \/ GetServers \/ LosePoll
               \/ \E c \in calls : Handle(c) \/ LoseCall(c)
               \/ \E s \in Servers : Ping(s)
  BY <1>11, ServerSideTypes DEF PageUnchanged
<1>12. CASE UNCHANGED vars
  BY <1>12 DEF vars
<1> QED
  BY <1>1, <1>2, <1>3, <1>4, <1>5, <1>6, <1>7, <1>8, <1>9, <1>10, <1>11, <1>12 DEF Next
-------------------------------------------------------------------------------
(* The traffic generator.                                                  *)
LEMMA GeneratorStep ==
  ASSUME Inv, [Next]_vars
  PROVE  Generator' /\ TimerKnown'
<1> USE DEF Generator, TimerKnown
<1>0. /\ trafficActive \in BOOLEAN /\ timerRef \in BOOLEAN /\ effectDue \in BOOLEAN
      /\ Generator /\ TimerKnown
  BY DEF Inv, TypeOK
<1>1. CASE UNCHANGED <<traffic, effectDue, list>>
  BY <1>0, <1>1 DEF traffic, Online
<1>2. ASSUME NEW p \in polls, ListReturns(p)
      PROVE  Generator' /\ TimerKnown'
  <2>1. UNCHANGED traffic /\ (~effectDue' => ~trafficActive \/ UNCHANGED <<list, effectDue>>)
    BY <1>0, <1>2 DEF ListReturns
  <2> QED
    BY <1>0, <2>1 DEF traffic, Online
<1>3. CASE (startTraffic \/ stopTraffic \/ restartTrafficTimer \/ Effect) /\ TrafficOnly
  <2>1. list' = list /\ Online(list)' = Online(list)
    BY <1>3 DEF TrafficOnly, api, Online
  <2>2. CASE startTraffic
    BY <1>0, <2>1, <2>2 DEF startTraffic
  <2>3. CASE Stop
    <3>1. timerRef' = FALSE /\ intervals' = 0 /\ trafficActive' = FALSE
      BY <2>3, Stopped
    <3> QED
      BY <3>1
  <2>4. CASE stopTraffic
    BY <2>3, <2>4 DEF stopTraffic
  <2>5. CASE restartTrafficTimer
    BY <1>0, <2>1, <2>3, <2>5 DEF restartTrafficTimer
  <2>6. CASE Effect
    BY <1>0, <2>1, <2>3, <2>6 DEF Effect, traffic
  <2> QED
    BY <1>3, <2>2, <2>4, <2>5, <2>6
<1>4. CASE Poll \/ runScenario \/ TestReturns \/ updateConfig \/ UNCHANGED vars
  BY <1>1, <1>4 DEF Poll, runScenario, Begin, TestReturns, updateConfig, SendConfig,
     ConfigOnly, api, vars
<1>5. ASSUME NEW s \in Servers, toggleServer(s) \/ resetServer(s)
      PROVE  Generator' /\ TimerKnown'
  BY <1>1, <1>5 DEF toggleServer, resetServer, Click
<1>6. ASSUME NEW c \in calls,
             CardReturns(c) \/ DrillReturns(c) \/ SweepReturns(c) \/ LeftReturns(c)
      PROVE  Generator' /\ TimerKnown'
  BY <1>1, <1>6 DEF CardReturns, DrillReturns, SweepReturns, LeftReturns
<1>7. ASSUME NEW p \in posts, StoreConfig(p) \/ LosePost(p) \/ ConfigReturns(p)
      PROVE  Generator' /\ TimerKnown'
  BY <1>1, <1>7 DEF StoreConfig, LosePost, ConfigReturns, ConfigOnly
<1>8. CASE PageUnchanged
  BY <1>1, <1>8 DEF PageUnchanged
<1> QED
  BY <1>2, <1>3, <1>4, <1>5, <1>6, <1>7, <1>8 DEF Next
-------------------------------------------------------------------------------
(* The scenarios.                                                          *)
LEMMA ScenarioUntouched ==
  ASSUME OneScenario, DrillAlone, UNCHANGED scenario,
         From("drill")' = From("drill"), From("sweep")' = From("sweep")
  PROVE  OneScenario' /\ DrillAlone'
BY DEF OneScenario, DrillAlone, scenario

LEMMA Settled ==
  ASSUME TypeOK, OneScenario, DrillAlone, UNCHANGED scenario,
         NEW c \in calls, NEW st \in {"ok", "lost"},
         calls' = (calls \ {c}) \cup {[c EXCEPT !.st = st]}
  PROVE  OneScenario' /\ DrillAlone'
<1>1. c \in AllCalls /\ [c EXCEPT !.st = st].by = c.by
  BY DEF TypeOK, ApiTypeOK, AllCalls
<1>2. \A by \in {"drill", "sweep"} : From(by)' = {} <=> From(by) = {}
  BY <1>1 DEF From
<1>3. DrillAlone'
  BY <1>1 DEF From, DrillAlone
<1> QED
  BY <1>2, <1>3 DEF OneScenario, scenario

LEMMA ScenarioStep ==
  ASSUME Inv, [Next]_vars
  PROVE  OneScenario' /\ DrillAlone'
<1> USE ServerApiAssumption, PanelAssumption
    DEF ServerApiAssumption, PanelAssumption, Inv, scenario
<1>0. tests \in Nat /\ calls \subseteq AllCalls /\ busyScenario \in Scenarios \cup {"none"}
  BY DEF TypeOK, ApiTypeOK
<1>1. CASE UNCHANGED <<calls, scenario>>
  BY <1>1, ScenarioUntouched DEF From
<1>2. CASE \/ Poll \/ updateConfig \/ UNCHANGED vars
           \/ (startTraffic \/ stopTraffic \/ restartTrafficTimer \/ Effect) /\ TrafficOnly
  BY <1>1, <1>2 DEF Poll, updateConfig, SendConfig, ConfigOnly, TrafficOnly, api, vars
<1>3. ASSUME NEW p \in polls, ListReturns(p)
      PROVE  OneScenario' /\ DrillAlone'
  BY <1>1, <1>3 DEF ListReturns
<1>4. ASSUME NEW s \in Servers, toggleServer(s) \/ resetServer(s)
      PROVE  OneScenario' /\ DrillAlone'
  <2>1. PICK c \in {Call("toggle", s, "card"), Call("reset", s, "card")} :
          calls' = calls \cup {c} /\ UNCHANGED scenario
    BY <1>4 DEF toggleServer, resetServer, Click
  <2>2. c.by = "card"
    BY <2>1 DEF Call
  <2> QED
    BY <2>1, <2>2, ScenarioUntouched DEF From
<1>5. ASSUME NEW c \in calls, CardReturns(c) \/ LeftReturns(c)
      PROVE  OneScenario' /\ DrillAlone'
  <2>1. From("drill")' = From("drill") /\ From("sweep")' = From("sweep")
    BY <1>5 DEF CardReturns, LeftReturns, From
  <2> QED
    BY <1>5, <2>1, ScenarioUntouched DEF CardReturns, LeftReturns
<1>6. ASSUME NEW c \in calls, DrillReturns(c)
      PROVE  OneScenario' /\ DrillAlone'
  <2>1. c \in From("drill") /\ From("drill")' = {} /\ From("sweep")' = From("sweep")
    BY <1>6 DEF DrillReturns, DrillAlone, From
  <2>2. busyScenario = "failure"
    BY <2>1 DEF OneScenario
  <2>3. busyScenario' = "none" /\ tests' = tests
    BY <1>6 DEF DrillReturns, Complete
  <2> QED
    BY <2>1, <2>2, <2>3 DEF OneScenario, DrillAlone
<1>7. ASSUME NEW c \in calls, SweepReturns(c)
      PROVE  OneScenario' /\ DrillAlone'
  <2>1. c \in From("sweep") /\ tests' = tests
    BY <1>7 DEF SweepReturns, From
  <2>2. busyScenario = "recovery" /\ From("drill") = {} /\ ~(tests > 0)
    BY <2>1 DEF OneScenario
  <2>3. CASE c.st = "lost"
    <3>1. \A d \in Leave(From("sweep") \ {c}) : d.by = "left"
      BY <1>0 DEF Leave, From, AllCalls
    <3>2. /\ calls' = (calls \ From("sweep")) \cup Leave(From("sweep") \ {c})
          /\ busyScenario' = "none"
      BY <1>7, <2>3 DEF SweepReturns
    <3>3. From("drill")' = {} /\ From("sweep")' = {}
      BY <2>2, <3>1, <3>2 DEF From
    <3> QED
      BY <2>1, <2>2, <3>2, <3>3 DEF OneScenario, DrillAlone
  <2>4. CASE c.st = "ok"
    <3>1. From("drill")' = {} /\ From("sweep")' = From("sweep") \ {c}
      BY <1>7, <2>2, <2>4 DEF SweepReturns, From
    <3>2. IF From("sweep") = {c} THEN busyScenario' = "none" ELSE busyScenario' = busyScenario
      BY <1>7, <2>4 DEF SweepReturns, Complete
    <3> QED
      BY <2>1, <2>2, <3>1, <3>2 DEF OneScenario, DrillAlone
  <2> QED
    BY <1>7, <2>3, <2>4 DEF SweepReturns
<1>8. CASE runScenario
  <2>1. ASSUME NEW sc, Begin(sc)
        PROVE  /\ busyScenario' = sc
               /\ From("drill") = {} /\ From("sweep") = {} /\ ~(tests > 0)
    BY <2>1 DEF Begin, OneScenario
  <2>2. CASE /\ Begin("failure")
             /\ calls' = calls \cup {Call("toggle", FirstOnline(list), "drill")}
             /\ UNCHANGED tests
    <3>1. Call("toggle", FirstOnline(list), "drill").by = "drill"
      BY DEF Call
    <3>2. /\ From("drill")' = {Call("toggle", FirstOnline(list), "drill")}
          /\ From("sweep")' = {}
      BY <2>1, <2>2, <3>1 DEF From
    <3> QED
      BY <2>1, <2>2, <3>2 DEF OneScenario, DrillAlone
  <2>3. CASE (Begin("heavy") \/ Begin("priority")) /\ tests' = Burst /\ UNCHANGED calls
    <3>1. From("drill")' = {} /\ From("sweep")' = {} /\ tests' > 0
      BY <2>1, <2>3 DEF From
    <3> QED
      BY <2>1, <2>3, <3>1 DEF OneScenario, DrillAlone
  <2>4. CASE /\ Begin("recovery")
             /\ calls' = calls \cup {Call("reset", s, "sweep") : s \in DOMAIN list}
             /\ UNCHANGED tests
    <3> DEFINE new == {Call("reset", s, "sweep") : s \in DOMAIN list}
    <3>1. 1 \in DOMAIN list
      BY <2>4, ListFacts DEF Begin, TypeOK, ApiTypeOK
    <3>2. new # {} /\ \A c \in new : c.by = "sweep"
      <4>1. \A s : Call("reset", s, "sweep").by = "sweep"
        BY DEF Call
      <4>2. Call("reset", 1, "sweep") \in new
        BY <3>1
      <4> QED
        BY <4>1, <4>2
    <3>3. calls' = calls \cup new
      BY <2>4
    <3> HIDE DEF new
    <3>4. From("drill")' = {} /\ From("sweep")' # {}
      BY <2>1, <2>4, <3>2, <3>3 DEF From
    <3> QED
      BY <2>1, <2>4, <3>4 DEF OneScenario, DrillAlone
  <2> QED
    BY <1>8, <2>2, <2>3, <2>4 DEF runScenario
<1>9. CASE TestReturns
  <2>1. calls' = calls /\ tests > 0 /\ tests' = tests - 1
    BY <1>9 DEF TestReturns
  <2>2. /\ busyScenario \in {"heavy", "priority"}
        /\ From("drill") = {} /\ From("sweep") = {}
    BY <2>1 DEF OneScenario
  <2>3. busyScenario' = IF tests = 1 THEN "none" ELSE busyScenario
    BY <1>9 DEF TestReturns, Complete
  <2>4. tests' > 0 <=> tests # 1
    BY <1>0, <2>1
  <2>5. From("drill")' = {} /\ From("sweep")' = {}
    BY <2>1, <2>2 DEF From
  <2> QED
    BY <2>2, <2>3, <2>4, <2>5 DEF OneScenario, DrillAlone
<1>10. ASSUME NEW p \in posts, StoreConfig(p) \/ LosePost(p) \/ ConfigReturns(p)
       PROVE  OneScenario' /\ DrillAlone'
  BY <1>1, <1>10 DEF StoreConfig, LosePost, ConfigReturns, ConfigOnly
<1>11. ASSUME PageUnchanged, NEW c \in calls, Handle(c) \/ LoseCall(c)
       PROVE  OneScenario' /\ DrillAlone'
  BY <1>11, Settled DEF PageUnchanged, Handle, LoseCall
<1>12. CASE PageUnchanged /\ (GetServers \/ LosePoll \/ \E s \in Servers : Ping(s))
  <2>1. UNCHANGED scenario
    BY <1>12 DEF PageUnchanged
  <2>2. CASE calls' = calls
    BY <1>1, <2>1, <2>2
  <2> QED
    BY <1>12, <2>2 DEF GetServers, LosePoll, Ping
<1> QED
  BY <1>2, <1>3, <1>4, <1>5, <1>6, <1>7, <1>8, <1>9, <1>10, <1>11, <1>12 DEF Next
-------------------------------------------------------------------------------
(* The configuration.                                                      *)
LEMMA FollowingStep ==
  ASSUME Inv, [Next]_vars
  PROVE  Following'
<1> USE DEF Inv
<1>1. CASE UNCHANGED configuration
  BY <1>1 DEF Following, configuration
<1>2. CASE updateConfig
  <2>1. PICK next : SendConfig(next, next)
    BY <1>2 DEF updateConfig
  <2> DEFINE new == [n |-> budget, body |-> next, st |-> "sent"]
  <2>2. new.body = next /\ new.st = "sent"
    OBVIOUS
  <2>3. switches' = next /\ alone' = (posts = {}) /\ posts' = posts \cup {new}
    BY <2>1 DEF SendConfig
  <2> HIDE DEF new
  <2> QED
    BY <2>2, <2>3 DEF Following
<1>3. ASSUME NEW p \in posts, StoreConfig(p)
      PROVE  Following'
  <2>1. CASE ~alone
    BY <1>3, <2>1 DEF StoreConfig, Following
  <2>2. CASE alone
    <3>1. /\ p \in AllPosts /\ p.body = switches /\ posts = {p}
          /\ config \in Configs /\ switches \in Configs
          /\ p.st \in {"half", "ok"} => config.ipHash = switches.ipHash
      BY <2>2 DEF Following, TypeOK
    <3>2. UNCHANGED <<switches, alone>>
      BY <1>3 DEF StoreConfig
    <3>3. CASE /\ p.st = "sent"
               /\ config' = [config EXCEPT !.ipHash = p.body.ipHash]
               /\ posts' = (posts \ {p}) \cup {[p EXCEPT !.st = "half"]}
      <4>1. posts' = {[p EXCEPT !.st = "half"]} /\ config'.ipHash = switches.ipHash
        BY <3>1, <3>3 DEF Configs
      <4>2. [p EXCEPT !.st = "half"].body = switches /\ [p EXCEPT !.st = "half"].st = "half"
        BY <3>1 DEF AllPosts
      <4> QED
        BY <3>2, <4>1, <4>2 DEF Following
    <3>4. CASE /\ p.st = "half"
               /\ config' = [config EXCEPT !.sticky = p.body.sticky]
               /\ posts' = (posts \ {p}) \cup {[p EXCEPT !.st = "ok"]}
      <4>1. /\ posts' = {[p EXCEPT !.st = "ok"]}
            /\ config'.ipHash = switches.ipHash /\ config'.sticky = switches.sticky
        BY <3>1, <3>4 DEF Configs
      <4>2. [p EXCEPT !.st = "ok"].body = switches /\ [p EXCEPT !.st = "ok"].st = "ok"
        BY <3>1 DEF AllPosts
      <4> QED
        BY <3>2, <4>1, <4>2 DEF Following
    <3> QED
      BY <1>3, <3>3, <3>4 DEF StoreConfig
  <2> QED
    BY <2>1, <2>2
<1>4. ASSUME NEW p \in posts, LosePost(p)
      PROVE  Following'
  BY <1>4 DEF LosePost, Following
<1>5. ASSUME NEW p \in posts, ConfigReturns(p)
      PROVE  Following'
  <2>1. UNCHANGED <<switches, config, alone>> /\ posts' = posts \ {p}
    BY <1>5 DEF ConfigReturns
  <2>2. CASE ~alone
    BY <2>1, <2>2 DEF Following
  <2>3. CASE alone
    <3>1. posts' = {} /\ p.st = "ok"
      BY <1>5, <2>1, <2>3 DEF Following, ConfigReturns
    <3>2. config.ipHash = switches.ipHash /\ config.sticky = switches.sticky
      BY <2>3, <3>1 DEF Following
    <3>3. config = switches
      BY <3>2 DEF TypeOK, Configs
    <3> QED
      BY <2>1, <3>1, <3>3 DEF Following
  <2> QED
    BY <2>2, <2>3
<1>6. ASSUME NEW p \in polls, ListReturns(p)
      PROVE  Following'
  BY <1>1, <1>6 DEF ListReturns
<1>7. ASSUME NEW s \in Servers, toggleServer(s) \/ resetServer(s)
      PROVE  Following'
  BY <1>1, <1>7 DEF toggleServer, resetServer, Click
<1>8. ASSUME NEW c \in calls,
             CardReturns(c) \/ DrillReturns(c) \/ SweepReturns(c) \/ LeftReturns(c)
      PROVE  Following'
  BY <1>1, <1>8 DEF CardReturns, DrillReturns, SweepReturns, LeftReturns
<1>9. CASE \/ Poll \/ runScenario \/ TestReturns \/ PageUnchanged \/ UNCHANGED vars
           \/ (startTraffic \/ stopTraffic \/ restartTrafficTimer \/ Effect) /\ TrafficOnly
  BY <1>1, <1>9 DEF Poll, runScenario, Begin, TestReturns, PageUnchanged, TrafficOnly, vars
<1> QED
  BY <1>2, <1>3, <1>4, <1>5, <1>6, <1>7, <1>8, <1>9 DEF Next
-------------------------------------------------------------------------------
LEMMA Invariance == Spec => []Inv
<1>1. Inv /\ [Next]_vars => Inv'
  BY TypeStep, GeneratorStep, ScenarioStep, FollowingStep DEF Inv
<1> QED
  BY InitInv, <1>1, PTL DEF Spec

(* The state of the page and of the server stays well typed: a scenario    *)
(* never calls for a server that the balancer does not have.               *)
THEOREM TypeCorrect == Spec => []TypeOK
BY Invariance, PTL DEF Inv

(* The page knows of every interval it has set (startTraffic, stopTraffic, *)
(* restartTrafficTimer), and once its effects have run one is there only   *)
(* while a listed server is online.                                        *)
THEOREM GeneratorKnown == Spec => []Generator
BY Invariance, PTL DEF Inv

(* The busy mark of the page is that of a scenario with something in       *)
(* flight (runScenario), whichever of its calls fail.                      *)
THEOREM OneScenarioAtATime == Spec => []OneScenario
BY Invariance, PTL DEF Inv

(* A change of the configuration that no other overlapped and no fault     *)
(* hit leaves the switches as the balancer is configured (updateConfig).   *)
THEOREM SwitchesInSync == Spec => []ConfigInSync
<1>1. Inv => ConfigInSync
  BY DEF Inv, Following, ConfigInSync
<1> QED
  BY Invariance, <1>1, PTL

===============================================================================
