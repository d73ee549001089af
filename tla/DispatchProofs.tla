---------------------------- MODULE DispatchProofs ----------------------------
(***************************************************************************)
(* Theorems about Dispatch, for any finite set of requests and servers and *)
(* any thresholds.  The invariants lean on each other (the type of trials  *)
(* on the breaker's counters, the busy cap on the accounting), so they are *)
(* proved together, as Inv.                                                *)
(***************************************************************************)
EXTENDS Dispatch, FiniteSetTheorems, TLAPS

Inv ==
  /\ TypeOK
  /\ Accounting
  /\ BusyCap
  /\ AttemptsDistinct
  /\ BreakerCounters
-------------------------------------------------------------------------------
(* Sets of requests and of servers are finite, so they can be counted.     *)
LEMMA SubsetsCounted ==
  ASSUME NEW S, IsFiniteSet(S), NEW T \in SUBSET S
  PROVE  IsFiniteSet(T) /\ Cardinality(T) \in Nat
BY FS_Subset, FS_CardinalityType

(* Both counts of a server are natural numbers.                            *)
LEMMA RequestsCounted ==
  ASSUME NEW s
  PROVE  /\ IsFiniteSet(InFlight(s)) /\ Cardinality(InFlight(s)) \in Nat
         /\ IsFiniteSet(Forwarding(s)) /\ Cardinality(Forwarding(s)) \in Nat
         /\ Cardinality(Forwarding(s)) <= Cardinality(InFlight(s))
<1>1. InFlight(s) \in SUBSET Requests /\ Forwarding(s) \in SUBSET InFlight(s)
  BY DEF InFlight, Forwarding, Counted
<1>2. IsFiniteSet(InFlight(s))
  BY <1>1, SubsetsCounted, DispatchAssumption DEF DispatchAssumption
<1> QED
  BY <1>1, <1>2, FS_Subset, FS_CardinalityType
-------------------------------------------------------------------------------
(* The initial states.                                                     *)
LEMMA InitInv == Init => Inv
<1> SUFFICES ASSUME Init PROVE Inv
  OBVIOUS
<1> USE DispatchAssumption DEF DispatchAssumption
<1>1. TypeOK
  BY DEF Init, TypeOK, BalancerInit, BalancerTypeOK, Configure, CBState, HandlerPc,
         Engaged, Counted
<1>2. ASSUME NEW s \in Servers
      PROVE  Cardinality(InFlight(s)) = 0 /\ Cardinality(Forwarding(s)) = 0
  <2>1. InFlight(s) = {} /\ Forwarding(s) = {}
    BY <1>2 DEF Init, InFlight, Forwarding, Counted
  <2> QED
    BY <2>1, FS_EmptySet
<1>3. Accounting /\ BusyCap
  BY <1>2 DEF Init, Accounting, BusyCap
<1>4. AttemptsDistinct
  BY FS_EmptySet DEF Init, AttemptsDistinct
<1>5. BreakerCounters
  <2> SUFFICES ASSUME NEW s \in Servers
               PROVE  /\ breaker[s] = "closed"
                      /\ failures[s] < FailureThreshold
                      /\ trials[s] = 0
    BY DEF BreakerCounters
  <2> QED
    BY DEF Init, BalancerInit
<1> QED
  BY <1>1, <1>3, <1>4, <1>5 DEF Inv
-------------------------------------------------------------------------------
(* Types.                                                                  *)
LEMMA TypeStep ==
  ASSUME TypeOK, BreakerCounters, [Next]_vars
  PROVE  TypeOK'
<1> USE DispatchAssumption DEF DispatchAssumption, TypeOK, BalancerTypeOK, CBState,
        HandlerPc, Engaged, Counted, Answered, At, Goto, Leave,
        serverVars, configVars, handlerVars, opVars
<1>1. ASSUME NEW r \in Requests, NEW s \in Servers, Pick(r, s)
      PROVE  TypeOK'
  BY <1>1 DEF Pick, PickServer, Sticky
<1>2. ASSUME NEW r \in Requests, RecordFailure(r)
      PROVE  TypeOK'
  BY <1>2 DEF RecordFailure
<1>3. ASSUME NEW r \in Requests, RecordSuccess(r)
      PROVE  TypeOK'
  BY <1>3 DEF RecordSuccess, BreakerCounters
<1>4. ASSUME NEW r \in Requests,
             Arrive(r) \/ RejectBody(r) \/ Refuse(r) \/ BeginRequest(r) \/ Reroute(r)
               \/ BackendFails(r) \/ Complete(r) \/ ClientAborts(r)
      PROVE  TypeOK'
  <2>1. CASE Arrive(r) \/ RejectBody(r) \/ Refuse(r)
    BY <2>1 DEF Arrive, RejectBody, Refuse
  <2>2. CASE BeginRequest(r)
    BY <2>2 DEF BeginRequest
  <2>3. CASE Reroute(r) \/ BackendFails(r) \/ Complete(r)
    BY <2>3 DEF Reroute, BackendFails, Complete, EndRequest
  <2>4. CASE ClientAborts(r)
    BY <2>4 DEF ClientAborts
  <2> QED
    BY <1>4, <2>1, <2>2, <2>3, <2>4
<1>5. ASSUME NEW o \in Operators, NEW s \in Servers,
             toggleServer(o, s) \/ resetServer(o, s)
      PROVE  TypeOK'
  <2>1. CASE Enable(o, s)
    BY <2>1 DEF Enable, ClearBreaker
  <2>2. CASE Disable(o, s)
    BY <2>2 DEF Disable, StartDrain, ClearBreaker
  <2>3. CASE resetServer(o, s)
    BY <2>3 DEF resetServer, StartDrain, ClearBreaker
  <2> QED
    BY <1>5, <2>1, <2>2, <2>3 DEF toggleServer
<1>6. ASSUME NEW o \in Operators, DrainStep(o)
      PROVE  TypeOK'
  BY <1>6 DEF DrainStep, DrainTest, DrainEnd
<1>7. CASE updateConfig
  BY <1>7 DEF updateConfig
<1>8. ASSUME NEW s \in Servers, MonitorServers(s) \/ checkServers(s)
      PROVE  TypeOK'
  BY <1>8 DEF MonitorServers, checkServers
<1>9. CASE UNCHANGED vars
  BY <1>9 DEF vars
<1> QED
  BY <1>1, <1>2, <1>3, <1>4, <1>5, <1>6, <1>7, <1>8, <1>9 DEF Next, HandlerStep

-------------------------------------------------------------------------------
(* The breaker's counters: only four kinds of step write them.             *)
LEMMA BreakerStep ==
  ASSUME TypeOK, BreakerCounters, [Next]_vars
  PROVE  BreakerCounters'
<1> USE DispatchAssumption DEF DispatchAssumption, TypeOK, BalancerTypeOK, CBState,
        BreakerCounters
<1>1. CASE UNCHANGED <<breaker, failures, trials>>
  BY <1>1
<1>2. ASSUME NEW r \in Requests, RecordFailure(r)
      PROVE  BreakerCounters'
  BY <1>2 DEF RecordFailure, Engaged, At
<1>3. ASSUME NEW r \in Requests, RecordSuccess(r)
      PROVE  BreakerCounters'
  BY <1>3 DEF RecordSuccess, Engaged, Counted, At
<1>4. ASSUME NEW s \in Servers, NEW state \in {"closed", "open"}, ClearBreaker(s, state)
      PROVE  BreakerCounters'
  BY <1>4 DEF ClearBreaker
<1>5. ASSUME NEW s \in Servers, MonitorServers(s)
      PROVE  BreakerCounters'
  BY <1>5 DEF MonitorServers
<1>6. ASSUME NEW r \in Requests,
             \/ Arrive(r) \/ RejectBody(r) \/ ClientAborts(r)
             \/ \E s \in Servers : Pick(r, s)
             \/ Refuse(r) \/ BeginRequest(r) \/ Reroute(r) \/ BackendFails(r) \/ Complete(r)
      PROVE  UNCHANGED <<breaker, failures, trials>>
  BY <1>6 DEF Arrive, RejectBody, ClientAborts, Pick, PickServer, Refuse, BeginRequest,
              Reroute, BackendFails, Complete, serverVars
<1>7. ASSUME NEW o \in Operators, NEW s \in Servers,
             toggleServer(o, s) \/ resetServer(o, s)
      PROVE  ClearBreaker(s, "closed") \/ ClearBreaker(s, "open")
  BY <1>7 DEF toggleServer, Enable, Disable, resetServer
<1>8. ASSUME \/ \E o \in Operators : DrainStep(o)
             \/ updateConfig
             \/ \E s \in Servers : checkServers(s)
             \/ UNCHANGED vars
      PROVE  UNCHANGED <<breaker, failures, trials>>
  BY <1>8 DEF DrainStep, DrainTest, DrainEnd, updateConfig, checkServers, serverVars, vars
<1> QED
  BY <1>1, <1>2, <1>3, <1>4, <1>5, <1>6, <1>7, <1>8 DEF Next, HandlerStep

-------------------------------------------------------------------------------
(* The retry loop: only Pick counts an attempt, and it never returns a     *)
(* server that exclude rules out.                                          *)
LEMMA PicksExclude ==
  ASSUME NEW session, NEW home, NEW exclude
  PROVE  Picks(session, home, exclude) \subseteq Servers \ exclude
BY DEF Picks, StickyChoice, HashChoice, Candidates

(* Every step keeps the loop counter equal to the number of tried servers. *)
LEMMA AttemptsStep ==
  ASSUME TypeOK, AttemptsDistinct, [Next]_vars
  PROVE  AttemptsDistinct'
<1>1. CASE UNCHANGED <<attempt, attempted>>
  BY <1>1 DEF AttemptsDistinct
<1>2. ASSUME NEW r \in Requests, NEW s \in Servers, Pick(r, s)
      PROVE  AttemptsDistinct'
  <2>1. s \notin attempted[r]
    BY <1>2, PicksExclude DEF Pick, PickServer
  <2>2. Cardinality(attempted[r] \cup {s}) = Cardinality(attempted[r]) + 1
    <3>1. IsFiniteSet(attempted[r])
      BY SubsetsCounted, DispatchAssumption DEF DispatchAssumption, TypeOK
    <3> QED
      BY <2>1, <3>1, FS_AddElement
  <2>3. \A q \in Requests :
           /\ attempt'[q] = IF q = r THEN attempt[r] + 1 ELSE attempt[q]
           /\ attempted'[q] = IF q = r THEN attempted[r] \cup {s} ELSE attempted[q]
    BY <1>2 DEF Pick, TypeOK
  <2> QED
    BY <2>2, <2>3 DEF AttemptsDistinct
<1>3. ASSUME NEW r \in Requests,
             \/ Arrive(r) \/ RejectBody(r) \/ ClientAborts(r)
             \/ Refuse(r) \/ BeginRequest(r) \/ Reroute(r) \/ BackendFails(r)
             \/ RecordFailure(r) \/ RecordSuccess(r) \/ Complete(r)
      PROVE  UNCHANGED <<attempt, attempted>>
  BY <1>3 DEF Arrive, RejectBody, ClientAborts, Refuse, BeginRequest, Reroute,
              BackendFails, RecordFailure, RecordSuccess, Complete, handlerVars
<1>4. ASSUME \/ \E o \in Operators, s \in Servers :
                   toggleServer(o, s) \/ resetServer(o, s)
             \/ \E o \in Operators : DrainStep(o)
             \/ updateConfig
             \/ \E s \in Servers : MonitorServers(s) \/ checkServers(s)
             \/ UNCHANGED vars
      PROVE  UNCHANGED <<attempt, attempted>>
  BY <1>4 DEF toggleServer, Enable, Disable, resetServer, DrainStep, DrainTest,
              DrainEnd, updateConfig, MonitorServers, checkServers, handlerVars, vars
<1> QED
  BY <1>1, <1>2, <1>3, <1>4 DEF Next, HandlerStep

-------------------------------------------------------------------------------
(* Accounting.  A step of handler r either begins, ends or keeps the       *)
(* request's place in the count of its server.                             *)
LEMMA Begins ==
  ASSUME TypeOK, NEW r \in Requests, BeginRequest(r)
  PROVE  /\ target[r] \in Servers
         /\ active' = [active EXCEPT ![target[r]] = @ + 1]
         /\ UNCHANGED drained
         /\ \A s \in Servers : InFlight(s)' =
               IF s = target[r] THEN InFlight(s) \cup {r} ELSE InFlight(s)
         /\ r \notin InFlight(target[r])
BY DEF BeginRequest, At, Goto, InFlight, TypeOK, Engaged, Counted

(* A handler that calls EndRequest leaves the count of its server.         *)
LEMMA Ends ==
  ASSUME TypeOK, NEW r \in Requests, Reroute(r) \/ BackendFails(r) \/ Complete(r)
  PROVE  /\ target[r] \in Servers
         /\ active' = [active EXCEPT ![target[r]] = @ - 1]
         /\ UNCHANGED drained
         /\ \A s \in Servers :
               /\ InFlight(s)' = IF s = target[r] THEN InFlight(s) \ {r} ELSE InFlight(s)
               /\ Forwarding(s)' \subseteq Forwarding(s)
         /\ r \in InFlight(target[r])
<1> USE DispatchAssumption DEF DispatchAssumption, At, Goto, InFlight, Forwarding, TypeOK,
        Engaged, Counted, EndRequest
<1>1. CASE Reroute(r)
  BY <1>1 DEF Reroute, Leave
<1>2. CASE BackendFails(r)
  BY <1>2 DEF BackendFails
<1>3. CASE Complete(r)
  BY <1>3 DEF Complete, Leave
<1> QED
  BY <1>1, <1>2, <1>3

(* Every other step but DrainEnd leaves the counts alone.                  *)
LEMMA Keeps ==
  ASSUME TypeOK, [Next]_vars,
         ~\E r \in Requests : BeginRequest(r) \/ Reroute(r) \/ BackendFails(r) \/ Complete(r),
         ~\E o \in Operators : DrainEnd(o)
  PROVE  /\ UNCHANGED <<active, drained>>
         /\ \A s \in Servers :
               InFlight(s)' = InFlight(s) /\ Forwarding(s)' \subseteq Forwarding(s)
<1> USE DispatchAssumption DEF DispatchAssumption, InFlight, Forwarding, Counted
<1> DEFINE Kept == /\ UNCHANGED <<active, drained>>
                   /\ \A s \in Servers : /\ InFlight(s)' = InFlight(s)
                                         /\ Forwarding(s)' \subseteq Forwarding(s)
<1>1. ASSUME NEW r \in Requests, Arrive(r) \/ RejectBody(r) \/ Refuse(r) \/ RecordFailure(r)
      PROVE  Kept
  BY <1>1 DEF Arrive, RejectBody, Refuse, RecordFailure, At, Goto, Leave, TypeOK
<1>2. ASSUME NEW r \in Requests, NEW s \in Servers, Pick(r, s)
      PROVE  Kept
  BY <1>2 DEF Pick, At, Goto, TypeOK
<1>3. ASSUME NEW r \in Requests, RecordSuccess(r)
      PROVE  Kept
  BY <1>3 DEF RecordSuccess, At, Goto, TypeOK
<1>4. ASSUME \/ \E r \in Requests : ClientAborts(r)
             \/ \E o \in Operators, s \in Servers :
                   toggleServer(o, s) \/ resetServer(o, s)
             \/ \E o \in Operators : DrainTest(o)
             \/ updateConfig
             \/ \E s \in Servers : MonitorServers(s) \/ checkServers(s)
             \/ UNCHANGED vars
      PROVE  Kept
  <2>1. UNCHANGED <<active, drained, pc, target>>
    BY <1>4 DEF ClientAborts, toggleServer, Enable, Disable, resetServer, DrainTest,
                updateConfig, MonitorServers, checkServers, handlerVars, vars
  <2> QED
    BY <2>1
<1> QED
  BY <1>1, <1>2, <1>3, <1>4 DEF Next, HandlerStep, DrainStep

(* Every step keeps the counter, the count and the drained units in balance. *)
LEMMA AccountingStep ==
  ASSUME TypeOK, Accounting, [Next]_vars
  PROVE  Accounting'
<1>1. ASSUME NEW r \in Requests, BeginRequest(r)
      PROVE  Accounting'
  <2>1. Cardinality(InFlight(target[r]) \cup {r}) = Cardinality(InFlight(target[r])) + 1
    BY <1>1, Begins, RequestsCounted, FS_AddElement
  <2> SUFFICES ASSUME NEW s \in Servers
               PROVE  active'[s] = Cardinality(InFlight(s)') - drained'[s]
    BY DEF Accounting
  <2>2. active[s] = Cardinality(InFlight(s)) - drained[s] /\ drained' = drained
    BY <1>1, Begins DEF Accounting
  <2>3. active[s] \in Int /\ drained[s] \in Int /\ Cardinality(InFlight(s)) \in Int
    BY RequestsCounted DEF TypeOK
  <2>4. CASE s = target[r]
    <3>1. active'[s] = active[s] + 1
      BY <1>1, <2>4, Begins DEF TypeOK
    <3>2. InFlight(s)' = InFlight(target[r]) \cup {r}
      BY <1>1, <2>4, Begins
    <3>3. Cardinality(InFlight(s)') = Cardinality(InFlight(s)) + 1
      BY <2>1, <2>4, <3>2
    <3> QED
      BY <2>2, <2>3, <3>1, <3>3
  <2>5. CASE s # target[r]
    <3>1. active'[s] = active[s] /\ InFlight(s)' = InFlight(s)
      BY <1>1, <2>5, Begins DEF TypeOK
    <3> QED
      BY <2>2, <2>3, <3>1
  <2> QED
    BY <2>4, <2>5
<1>2. ASSUME NEW r \in Requests, Reroute(r) \/ BackendFails(r) \/ Complete(r)
      PROVE  Accounting'
  <2>1. Cardinality(InFlight(target[r]) \ {r}) = Cardinality(InFlight(target[r])) - 1
    BY <1>2, Ends, RequestsCounted, FS_RemoveElement
  <2> SUFFICES ASSUME NEW s \in Servers
               PROVE  active'[s] = Cardinality(InFlight(s)') - drained'[s]
    BY DEF Accounting
  <2>2. active[s] = Cardinality(InFlight(s)) - drained[s] /\ drained' = drained
    BY <1>2, Ends DEF Accounting
  <2>3. active[s] \in Int /\ drained[s] \in Int /\ Cardinality(InFlight(s)) \in Int
    BY RequestsCounted DEF TypeOK
  <2>4. CASE s = target[r]
    <3>1. active'[s] = active[s] - 1
      BY <1>2, <2>4, Ends DEF TypeOK
    <3>2. InFlight(s)' = InFlight(target[r]) \ {r}
      BY <1>2, <2>4, Ends
    <3>3. Cardinality(InFlight(s)') = Cardinality(InFlight(s)) - 1
      BY <2>1, <2>4, <3>2
    <3> QED
      BY <2>2, <2>3, <3>1, <3>3
  <2>5. CASE s # target[r]
    <3>1. active'[s] = active[s] /\ InFlight(s)' = InFlight(s)
      BY <1>2, <2>5, Ends DEF TypeOK
    <3> QED
      BY <2>2, <2>3, <3>1
  <2> QED
    BY <2>4, <2>5
<1>3. ASSUME NEW o \in Operators, DrainEnd(o)
      PROVE  Accounting'
  <2>1. \A s \in Servers : InFlight(s)' = InFlight(s)
    BY <1>3 DEF DrainEnd, handlerVars, InFlight
  <2> QED
    BY <1>3, <2>1, RequestsCounted DEF DrainEnd, Accounting, TypeOK
<1> QED
  BY <1>1, <1>2, <1>3, Keeps DEF Accounting

-------------------------------------------------------------------------------
(* The busy cap.  BeginRequest compares the incremented counter, and by    *)
(* Accounting that is the requests in flight less the drained units.       *)
LEMMA FewerForwarding ==
  ASSUME NEW s \in Servers, NEW bound \in Int, Forwarding(s)' \subseteq Forwarding(s),
         Cardinality(Forwarding(s)) <= bound
  PROVE  Cardinality(Forwarding(s)') <= bound
<1>1. /\ Cardinality(Forwarding(s)') \in Nat
      /\ Cardinality(Forwarding(s)') <= Cardinality(Forwarding(s))
  BY RequestsCounted, FS_Subset, FS_CardinalityType
<1> QED
  BY <1>1, RequestsCounted

(* Every step keeps the busy cap.                                          *)
LEMMA BusyStep ==
  ASSUME TypeOK, Accounting, BusyCap, [Next]_vars
  PROVE  BusyCap'
<1> USE DispatchAssumption DEF DispatchAssumption
<1>1. ASSUME NEW r \in Requests, BeginRequest(r)
      PROVE  BusyCap'
  <2>1. PICK s \in Servers : s = target[r]
    BY <1>1, Begins
  <2>2. \A q \in Servers : q # s \/ ~(active[s] + 1 <= BusyThreshold)
                             => Forwarding(q)' \subseteq Forwarding(q)
    BY <1>1, <2>1 DEF BeginRequest, At, Goto, Forwarding, TypeOK
  <2>3. ASSUME active[s] + 1 <= BusyThreshold
        PROVE  Cardinality(Forwarding(s)') <= BusyThreshold + drained[s]
    <3>1. Forwarding(s)' \subseteq InFlight(s) \cup {r}
      BY <1>1, <2>1 DEF BeginRequest, At, Goto, Forwarding, InFlight, Counted, TypeOK
    <3>2. /\ IsFiniteSet(InFlight(s) \cup {r})
          /\ Cardinality(InFlight(s) \cup {r}) <= Cardinality(InFlight(s)) + 1
      <4>1. IsFiniteSet(InFlight(s)) /\ Cardinality(InFlight(s)) \in Nat
        BY RequestsCounted
      <4>2. /\ IsFiniteSet(InFlight(s) \cup {r})
            /\ \/ Cardinality(InFlight(s) \cup {r}) = Cardinality(InFlight(s))
               \/ Cardinality(InFlight(s) \cup {r}) = Cardinality(InFlight(s)) + 1
        BY <4>1, FS_AddElement
      <4> QED
        BY <4>1, <4>2
    <3>3. Cardinality(Forwarding(s)') <= Cardinality(InFlight(s)) + 1
      BY <3>1, <3>2, FS_Subset, FS_CardinalityType, RequestsCounted
    <3>4. active[s] = Cardinality(InFlight(s)) - drained[s]
      BY <2>1 DEF Accounting
    <3>5. active[s] \in Int /\ drained[s] \in Int /\ Cardinality(InFlight(s)) \in Int
          /\ Cardinality(Forwarding(s)') \in Int
      <4>1. IsFiniteSet(Forwarding(s)')
        BY <3>1, <3>2, FS_Subset
      <4> QED
        BY <2>1, <4>1, RequestsCounted, FS_CardinalityType DEF TypeOK
    <3> QED
      BY <2>3, <3>3, <3>4, <3>5
  <2>4. drained' = drained
    BY <1>1, Begins
  <2> SUFFICES ASSUME NEW q \in Servers
               PROVE  Cardinality(Forwarding(q)') <= BusyThreshold + drained[q]
    BY <2>4 DEF BusyCap
  <2>5. CASE q = s /\ active[s] + 1 <= BusyThreshold
    BY <2>3, <2>5
  <2>6. CASE ~(q = s /\ active[s] + 1 <= BusyThreshold)
    BY <2>2, <2>6, FewerForwarding DEF BusyCap, TypeOK
  <2> QED
    BY <2>5, <2>6
<1>2. ASSUME \A s \in Servers : /\ Forwarding(s)' \subseteq Forwarding(s)
                                /\ drained[s] <= drained'[s] /\ drained'[s] \in Nat
      PROVE  BusyCap'
  <2> SUFFICES ASSUME NEW s \in Servers
               PROVE  Cardinality(Forwarding(s)') <= BusyThreshold + drained'[s]
    BY DEF BusyCap
  <2>1. Cardinality(Forwarding(s)') <= BusyThreshold + drained[s]
    BY <1>2, FewerForwarding DEF BusyCap, TypeOK
  <2>2. Cardinality(Forwarding(s)') \in Nat
    BY <1>2, RequestsCounted, FS_Subset, FS_CardinalityType
  <2> QED
    BY <1>2, <2>1, <2>2 DEF TypeOK
<1>3. ASSUME NEW o \in Operators, DrainEnd(o)
      PROVE  \A s \in Servers : /\ Forwarding(s)' \subseteq Forwarding(s)
                                /\ drained[s] <= drained'[s] /\ drained'[s] \in Nat
  BY <1>3 DEF DrainEnd, handlerVars, Forwarding, TypeOK
<1>4. ASSUME NEW r \in Requests, Reroute(r) \/ BackendFails(r) \/ Complete(r)
      PROVE  \A s \in Servers : /\ Forwarding(s)' \subseteq Forwarding(s)
                                /\ drained[s] <= drained'[s] /\ drained'[s] \in Nat
  BY <1>4, Ends DEF TypeOK
<1>5. ASSUME ~\E r \in Requests :
                  BeginRequest(r) \/ Reroute(r) \/ BackendFails(r) \/ Complete(r),
             ~\E o \in Operators : DrainEnd(o)
      PROVE  \A s \in Servers : /\ Forwarding(s)' \subseteq Forwarding(s)
                                /\ drained[s] <= drained'[s] /\ drained'[s] \in Nat
  BY <1>5, Keeps DEF TypeOK
<1> QED
  BY <1>1, <1>2, <1>3, <1>4, <1>5

-------------------------------------------------------------------------------
(* The theorems.                                                           *)

(* The parts of the invariant together are inductive.                      *)
LEMMA InvStep == Inv /\ [Next]_vars => Inv'
BY TypeStep, AccountingStep, BusyStep, AttemptsStep, BreakerStep DEF Inv

(* Inv holds in every reachable state.                                     *)
THEOREM Invariance == Spec => []Inv
BY InitInv, InvStep, PTL DEF Spec

(* Every variable keeps its type: in particular TrialSuccessCount never    *)
(* runs past TrialRequests and a handler has a server exactly while it is  *)
(* engaged with one.                                                       *)
THEOREM TypeCorrect == Spec => []TypeOK
BY Invariance, PTL DEF Inv

(* ActiveRequests is the number of requests in flight less what operator   *)
(* calls drained, whatever handlers and operators do concurrently.         *)
THEOREM ActiveAccounted == Spec => []Accounting
BY Invariance, PTL DEF Inv

(* A server is forwarded at most BusyThreshold requests at once, plus one  *)
(* for each unit an operator call drained from its counter.                *)
THEOREM BusyRespected == Spec => []BusyCap
BY Invariance, PTL DEF Inv

(* No request is sent twice to the same server.                            *)
THEOREM RetriesDistinct == Spec => []AttemptsDistinct
BY Invariance, PTL DEF Inv

(* A closed breaker is below the failure threshold with no trial credit,   *)
(* a half-open one has not passed its trial.                               *)
THEOREM BreakerConsistent == Spec => []BreakerCounters
BY Invariance, PTL DEF Inv

-------------------------------------------------------------------------------
(* Dispatch implements Failover: each step of a handler is one step of the *)
(* abstract request or a stutter; everything else stutters, except that    *)
(* DrainEnd lends capacity.                                                *)
LEMMA PromiseInit == Init => Promise!Init
BY DEF Init, Promise!Init, Counted

(* The instance has a copy of Cardinality of its own.                      *)
LEMMA PromiseCounts == \A S : Promise!Cardinality(S) = Cardinality(S)
BY DEF Promise!Cardinality, Cardinality

(* Every step is a step of Failover or a stutter.                          *)
LEMMA PromiseStep ==
  ASSUME Inv, [Next]_vars
  PROVE  [Promise!Next]_(Promise!vars)
<1> USE DispatchAssumption DEF DispatchAssumption, Inv, TypeOK, At, Goto, Leave,
        HandlerPc, Engaged, Counted, Answered, Promise!vars
<1>1. ASSUME NEW r \in Requests, NEW s \in Servers, Pick(r, s)
      PROVE  Promise!Try(r, s)
  <2>1. s \in Servers \ attempted[r]
    BY <1>1, PicksExclude DEF Pick, PickServer
  <2>2. Promise!Waiting(r)
    BY <1>1 DEF Pick, Promise!Waiting
  <2> QED
    BY <1>1, <2>1, <2>2 DEF Pick, Promise!Try
<1>2. ASSUME NEW r \in Requests, Reroute(r)
      PROVE  Promise!Skip(r)
  BY <1>2 DEF Reroute, Promise!Skip, Promise!Offered
<1>3. ASSUME NEW r \in Requests, RejectBody(r) \/ Refuse(r)
      PROVE  Promise!Refuse(r)
  <2>1. CASE RejectBody(r)
    BY <2>1 DEF RejectBody, Promise!Refuse, Promise!Waiting
  <2>2. CASE Refuse(r)
    BY <2>2 DEF Refuse, Promise!Refuse, Promise!Waiting
  <2> QED
    BY <1>3, <2>1, <2>2
<1>4. ASSUME NEW r \in Requests, BackendFails(r)
      PROVE  Promise!Fail(r)
  BY <1>4 DEF BackendFails, Promise!Fail, Promise!Stop
<1>5. ASSUME NEW r \in Requests, RecordSuccess(r)
      PROVE  Promise!Serve(r)
  BY <1>5 DEF RecordSuccess, Promise!Serve, Promise!Stop
<1>6. ASSUME NEW o \in Operators, DrainEnd(o)
      PROVE  Promise!Lend(opTarget[o])
  BY <1>6 DEF DrainEnd, Promise!Lend, handlerVars
<1>7. ASSUME NEW r \in Requests, BeginRequest(r), pc'[r] = "forwarding"
      PROVE  Promise!Admit(r)
  <2>1. PICK s \in Servers : s = target[r]
    BY <1>7, Begins
  <2>2. pc[r] = "dispatched" /\ pc' = [pc EXCEPT ![r] = "forwarding"] /\ target' = target
    BY <1>7 DEF BeginRequest
  <2>3. Forwarding(s) = {q \in {q \in Requests : pc[q] = "forwarding"} :
                           (IF pc[q] \in {"dispatched", "busy", "forwarding"}
                            THEN target[q] ELSE NoServer) = s}
    BY DEF Forwarding
  <2>4. Cardinality(Forwarding(s)) < BusyThreshold + drained[s]
    <3>1. active[s] + 1 <= BusyThreshold
      BY <1>7, <2>1 DEF BeginRequest
    <3>2. active[s] = Cardinality(InFlight(s)) - drained[s]
      BY <2>1 DEF Accounting
    <3> QED
      BY <2>1, <3>1, <3>2, RequestsCounted
  <2>5. Promise!Offered(r)
    BY <2>1, <2>2 DEF Promise!Offered
  <2>6. Promise!Load(s) = Forwarding(s)
    BY <2>3 DEF Promise!Load
  <2>7. UNCHANGED <<attempted, drained>>
    BY <1>7 DEF BeginRequest
  <2> DEFINE forwarding == {q \in Requests : pc[q] = "forwarding"}
             assignment == [q \in Requests |->
                              IF pc[q] \in {"dispatched", "busy", "forwarding"}
                              THEN target[q] ELSE NoServer]
             answers == [q \in Requests |->
                           IF pc[q] \in {"succeeding", "served"} THEN "served"
                           ELSE IF pc[q] \in {"refused", "rejected"} THEN "refused"
                           ELSE "none"]
  <2>8. forwarding' = forwarding \cup {r}
    BY <2>2
  <2>9. assignment[r] = s /\ assignment' = assignment /\ answers' = answers
    BY <2>1, <2>2
  <2> HIDE DEF forwarding, assignment, answers
  <2>10. Promise!Cardinality(Promise!Load(assignment[r])) <
           BusyThreshold + drained[assignment[r]]
    BY <2>4, <2>6, <2>9, PromiseCounts
  <2> USE DEF forwarding, assignment, answers
  <2> QED
    BY <2>5, <2>7, <2>8, <2>9, <2>10 DEF Promise!Admit
<1>8. ASSUME NEW r \in Requests,
             \/ Arrive(r) \/ RecordFailure(r) \/ Complete(r) \/ ClientAborts(r)
             \/ BeginRequest(r) /\ pc'[r] # "forwarding"
      PROVE  UNCHANGED Promise!vars
  <2>1. CASE Arrive(r) \/ Complete(r)
    BY <2>1 DEF Arrive, Complete
  <2>2. CASE RecordFailure(r)
    BY <2>2 DEF RecordFailure
  <2>3. CASE ClientAborts(r)
    BY <2>3 DEF ClientAborts, handlerVars
  <2>4. CASE BeginRequest(r) /\ pc'[r] # "forwarding"
    BY <2>4 DEF BeginRequest
  <2> QED
    BY <1>8, <2>1, <2>2, <2>3, <2>4
<1>9. ASSUME \/ \E o \in Operators, s \in Servers :
                   toggleServer(o, s) \/ resetServer(o, s)
             \/ \E o \in Operators : DrainTest(o)
             \/ updateConfig
             \/ \E s \in Servers : MonitorServers(s) \/ checkServers(s)
             \/ UNCHANGED vars
      PROVE  UNCHANGED Promise!vars
  <2>1. UNCHANGED <<drained, handlerVars>>
    BY <1>9 DEF toggleServer, Enable, Disable, resetServer, DrainTest,
                updateConfig, MonitorServers, checkServers, vars
  <2> QED
    BY <2>1 DEF handlerVars
<1>10. \A o \in Operators : DrainEnd(o) => opTarget[o] \in Servers
  BY DEF DrainEnd
<1> QED
  BY <1>1, <1>2, <1>3, <1>4, <1>5, <1>6, <1>7, <1>8, <1>9, <1>10
     DEF Next, HandlerStep, DrainStep, Promise!Next

(* Dispatch keeps the promise of module Failover.                          *)
THEOREM Implements == Spec => ImplementsFailover
BY Invariance, PromiseInit, PromiseStep, PTL DEF Spec, ImplementsFailover, Promise!Spec

-------------------------------------------------------------------------------
(* Action properties.                                                      *)
(* Only Refuse takes a handler from picking to refused.                    *)
LEMMA OnlyRefuse ==
  ASSUME TypeOK, [Next]_vars, NEW r \in Requests, pc[r] = "picking", pc'[r] = "refused"
  PROVE  Refuse(r)
<1>1. PICK q \in Requests : Arrive(q) \/ RejectBody(q) \/ HandlerStep(q)
  <2>1. pc' # pc
    OBVIOUS
  <2>2. ASSUME \/ \E o \in Operators, s \in Servers :
                     toggleServer(o, s) \/ resetServer(o, s)
               \/ \E o \in Operators : DrainStep(o)
               \/ updateConfig
               \/ \E s \in Servers : MonitorServers(s) \/ checkServers(s)
               \/ \E q \in Requests : ClientAborts(q)
               \/ UNCHANGED vars
        PROVE  pc' = pc
    BY <2>2 DEF toggleServer, Enable, Disable, resetServer, DrainStep, DrainTest, DrainEnd,
                updateConfig, MonitorServers, checkServers, ClientAborts, handlerVars, vars
  <2> QED
    BY <2>1, <2>2 DEF Next
<1>2. q = r
  BY <1>1 DEF TypeOK, At, Goto, Leave, Arrive, RejectBody, HandlerStep, Pick, Refuse,
              BeginRequest, Reroute, BackendFails, RecordFailure, RecordSuccess, Complete
<1> QED
  BY <1>1, <1>2 DEF TypeOK, At, Goto, Leave, Arrive, RejectBody, HandlerStep, Pick,
                    BeginRequest, Reroute, BackendFails, RecordFailure, RecordSuccess, Complete

(* A request is refused only when every server it has not tried is offline *)
(* or has a breaker that is not closed: the bound on the loop and the      *)
(* exclusion of tried servers agree, so the loop never gives up early.     *)
THEOREM RefusalJustified == Spec => RefusedOnlyWhenExhausted
<1>1. Inv /\ [Next]_vars => [RefusesWhenExhausted]_vars
  <2> SUFFICES ASSUME Inv, [Next]_vars, NEW r \in Requests,
                      pc[r] = "picking", pc'[r] = "refused"
               PROVE  \A s \in Servers \ attempted[r] : ~ping[s] \/ breaker[s] # "closed"
    BY DEF RefusesWhenExhausted
  <2>1. Refuse(r)
    BY OnlyRefuse DEF Inv
  <2>2. CASE Picks(SessionOf[r], HomeOf[r], attempted[r]) = {}
    BY <2>2 DEF Picks, Candidates
  <2>3. CASE ~MoreAttempts(r)
    <3>1. attempted[r] \in SUBSET Servers /\ Cardinality(attempted[r]) >= Cardinality(Servers)
      BY <2>3, FS_CardinalityType, DispatchAssumption
         DEF MoreAttempts, Inv, TypeOK, AttemptsDistinct, DispatchAssumption
    <3>2. attempted[r] = Servers
      BY <3>1, FS_Subset, FS_CardinalityType, DispatchAssumption DEF DispatchAssumption
    <3> QED
      BY <3>2
  <2> QED
    BY <2>1, <2>2, <2>3 DEF Refuse
<1> QED
  BY <1>1, Invariance, PTL DEF Spec, RefusedOnlyWhenExhausted

(* A session leaves its server only when that server's breaker is not      *)
(* closed, when the request that moves it has tried that server already,   *)
(* or when sticky sessions were off as it chose.                           *)
THEOREM AffinityKept == Spec => SessionMovesForCause
<1>1. Inv /\ [Next]_vars => [MovesForCause]_vars
  <2> SUFFICES ASSUME Inv, [Next]_vars PROVE MovesForCause
    OBVIOUS
  <2>1. ASSUME NEW r \in Requests, NEW s \in Servers, Pick(r, s)
        PROVE  MovesForCause
    <3> SUFFICES ASSUME NEW x \in Sessions,
                        sessionToSrv'[x] # sessionToSrv[x],
                        sessionToSrv[x] # NoServer,
                        breaker[sessionToSrv[x]] = "closed",
                        useStickySessions
                 PROVE  /\ SessionOf[r] = x
                        /\ pc[r] = "picking" /\ pc'[r] = "dispatched"
                        /\ sessionToSrv[x] \in attempted[r]
      BY DEF MovesForCause
    <3> DEFINE t == sessionToSrv[x]
    <3>1. t \in Servers
      BY DEF Inv, TypeOK, BalancerTypeOK
    <3>2. /\ SessionOf[r] = x /\ useStickySessions /\ x # NoSession
          /\ s # t
          /\ s \in Picks(x, HomeOf[r], attempted[r])
          /\ pc[r] = "picking" /\ pc'[r] = "dispatched"
      BY <2>1, DispatchAssumption
         DEF DispatchAssumption, Pick, PickServer, Sticky, At, Goto, Inv, TypeOK, BalancerTypeOK
    <3>3. ASSUME t \notin attempted[r]
          PROVE  FALSE
      <4>1. StickyChoice(x, attempted[r]) = {t}
        BY <3>1, <3>2, <3>3 DEF StickyChoice, Sticky
      <4> QED
        BY <3>2, <4>1 DEF Picks
    <3> QED
      BY <3>2, <3>3
  <2>2. CASE UNCHANGED sessionToSrv
    BY <2>2 DEF MovesForCause
  <2>3. ASSUME NEW r \in Requests,
               \/ Arrive(r) \/ RejectBody(r) \/ ClientAborts(r)
               \/ Refuse(r) \/ BeginRequest(r) \/ Reroute(r) \/ BackendFails(r)
               \/ RecordFailure(r) \/ RecordSuccess(r) \/ Complete(r)
        PROVE  UNCHANGED sessionToSrv
    BY <2>3 DEF Arrive, RejectBody, ClientAborts, Refuse, BeginRequest, Reroute,
                BackendFails, RecordFailure, RecordSuccess, Complete
  <2>4. ASSUME \/ \E o \in Operators, s \in Servers :
                     toggleServer(o, s) \/ resetServer(o, s)
               \/ \E o \in Operators : DrainStep(o)
               \/ updateConfig
               \/ \E s \in Servers : MonitorServers(s) \/ checkServers(s)
               \/ UNCHANGED vars
        PROVE  UNCHANGED sessionToSrv
    BY <2>4 DEF toggleServer, Enable, Disable, resetServer, DrainStep, DrainTest,
                DrainEnd, updateConfig, MonitorServers, checkServers, vars
  <2> QED
    BY <2>1, <2>2, <2>3, <2>4 DEF Next, HandlerStep
<1> QED
  BY <1>1, Invariance, PTL DEF Spec, SessionMovesForCause

===============================================================================
