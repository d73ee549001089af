---------------------------- MODULE BreakerProofs ----------------------------
(***************************************************************************)
(* Theorems about Breaker, for any sets of handlers and operators and any  *)
(* positive thresholds.  A counter may stand at its threshold only while   *)
(* some goroutine in the middle of a call still owes what will be done     *)
(* about it: a test it cannot fail, or a write it has decided on.          *)
(***************************************************************************)
EXTENDS Breaker, SequenceTheorems, TLAPS

(* The write w is among those decided on. *)
Due(writes, w) == \E i \in 1..Len(writes) : writes[i] = w

(* Whoever closes the breaker then clears the failures. *)
ClearsAfter(writes) ==
  \A i \in 1..Len(writes) :
     writes[i] = "closed" => i + 1 <= Len(writes) /\ writes[i + 1] = "zeroFailures"

Ordered == \A a \in Actors : ClearsAfter(todo[a])

FailuresOwed ==
  breaker = "closed" /\ failures = FailureThreshold =>
    \/ \E r \in Requests : /\ pc[r] \in {"testClosed", "testThreshold"}
                           /\ loaded[r] = FailureThreshold
    \/ \E a \in Actors : Due(todo[a], "open") \/ Due(todo[a], "zeroFailures")

TrialsOwed ==
  trials = TrialRequests =>
    \/ \E r \in Requests : pc[r] = "testTrials" /\ loaded[r] = TrialRequests
    \/ \E a \in Actors : Due(todo[a], "zeroTrials")

Inv == TypeOK /\ Ordered /\ FailuresOwed /\ TrialsOwed
-------------------------------------------------------------------------------
(* Lists of writes.                                                        *)

LEMMA EmptyLen ==
  ASSUME NEW S, NEW u \in Seq(S)
  PROVE  u = <<>> <=> Len(u) = 0
<1>1. u = <<>> => Len(u) = 0
  BY EmptySeq, Zenon
<1>2. u # <<>> => Len(u) # 0
  BY EmptySeq
<1> QED
  BY <1>1, <1>2, Zenon

(* Doing the first write leaves a list that owes the others.               *)
LEMMA TailOwes ==
  ASSUME NEW t \in Seq(Writes), t # <<>>, ClearsAfter(t)
  PROVE  /\ Head(t) \in Writes
         /\ Tail(t) \in Seq(Writes)
         /\ Tail(t) = <<>> <=> Len(t) = 1
         /\ ClearsAfter(Tail(t))
         /\ \A w : Due(t, w) /\ w # Head(t) => Due(Tail(t), w)
         /\ Head(t) = "closed" => Due(Tail(t), "zeroFailures")
<1>1. /\ Len(t) \in Nat \ {0} /\ Head(t) = t[1] /\ Head(t) \in Writes
      /\ Tail(t) \in Seq(Writes) /\ Len(Tail(t)) = Len(t) - 1
      /\ \A i \in 1..(Len(t) - 1) : Tail(t)[i] = t[i + 1]
  <2>1. Len(t) \in Nat \ {0}
    BY EmptySeq
  <2>2. Head(t) = t[1]
    BY <2>1
  <2>3. /\ Head(t) \in Writes /\ Tail(t) \in Seq(Writes) /\ Len(Tail(t)) = Len(t) - 1
        /\ \A i \in 1..Len(Tail(t)) : Tail(t)[i] = t[i + 1]
    BY HeadTailProperties
  <2> QED
    BY <2>1, <2>2, <2>3
<1>2. Tail(t) = <<>> <=> Len(t) = 1
  <2>1. Tail(t) = <<>> <=> Len(Tail(t)) = 0
    BY <1>1, EmptyLen, Zenon
  <2> QED
    BY <1>1, <2>1
<1>3. ClearsAfter(Tail(t))
  BY <1>1 DEF ClearsAfter
<1>4. ASSUME NEW w, Due(t, w), w # Head(t)
      PROVE  Due(Tail(t), w)
  <2>1. PICK i \in 1..Len(t) : t[i] = w
    BY <1>4 DEF Due
  <2>2. i - 1 \in 1..(Len(t) - 1) /\ Tail(t)[i - 1] = w
    BY <2>1, <1>1, <1>4
  <2> QED
    BY <2>2, <1>1 DEF Due
<1>5. Head(t) = "closed" => Due(Tail(t), "zeroFailures")
  BY <1>1 DEF ClearsAfter, Due
<1> QED
  BY <1>1, <1>2, <1>3, <1>4, <1>5

(* The lists of the code: typed, not empty, and ordered.                   *)
LEMMA ListsOfWrites ==
  /\ \A t \in {TripWrites, CloseWrites, ProbeWrites, DisableWrites, ResetWrites,
               <<"zeroFailures">>} :
        t \in Seq(Writes) /\ t # <<>> /\ ClearsAfter(t)
  /\ Due(TripWrites, "open")
  /\ Due(CloseWrites, "zeroTrials")
<1>1. \A t \in {TripWrites, CloseWrites, ProbeWrites, DisableWrites, ResetWrites,
                <<"zeroFailures">>} : t \in Seq(Writes)
  <2> USE DEF Writes, CBState
  <2>1. TripWrites \in Seq(Writes) /\ ProbeWrites \in Seq(Writes)
    BY DEF TripWrites, ProbeWrites
  <2>2. CloseWrites \in Seq(Writes)
    BY DEF CloseWrites
  <2>3. DisableWrites \in Seq(Writes)
    BY DEF DisableWrites
  <2>4. ResetWrites \in Seq(Writes)
    BY DEF ResetWrites
  <2>5. <<"zeroFailures">> \in Seq(Writes)
    OBVIOUS
  <2> QED
    BY <2>1, <2>2, <2>3, <2>4, <2>5
<1>2. \A t \in {TripWrites, CloseWrites, ProbeWrites, DisableWrites, ResetWrites,
                <<"zeroFailures">>} : t # <<>>
  <2>1. \A t \in {TripWrites, CloseWrites, ProbeWrites, DisableWrites, ResetWrites,
                  <<"zeroFailures">>} : Len(t) # 0
    BY DEF TripWrites, CloseWrites, ProbeWrites, DisableWrites, ResetWrites
  <2> QED
    BY <1>1, <2>1, EmptySeq
<1>3. ClearsAfter(TripWrites) /\ ClearsAfter(ProbeWrites)
  BY DEF ClearsAfter, TripWrites, ProbeWrites
<1>4. ClearsAfter(DisableWrites) /\ ClearsAfter(<<"zeroFailures">>)
  BY DEF ClearsAfter, DisableWrites
<1>5. ClearsAfter(CloseWrites) /\ ClearsAfter(ResetWrites)
  BY DEF ClearsAfter, CloseWrites, ResetWrites
<1>6. Due(TripWrites, "open") /\ Due(CloseWrites, "zeroTrials")
  BY DEF Due, TripWrites, CloseWrites
<1> QED
  BY <1>1, <1>2, <1>3, <1>4, <1>5, <1>6

LEMMA CappedBounds ==
  ASSUME NEW n \in Nat, NEW b \in Nat
  PROVE  Capped(n, b) \in 0..b
BY DEF Capped
-------------------------------------------------------------------------------
LEMMA InitInv == Init => Inv
<1> SUFFICES ASSUME Init PROVE Inv
  OBVIOUS
<1> USE BreakerAssumption DEF BreakerAssumption, Init
<1>1. TypeOK
  <2>1. <<>> \in Seq(Writes)
    BY EmptySeq
  <2>2. todo \in [Actors -> Seq(Writes)]
    BY <2>1
  <2>3. \A a \in Actors : todo[a] = <<>> /\ pc[a] = "idle"
    OBVIOUS
  <2>4. "monitor" \in Actors /\ Requests \subseteq Actors /\ Operators \subseteq Actors
    BY DEF Actors
  <2>5. \A a \in Actors : todo[a] # <<>> <=> pc[a] \in {"writing", "disabling"}
    BY <2>3
  <2>6. /\ pc \in [Actors -> HandlerPc \cup OperatorPc \cup MonitorPc]
        /\ \A r \in Requests : pc[r] \in HandlerPc
        /\ \A o \in Operators : pc[o] \in OperatorPc
        /\ pc["monitor"] \in MonitorPc
    BY <2>3, <2>4 DEF HandlerPc, OperatorPc, MonitorPc
  <2>7. /\ breaker \in CBState /\ ping \in BOOLEAN /\ cooled \in BOOLEAN
        /\ disabled \in BOOLEAN
    BY Zenon DEF CBState
  <2>8. failures \in 0..FailureThreshold /\ trials \in 0..TrialRequests
    OBVIOUS
  <2>9. loaded \in [Requests -> Nat]
    OBVIOUS
  <2> QED
    BY <2>2, <2>5, <2>6, <2>7, <2>8, <2>9, Zenon DEF TypeOK
<1>2. Ordered
  <2>1. \A a \in Actors : todo[a] = <<>>
    OBVIOUS
  <2>2. ClearsAfter(<<>>)
    <3>1. 1..Len(<<>>) = {}
      BY EmptySeq
    <3> QED
      BY <3>1 DEF ClearsAfter
  <2> QED
    BY <2>1, <2>2 DEF Ordered
<1>3. FailuresOwed /\ TrialsOwed
  BY DEF FailuresOwed, TrialsOwed
<1> QED
  BY <1>1, <1>2, <1>3 DEF Inv
-------------------------------------------------------------------------------
(* Types and the order of writes.                                          *)

LEMMA FlushTypes ==
  ASSUME TypeOK, Ordered, NEW a \in Actors, Flush(a)
  PROVE  TypeOK' /\ Ordered'
<1> DEFINE t == todo[a]
<1>1. t \in Seq(Writes) /\ t # <<>> /\ ClearsAfter(t)
  BY DEF TypeOK, Ordered, Flush
<1>2. /\ Head(t) \in Writes /\ Tail(t) \in Seq(Writes)
      /\ Tail(t) = <<>> <=> Len(t) = 1
      /\ ClearsAfter(Tail(t))
  BY <1>1, TailOwes
<1>3. todo' = [todo EXCEPT ![a] = Tail(t)]
  BY DEF Flush
<1>4. Ordered'
  BY <1>2, <1>3 DEF Ordered, TypeOK
<1>5. /\ breaker' \in CBState /\ ping' \in BOOLEAN /\ cooled' \in BOOLEAN
      /\ failures' \in 0..FailureThreshold /\ trials' \in 0..TrialRequests
      /\ disabled' \in BOOLEAN /\ loaded' \in [Requests -> Nat]
  BY BreakerAssumption DEF BreakerAssumption, Flush, Write, TypeOK
<1>6. todo' \in [Actors -> Seq(Writes)]
  BY <1>2, <1>3 DEF TypeOK
<1>7. pc' = [pc EXCEPT ![a] = IF Len(t) = 1 THEN "idle" ELSE pc[a]]
  BY DEF Flush
<1>8. /\ pc' \in [Actors -> HandlerPc \cup OperatorPc \cup MonitorPc]
      /\ \A r \in Requests : pc'[r] \in HandlerPc
      /\ \A o \in Operators : pc'[o] \in OperatorPc
      /\ pc'["monitor"] \in MonitorPc
  BY <1>7 DEF TypeOK, Actors, HandlerPc, OperatorPc, MonitorPc
<1>9. \A b \in Actors : todo'[b] # <<>> <=> pc'[b] \in {"writing", "disabling"}
  BY <1>1, <1>2, <1>3, <1>7 DEF TypeOK
<1> QED
  BY <1>4, <1>5, <1>6, <1>8, <1>9 DEF TypeOK

(* A decision leaves a list of the code to be done.                        *)
LEMMA DecideTypes ==
  ASSUME TypeOK, Ordered, NEW a \in Actors, NEW from, NEW to, NEW t \in Seq(Writes),
         t # <<>>, ClearsAfter(t), Decide(a, from, to, t),
         to \in {"writing", "disabling"}, to = "disabling" => a \in Operators
  PROVE  TypeOK' /\ Ordered'
<1>1. /\ todo' = [todo EXCEPT ![a] = t] /\ pc' = [pc EXCEPT ![a] = to]
      /\ UNCHANGED <<fields, disabled>>
      /\ loaded' = [r \in Requests |-> IF r = a THEN 0 ELSE loaded[r]]
  BY DEF Decide, Move, Forget
<1>2. Ordered'
  BY <1>1 DEF Ordered, TypeOK
<1>3. /\ pc' \in [Actors -> HandlerPc \cup OperatorPc \cup MonitorPc]
      /\ \A r \in Requests : pc'[r] \in HandlerPc
      /\ \A o \in Operators : pc'[o] \in OperatorPc
      /\ pc'["monitor"] \in MonitorPc
  BY <1>1, BreakerAssumption
     DEF BreakerAssumption, TypeOK, Actors, HandlerPc, OperatorPc, MonitorPc
<1>4. todo' \in [Actors -> Seq(Writes)] /\ loaded' \in [Requests -> Nat]
  BY <1>1 DEF TypeOK
<1>5. \A b \in Actors : todo'[b] # <<>> <=> pc'[b] \in {"writing", "disabling"}
  BY <1>1 DEF TypeOK
<1> QED
  BY <1>1, <1>2, <1>3, <1>4, <1>5 DEF TypeOK, fields

(* The other steps of a goroutine write nothing it had to decide on.       *)
LEMMA MoveTypes ==
  ASSUME TypeOK, Ordered, NEW a \in Actors, NEW from, NEW to,
         from \notin {"writing", "disabling"}, to \notin {"writing", "disabling"},
         a \in Requests => to \in HandlerPc, a \in Operators => to \in OperatorPc,
         a = "monitor" => to \in MonitorPc,
         Move(a, from, to), UNCHANGED <<breaker, todo>>,
         ping' \in BOOLEAN, cooled' \in BOOLEAN, disabled' \in BOOLEAN,
         failures' \in 0..FailureThreshold, trials' \in 0..TrialRequests,
         loaded' \in [Requests -> Nat]
  PROVE  TypeOK' /\ Ordered'
<1>1. pc' = [pc EXCEPT ![a] = to] /\ pc[a] = from
  BY DEF Move
<1>2. /\ pc' \in [Actors -> HandlerPc \cup OperatorPc \cup MonitorPc]
      /\ \A r \in Requests : pc'[r] \in HandlerPc
      /\ \A o \in Operators : pc'[o] \in OperatorPc
      /\ pc'["monitor"] \in MonitorPc
  BY <1>1 DEF TypeOK, Actors
<1>3. \A b \in Actors : todo'[b] # <<>> <=> pc'[b] \in {"writing", "disabling"}
  BY <1>1 DEF TypeOK
<1> QED
  BY <1>2, <1>3 DEF TypeOK, Ordered
LEMMA ReadTypes ==
  ASSUME TypeOK, Ordered, NEW r \in Requests, NEW from \in HandlerPc \ {"writing"},
         NEW to \in HandlerPc \ {"writing"}, Move(r, from, to), Reads
  PROVE  TypeOK' /\ Ordered'
<1>1. r \in Actors /\ r \notin Operators /\ r # "monitor"
  BY BreakerAssumption DEF BreakerAssumption, Actors
<1>2. UNCHANGED <<breaker, ping, failures, trials, cooled, loaded, todo, disabled>>
  BY DEF Reads, fields
<1>3. from \notin {"writing", "disabling"} /\ to \notin {"writing", "disabling"}
  BY DEF HandlerPc
<1> QED
  BY <1>1, <1>2, <1>3, MoveTypes DEF TypeOK

LEMMA ReturnTypes ==
  ASSUME TypeOK, Ordered, NEW r \in Requests, NEW from \in HandlerPc \ {"writing"},
         Return(r, from)
  PROVE  TypeOK' /\ Ordered'
<1>1. r \in Actors /\ r \notin Operators /\ r # "monitor"
  BY BreakerAssumption DEF BreakerAssumption, Actors
<1>2. /\ UNCHANGED <<breaker, ping, failures, trials, cooled, todo, disabled>>
      /\ loaded' = [q \in Requests |-> IF q = r THEN 0 ELSE loaded[q]]
      /\ Move(r, from, "idle")
  BY DEF Return, Forget, fields
<1>3. loaded' \in [Requests -> Nat]
  BY <1>2 DEF TypeOK
<1>4. from \notin {"writing", "disabling"} /\ "idle" \in HandlerPc
  BY DEF HandlerPc
<1> QED
  BY <1>1, <1>2, <1>3, <1>4, MoveTypes DEF TypeOK

(* The steps of a handler, one lemma each for the calls and their rest.    *)
LEMMA HandlerTypes ==
  ASSUME TypeOK, Ordered, NEW r \in Requests, PickServer(r) \/ Handler(r)
  PROVE  TypeOK' /\ Ordered'
<1> USE BreakerAssumption DEF BreakerAssumption
<1>0. r \in Actors /\ r \notin Operators /\ r # "monitor"
  BY DEF Actors
<1>1. CASE PickServer(r) \/ Fails(r) \/ Succeeds(r)
  BY <1>1, ReadTypes DEF PickServer, Fails, Succeeds, HandlerPc
<1>2. CASE LoadFailures(r)
  BY <1>2, <1>0, MoveTypes DEF LoadFailures, HandlerPc, TypeOK, fields
<1>3. CASE LoadTrials(r)
  BY <1>3, <1>0, MoveTypes DEF LoadTrials, HandlerPc, TypeOK, fields
<1>4. CASE StoreFailures(r) \/ StoreTrials(r)
  <2>1. /\ Capped(loaded[r] + 1, FailureThreshold) \in 0..FailureThreshold
        /\ Capped(loaded[r] + 1, TrialRequests) \in 0..TrialRequests
    BY DEF Capped, TypeOK
  <2>2. loaded' \in [Requests -> Nat]
    BY <1>4, <2>1 DEF StoreFailures, StoreTrials, TypeOK
  <2>3. failures' \in 0..FailureThreshold /\ trials' \in 0..TrialRequests
    BY <1>4, <2>1 DEF StoreFailures, StoreTrials, TypeOK
  <2>4. CASE StoreFailures(r)
    BY <2>2, <2>3, <2>4, <1>0, MoveTypes DEF StoreFailures, HandlerPc, TypeOK
  <2>5. CASE StoreTrials(r)
    BY <2>2, <2>3, <2>5, <1>0, MoveTypes DEF StoreTrials, HandlerPc, TypeOK
  <2> QED
    BY <1>4, <2>4, <2>5
<1>5. CASE TestClosed(r) \/ TestTrial(r)
  BY <1>5, ReadTypes DEF TestClosed, TestTrial, HandlerPc
<1>6. CASE TestThreshold(r)
  <2>1. CASE Decide(r, "testThreshold", "writing", TripWrites)
    BY <2>1, <1>0, DecideTypes, ListsOfWrites
  <2>2. CASE Move(r, "testThreshold", "testHalfOpen") /\ Reads
    BY <2>2, ReadTypes DEF HandlerPc
  <2> QED
    BY <1>6, <2>1, <2>2 DEF TestThreshold
<1>7. CASE TestHalfOpen(r)
  <2>1. CASE Decide(r, "testHalfOpen", "writing", TripWrites)
    BY <2>1, <1>0, DecideTypes, ListsOfWrites
  <2>2. CASE Return(r, "testHalfOpen")
    BY <2>2, ReturnTypes DEF HandlerPc
  <2> QED
    BY <1>7, <2>1, <2>2 DEF TestHalfOpen
<1>8. CASE RecordSuccess(r)
  <2>1. CASE Decide(r, "testState", "writing", <<"zeroFailures">>)
    BY <2>1, <1>0, DecideTypes, ListsOfWrites
  <2>2. CASE Move(r, "testState", "testTrial") /\ Reads
    BY <2>2, ReadTypes DEF HandlerPc
  <2>3. CASE Decide(r, "testTrials", "writing", CloseWrites)
    BY <2>3, <1>0, DecideTypes, ListsOfWrites
  <2>4. CASE Return(r, "testTrials")
    BY <2>4, ReturnTypes DEF HandlerPc
  <2> QED
    BY <1>8, <1>3, <1>4, <1>5, <2>1, <2>2, <2>3, <2>4
       DEF RecordSuccess, TestState, TestTrials
<1>9. CASE Flush(r)
  BY <1>9, <1>0, FlushTypes
<1> QED
  BY <1>1, <1>2, <1>3, <1>4, <1>5, <1>6, <1>7, <1>8, <1>9
     DEF Handler, RecordFailure

LEMMA OperatorTypes ==
  ASSUME TypeOK, Ordered, NEW o \in Operators, toggleServer(o) \/ resetServer(o)
  PROVE  TypeOK' /\ Ordered'
<1> USE BreakerAssumption DEF BreakerAssumption
<1>0. o \in Actors /\ o \notin Requests /\ o # "monitor"
  BY DEF Actors
<1>1. CASE BeginToggle(o)
  BY <1>1, <1>0, MoveTypes DEF BeginToggle, OperatorPc, TypeOK, fields
<1>2. CASE Flip(o)
  BY <1>2, <1>0, MoveTypes DEF Flip, OperatorPc, TypeOK
<1>3. CASE Branch(o)
  BY <1>3, <1>0, DecideTypes, ListsOfWrites DEF Branch
<1>4. CASE BeginReset(o)
  <2>1. /\ todo' = [todo EXCEPT ![o] = ResetWrites]
        /\ pc' = [pc EXCEPT ![o] = "writing"]
        /\ disabled' = FALSE /\ UNCHANGED <<fields, loaded>>
    BY <1>4 DEF BeginReset, Move
  <2>2. Ordered'
    BY <2>1, ListsOfWrites DEF Ordered, TypeOK
  <2>3. /\ pc' \in [Actors -> HandlerPc \cup OperatorPc \cup MonitorPc]
        /\ \A r \in Requests : pc'[r] \in HandlerPc
        /\ \A q \in Operators : pc'[q] \in OperatorPc
        /\ pc'["monitor"] \in MonitorPc
    BY <2>1, <1>0 DEF TypeOK, OperatorPc
  <2>4. todo' \in [Actors -> Seq(Writes)]
    BY <2>1, ListsOfWrites DEF TypeOK
  <2>5. \A b \in Actors : todo'[b] # <<>> <=> pc'[b] \in {"writing", "disabling"}
    BY <2>1, ListsOfWrites DEF TypeOK
  <2> QED
    BY <2>1, <2>2, <2>3, <2>4, <2>5 DEF TypeOK, fields
<1>5. CASE Flush(o)
  BY <1>5, <1>0, FlushTypes
<1> QED
  BY <1>1, <1>2, <1>3, <1>4, <1>5 DEF toggleServer, resetServer

LEMMA TypeStep ==
  ASSUME TypeOK, Ordered, [Next]_vars
  PROVE  TypeOK' /\ Ordered'
<1>0. "monitor" \in Actors /\ "monitor" \notin Requests /\ "monitor" \notin Operators
  BY BreakerAssumption DEF BreakerAssumption, Actors
<1>1. CASE SeesOpen
  BY <1>1, <1>0, MoveTypes DEF SeesOpen, Reads, MonitorPc, TypeOK, fields
<1>2. CASE TestCooled
  BY <1>2, <1>0, MoveTypes, DecideTypes, ListsOfWrites
     DEF TestCooled, Return, Forget, MonitorPc, TypeOK, fields
<1>3. CASE Cool \/ FetchMetrics
  BY <1>3 DEF Cool, FetchMetrics, TypeOK, Ordered
<1>4. CASE UNCHANGED vars
  BY <1>4 DEF vars, fields, TypeOK, Ordered
<1> QED
  BY <1>0, <1>1, <1>2, <1>3, <1>4, HandlerTypes, OperatorTypes, FlushTypes
     DEF Next, MonitorServers
-------------------------------------------------------------------------------
(* What is owed.                                                           *)

(* A step of a goroutine that is not at one of the tests that matter, and  *)
(* that writes none of the three fields, leaves what is owed as it was.    *)
LEMMA OwedMove ==
  ASSUME Inv, NEW a \in Actors, NEW from, NEW to, Move(a, from, to),
         from \notin {"testClosed", "testThreshold", "testTrials", "writing", "disabling"},
         UNCHANGED <<breaker, failures, trials>>,
         \A r \in Requests : r # a => loaded'[r] = loaded[r],
         \A b \in Actors : b # a => todo'[b] = todo[b]
  PROVE  FailuresOwed' /\ TrialsOwed'
<1>1. /\ pc[a] = from /\ \A b \in Actors : b # a => pc'[b] = pc[b]
      /\ Requests \subseteq Actors
  BY DEF Move, Inv, TypeOK, Actors
<1>2. todo[a] = <<>>
  BY <1>1 DEF Inv, TypeOK
<1>3. \A w : ~Due(todo[a], w)
  BY <1>2, EmptySeq DEF Due
<1>4. FailuresOwed'
  BY <1>1, <1>3 DEF Inv, FailuresOwed
<1>5. TrialsOwed'
  BY <1>1, <1>3 DEF Inv, TrialsOwed
<1> QED
  BY <1>4, <1>5

LEMMA OwedFlush ==
  ASSUME Inv, NEW a \in Actors, Flush(a)
  PROVE  FailuresOwed' /\ TrialsOwed'
<1> DEFINE t == todo[a]
<1>1. t \in Seq(Writes) /\ t # <<>> /\ ClearsAfter(t) /\ pc[a] \in {"writing", "disabling"}
  BY DEF Inv, TypeOK, Ordered, Flush
<1>2. /\ \A w : Due(t, w) /\ w # Head(t) => Due(Tail(t), w)
      /\ Head(t) = "closed" => Due(Tail(t), "zeroFailures")
  BY <1>1, TailOwes
<1>3. /\ todo' = [todo EXCEPT ![a] = Tail(t)] /\ loaded' = loaded
      /\ \A b \in Actors : b # a => pc'[b] = pc[b]
      /\ Write(Head(t))
      /\ Requests \subseteq Actors
  BY DEF Flush, Inv, TypeOK, Actors
<1>4. /\ todo'[a] = Tail(t)
      /\ \A b \in Actors : b # a => todo'[b] = todo[b]
  BY <1>3 DEF Inv, TypeOK
<1>5. FailuresOwed'
  <2> SUFFICES ASSUME breaker' = "closed", failures' = FailureThreshold
               PROVE  \/ \E r \in Requests : /\ pc'[r] \in {"testClosed", "testThreshold"}
                                             /\ loaded'[r] = FailureThreshold
                      \/ \E b \in Actors : Due(todo'[b], "open") \/ Due(todo'[b], "zeroFailures")
    BY DEF FailuresOwed, Due
  <2>1. CASE Head(t) = "closed"
    BY <2>1, <1>2, <1>4
  <2>2. CASE Head(t) # "closed"
    <3>1. /\ Head(t) \notin {"open", "zeroFailures"}
          /\ breaker = "closed" /\ failures = FailureThreshold
      BY <2>2, <1>3, BreakerAssumption DEF BreakerAssumption, Write, CBState
    <3> QED
      BY <3>1, <1>1, <1>2, <1>3, <1>4 DEF Inv, FailuresOwed
  <2> QED
    BY <2>1, <2>2
<1>6. TrialsOwed'
  <2> SUFFICES ASSUME trials' = TrialRequests
               PROVE  \/ \E r \in Requests : pc'[r] = "testTrials" /\ loaded'[r] = TrialRequests
                      \/ \E b \in Actors : Due(todo'[b], "zeroTrials")
    BY DEF TrialsOwed, Due
  <2>1. Head(t) # "zeroTrials" /\ trials = TrialRequests
    BY <1>3, BreakerAssumption DEF BreakerAssumption, Write
  <2> QED
    BY <2>1, <1>1, <1>2, <1>3, <1>4 DEF Inv, TrialsOwed
<1> QED
  BY <1>5, <1>6
(* A goroutine that has decided owes what it decided on.                   *)
LEMMA OwedDecide ==
  ASSUME Inv, NEW r \in Requests, NEW from, NEW writes, Decide(r, from, "writing", writes),
         from \in {"testThreshold", "testTrials"},
         from = "testThreshold" => Due(writes, "open"),
         from = "testTrials" => Due(writes, "zeroTrials")
  PROVE  FailuresOwed' /\ TrialsOwed'
<1>1. /\ r \in Actors /\ Requests \subseteq Actors
      /\ pc[r] = from /\ pc' = [pc EXCEPT ![r] = "writing"]
      /\ todo' = [todo EXCEPT ![r] = writes]
      /\ \A q \in Requests : q # r => loaded'[q] = loaded[q]
      /\ UNCHANGED <<breaker, failures, trials>>
  BY DEF Decide, Move, Forget, Actors, fields
<1>2. /\ todo'[r] = writes
      /\ \A b \in Actors : b # r => todo'[b] = todo[b] /\ pc'[b] = pc[b]
  BY <1>1 DEF Inv, TypeOK
<1>3. \A w : ~Due(todo[r], w)
  <2>1. todo[r] = <<>>
    BY <1>1 DEF Inv, TypeOK
  <2> QED
    BY <2>1, EmptySeq DEF Due
<1>4. FailuresOwed'
  <2>1. CASE from = "testThreshold"
    BY <2>1, <1>1, <1>2 DEF FailuresOwed
  <2>2. CASE from = "testTrials"
    BY <2>2, <1>1, <1>2, <1>3 DEF Inv, FailuresOwed
  <2> QED
    BY <2>1, <2>2
<1>5. TrialsOwed'
  <2>1. CASE from = "testTrials"
    BY <2>1, <1>1, <1>2 DEF TrialsOwed
  <2>2. CASE from = "testThreshold"
    BY <2>2, <1>1, <1>2, <1>3 DEF Inv, TrialsOwed
  <2> QED
    BY <2>1, <2>2
<1> QED
  BY <1>4, <1>5

(* The steps in which a handler takes on what is owed, or tests it.        *)
LEMMA OwedHandler ==
  ASSUME Inv, NEW r \in Requests,
         \/ StoreFailures(r) \/ TestClosed(r) \/ TestThreshold(r)
         \/ StoreTrials(r) \/ TestTrials(r)
  PROVE  FailuresOwed' /\ TrialsOwed'
<1>0. r \in Actors /\ Requests \subseteq Actors
  BY DEF Actors
<1>1. CASE StoreFailures(r)
  <2>1. /\ pc[r] = "storeFailures" /\ pc'[r] = "testClosed"
        /\ failures' = loaded'[r]
        /\ \A q \in Requests : q # r => pc'[q] = pc[q] /\ loaded'[q] = loaded[q]
        /\ UNCHANGED <<trials, todo>>
    BY <1>0, <1>1 DEF StoreFailures, Move, Inv, TypeOK
  <2> QED
    BY <2>1 DEF Inv, FailuresOwed, TrialsOwed
<1>2. CASE StoreTrials(r)
  <2>1. /\ pc[r] = "storeTrials" /\ pc'[r] = "testTrials"
        /\ trials' = loaded'[r]
        /\ \A q \in Requests : q # r => pc'[q] = pc[q] /\ loaded'[q] = loaded[q]
        /\ UNCHANGED <<breaker, failures, todo>>
    BY <1>0, <1>2 DEF StoreTrials, Move, Inv, TypeOK
  <2> QED
    BY <2>1 DEF Inv, FailuresOwed, TrialsOwed
<1>3. CASE TestClosed(r)
  <2>1. /\ pc[r] = "testClosed"
        /\ breaker = "closed" => pc'[r] = "testThreshold"
        /\ \A q \in Requests : q # r => pc'[q] = pc[q]
        /\ UNCHANGED <<breaker, failures, trials, loaded, todo>>
    BY <1>0, <1>3 DEF TestClosed, Move, Reads, fields, Inv, TypeOK
  <2> QED
    BY <2>1 DEF Inv, FailuresOwed, TrialsOwed
<1>4. CASE TestThreshold(r)
  <2>1. CASE Decide(r, "testThreshold", "writing", TripWrites)
    BY <2>1, OwedDecide, ListsOfWrites
  <2>2. CASE /\ Move(r, "testThreshold", "testHalfOpen") /\ Reads
             /\ \E count \in {failures, loaded[r]} : ~(count >= FailureThreshold)
    <3>1. /\ pc[r] = "testThreshold"
          /\ \A q \in Requests : q # r => pc'[q] = pc[q]
          /\ UNCHANGED <<breaker, failures, trials, loaded, todo>>
      BY <1>0, <2>2 DEF Move, Reads, fields, Inv, TypeOK
    <3>2. failures # FailureThreshold \/ loaded[r] # FailureThreshold
      BY <2>2, BreakerAssumption DEF BreakerAssumption
    <3> QED
      BY <3>1, <3>2 DEF Inv, FailuresOwed, TrialsOwed
  <2> QED
    BY <1>4, <2>1, <2>2 DEF TestThreshold
<1>5. CASE TestTrials(r)
  <2>1. CASE Decide(r, "testTrials", "writing", CloseWrites)
    BY <2>1, OwedDecide, ListsOfWrites
  <2>2. CASE /\ Return(r, "testTrials")
             /\ \E count \in {trials, loaded[r]} : ~(count >= TrialRequests)
    <3>1. /\ pc[r] = "testTrials"
          /\ \A q \in Requests : q # r => pc'[q] = pc[q] /\ loaded'[q] = loaded[q]
          /\ UNCHANGED <<breaker, failures, trials, todo>>
      BY <1>0, <2>2 DEF Return, Move, Forget, fields, Inv, TypeOK
    <3>2. trials # TrialRequests \/ loaded[r] # TrialRequests
      BY <2>2, BreakerAssumption DEF BreakerAssumption
    <3> QED
      BY <3>1, <3>2 DEF Inv, FailuresOwed, TrialsOwed
  <2> QED
    BY <1>5, <2>1, <2>2 DEF TestTrials
<1> QED
  BY <1>1, <1>2, <1>3, <1>4, <1>5

LEMMA OwedStep ==
  ASSUME Inv, [Next]_vars
  PROVE  FailuresOwed' /\ TrialsOwed'
<1>0. Requests \subseteq Actors /\ Operators \subseteq Actors /\ "monitor" \in Actors
  BY DEF Actors
<1>1. ASSUME NEW r \in Requests,
             PickServer(r) \/ Fails(r) \/ Succeeds(r) \/ LoadFailures(r) \/ TestHalfOpen(r)
      PROVE  FailuresOwed' /\ TrialsOwed'
  BY <1>0, <1>1, OwedMove
     DEF PickServer, Fails, Succeeds, LoadFailures, TestHalfOpen, Decide, Return, Forget,
         Reads, fields, Inv, TypeOK
<1>2. ASSUME NEW r \in Requests, TestState(r) \/ TestTrial(r) \/ LoadTrials(r)
      PROVE  FailuresOwed' /\ TrialsOwed'
  BY <1>0, <1>2, OwedMove
     DEF TestState, TestTrial, LoadTrials, Decide, Forget, Reads, fields, Inv, TypeOK
<1>3. ASSUME NEW o \in Operators, BeginToggle(o) \/ Flip(o) \/ Branch(o) \/ BeginReset(o)
      PROVE  FailuresOwed' /\ TrialsOwed'
  BY <1>0, <1>3, OwedMove, BreakerAssumption
     DEF BreakerAssumption, BeginToggle, Flip, Branch, BeginReset, Decide, Forget, fields,
         Inv, TypeOK
<1>4. CASE SeesOpen \/ TestCooled
  BY <1>0, <1>4, OwedMove, BreakerAssumption
     DEF BreakerAssumption, SeesOpen, TestCooled, Decide, Return, Forget, Reads, fields,
         Inv, TypeOK
<1>5. CASE Cool \/ FetchMetrics \/ UNCHANGED vars
  BY <1>5 DEF Cool, FetchMetrics, vars, fields, Inv, FailuresOwed, TrialsOwed, Due
<1> QED
  BY <1>0, <1>1, <1>2, <1>3, <1>4, <1>5, OwedFlush, OwedHandler
     DEF Next, Handler, RecordFailure, RecordSuccess, toggleServer, resetServer, MonitorServers
-------------------------------------------------------------------------------
LEMMA Invariance == Spec => []Inv
<1>1. Inv /\ [Next]_vars => Inv'
  BY TypeStep, OwedStep DEF Inv
<1> QED
  BY InitInv, <1>1, PTL DEF Spec

(* Every field, counter and list of pending writes has its type: counters  *)
(* stay within their caps, and a goroutine is at a writing step exactly    *)
(* while it has decided on writes.                                         *)
THEOREM TypeCorrect == Spec => []TypeOK
<1>1. Inv => TypeOK
  BY DEF Inv
<1> QED
  BY <1>1, Invariance, PTL

(* For any number of handlers and operators that race on the breaker, when *)
(* no call is half done it is not closed at its failure threshold, nor     *)
(* waiting with all its trials passed.                                     *)
THEOREM SoundAtRest == Spec => []AtRest
<1>1. Inv => AtRest
  <2> SUFFICES ASSUME Inv, Quiet PROVE AtRest
    BY DEF AtRest
  <2>1. \A a \in Actors : todo[a] = <<>>
    BY DEF Inv, TypeOK, Quiet
  <2>2. \A a \in Actors : \A w : ~Due(todo[a], w)
    BY <2>1, EmptySeq DEF Due
  <2>3. \A r \in Requests : pc[r] \notin {"testClosed", "testThreshold", "testTrials"}
    BY DEF Quiet, Actors
  <2>4. failures \in 0..FailureThreshold /\ trials \in 0..TrialRequests
    BY DEF Inv, TypeOK
  <2> QED
    BY <2>2, <2>3, <2>4, BreakerAssumption
       DEF BreakerAssumption, Inv, FailuresOwed, TrialsOwed, AtRest
<1> QED
  BY <1>1, Invariance, PTL

===============================================================================
