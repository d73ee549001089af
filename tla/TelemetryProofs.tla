---------------------------- MODULE TelemetryProofs ----------------------------
(***************************************************************************)
(* Theorems about Telemetry, for any requests, dashboards and pollers and  *)
(* any lengths of history and channels.  That a dashboard has no gap rests *)
(* on where each reported event is: kept or evicted, and, for a dashboard  *)
(* that has loaded the history, settled or still to be sent to it.         *)
(***************************************************************************)
EXTENDS Telemetry, SequenceTheorems, TLAPS

(* A publisher has something left to send only while it is sending.        *)
SendingOnly == \A p \in Publishers : todo[p] # {} => pc[p] = "sending"

(* A request is past its last packet only once it has reported them all.   *)
Progress ==
  \A r \in Requests : /\ pc[r] = "record" => stage[r] <= Stages
                      /\ pc[r] \in {"publish", "sending"} => stage[r] <= Stages + 1

(* Nobody subscribes twice. *)
Fresh ==
  \A c \in Clients : pc[c] \in {"away", "subscribe"} => c \notin subscribers \cup fetched

Reported(e) ==
  \/ stage[e[1]] > e[2]
  \/ stage[e[1]] = e[2] /\ pc[e[1]] \in {"publish", "sending"}

Kept == \A e \in Packets : Reported(e) => e \in evicted \cup Range(packetHistory)

Pending(c, e) ==
  /\ stage[e[1]] = e[2]
  /\ pc[e[1]] = "publish" \/ (pc[e[1]] = "sending" /\ c \in todo[e[1]])

Delivered ==
  \A c \in subscribers \cap fetched, e \in Packets :
     Reported(e) => e \in settled[c] \/ Pending(c, e)

Inv == TypeOK /\ SendsOpen /\ SendingOnly /\ Progress /\ Fresh /\ Kept /\ Delivered
-------------------------------------------------------------------------------
LEMMA RangeOfAppend ==
  ASSUME NEW S, NEW seq \in Seq(S), NEW x \in S
  PROVE  /\ Append(seq, x) \in Seq(S) /\ Len(Append(seq, x)) = Len(seq) + 1
         /\ Range(Append(seq, x)) = Range(seq) \cup {x}
<1>1. /\ Append(seq, x) \in Seq(S) /\ Len(Append(seq, x)) = Len(seq) + 1
      /\ \A i \in 1..Len(seq) : Append(seq, x)[i] = seq[i]
      /\ Append(seq, x)[Len(seq) + 1] = x
  BY AppendProperties
<1>2. DOMAIN seq = 1..Len(seq) /\ DOMAIN Append(seq, x) = 1..(Len(seq) + 1) /\ Len(seq) \in Nat
  BY <1>1, LenProperties
<1> QED
  BY <1>1, <1>2 DEF Range

LEMMA RangeOfTail ==
  ASSUME NEW S, NEW seq \in Seq(S), seq # <<>>
  PROVE  /\ Tail(seq) \in Seq(S) /\ Len(Tail(seq)) = Len(seq) - 1 /\ Head(seq) \in S
         /\ Range(seq) = Range(Tail(seq)) \cup {Head(seq)}
<1>1. /\ Tail(seq) \in Seq(S) /\ Len(Tail(seq)) = Len(seq) - 1 /\ Head(seq) \in S
      /\ \A i \in 1..Len(Tail(seq)) : Tail(seq)[i] = seq[i + 1]
  BY HeadTailProperties
<1>2. Len(seq) \in Nat \ {0} /\ DOMAIN seq = 1..Len(seq)
      /\ DOMAIN Tail(seq) = 1..(Len(seq) - 1) /\ Head(seq) = seq[1]
  BY <1>1, EmptySeq, LenProperties
<1>3. \A i \in 1..Len(seq) : i = 1 \/ (i - 1 \in 1..(Len(seq) - 1) /\ seq[i] = Tail(seq)[i - 1])
  BY <1>1, <1>2
<1>4. \A i \in 1..(Len(seq) - 1) : i + 1 \in 1..Len(seq)
  BY <1>2
<1>5. Range(seq) \subseteq Range(Tail(seq)) \cup {Head(seq)}
  <2> SUFFICES ASSUME NEW i \in 1..Len(seq)
               PROVE  seq[i] \in Range(Tail(seq)) \cup {Head(seq)}
    BY <1>2 DEF Range
  <2>1. CASE i = 1
    BY <2>1, <1>2
  <2>2. CASE i # 1
    BY <2>2, <1>2, <1>3 DEF Range
  <2> QED
    BY <2>1, <2>2
<1>6. Range(Tail(seq)) \cup {Head(seq)} \subseteq Range(seq)
  BY <1>1, <1>2, <1>4 DEF Range
<1> QED
  BY <1>1, <1>5, <1>6

(* The history after an event: nothing is lost that is not evicted.        *)
LEMMA HistoryAfterRecord ==
  ASSUME TypeOK, NEW r \in Requests, RecordPacketEvent(r), Event(r) \in Packets
  PROVE  /\ packetHistory' \in Seq(Packets) /\ Len(packetHistory') <= maxPacketHistory
         /\ evicted' \subseteq Packets
         /\ evicted \cup Range(packetHistory) \cup {Event(r)}
              \subseteq evicted' \cup Range(packetHistory')
<1>0. /\ packetHistory \in Seq(Packets) /\ Len(packetHistory) \in Nat
      /\ Len(packetHistory) <= maxPacketHistory /\ maxPacketHistory \in Nat \ {0}
      /\ evicted \subseteq Packets
  BY LenProperties, TelemetryAssumption DEF TelemetryAssumption, TypeOK
<1>1. CASE Full
  <2>1. packetHistory # <<>>
    BY <1>0, <1>1, EmptySeq DEF Full
  <2>2. /\ packetHistory' = Append(Tail(packetHistory), Event(r))
        /\ evicted' = evicted \cup {Head(packetHistory)}
    BY <1>1 DEF RecordPacketEvent
  <2>3. /\ Tail(packetHistory) \in Seq(Packets)
        /\ Len(Tail(packetHistory)) = Len(packetHistory) - 1
        /\ Head(packetHistory) \in Packets
        /\ Range(packetHistory) = Range(Tail(packetHistory)) \cup {Head(packetHistory)}
    BY <1>0, <2>1, RangeOfTail
  <2>4. /\ packetHistory' \in Seq(Packets)
        /\ Len(packetHistory') = Len(packetHistory)
        /\ Range(packetHistory') = Range(Tail(packetHistory)) \cup {Event(r)}
    <3> DEFINE kept == Tail(packetHistory)
    <3> HIDE DEF kept
    <3>1. kept \in Seq(Packets) /\ Len(kept) = Len(packetHistory) - 1
      BY <2>3 DEF kept
    <3>2. /\ Append(kept, Event(r)) \in Seq(Packets)
          /\ Len(Append(kept, Event(r))) = Len(kept) + 1
          /\ Range(Append(kept, Event(r))) = Range(kept) \cup {Event(r)}
      BY <3>1, RangeOfAppend
    <3>3. packetHistory' = Append(kept, Event(r))
      BY <2>2 DEF kept
    <3> QED
      BY <1>0, <3>1, <3>2, <3>3 DEF kept
  <2> QED
    BY <1>0, <2>2, <2>3, <2>4
<1>2. CASE ~Full
  <2>1. packetHistory' = Append(packetHistory, Event(r)) /\ evicted' = evicted
    BY <1>2 DEF RecordPacketEvent
  <2>2. Len(packetHistory) < maxPacketHistory
    BY <1>0, <1>2 DEF Full
  <2> QED
    BY <1>0, <2>1, <2>2, RangeOfAppend
<1> QED
  BY <1>1, <1>2

(* A packet event is not one of the others.                                *)
LEMMA PacketIsNotInfo == \A e \in Packets : e # Info
<1> SUFFICES ASSUME NEW r \in Requests, NEW k \in 1..Stages PROVE <<r, k>> # Info
  BY DEF Packets
<1>1. Len(<<r, k>>) = 2 /\ Len(Info) = 1
  BY DEF Info
<1> QED
  BY <1>1

LEMMA EventTyped ==
  ASSUME TypeOK, NEW p \in Publishers
  PROVE  /\ Event(p) \in Packets \cup {Info}
         /\ p \in Requests /\ stage[p] <= Stages =>
              Event(p) \in Packets /\ Event(p) = <<p, stage[p]>>
BY TelemetryAssumption DEF TelemetryAssumption, TypeOK, Event, Packets
-------------------------------------------------------------------------------
LEMMA InitInv == Init => Inv
<1> SUFFICES ASSUME Init PROVE Inv
  OBVIOUS
<1> USE TelemetryAssumption DEF TelemetryAssumption
<1>1. /\ \A r \in Requests : pc[r] = "working" /\ r \in Publishers
      /\ \A c \in Clients : pc[c] = "away" /\ c \in Publishers
      /\ \A p \in Publishers : todo[p] = {}
      /\ subscribers = {} /\ fetched = {}
  BY DEF Init, Publishers
<1>2. <<>> \in Seq(Packets) /\ <<>> \in Seq(Packets \cup {Info}) /\ Len(<<>>) = 0
  BY EmptySeq
<1>3. TypeOK
  <2>1. pc \in [Publishers -> RequestPc \cup ClientPc]
    BY DEF Init, RequestPc, ClientPc
  <2>2. /\ \A r \in Requests : pc[r] \in RequestPc
        /\ \A c \in Clients : pc[c] \in ClientPc
    BY <1>1 DEF RequestPc, ClientPc
  <2>3. packetHistory \in Seq(Packets) /\ Len(packetHistory) <= maxPacketHistory
    BY <1>2 DEF Init
  <2>4. /\ channel \in [Clients -> Seq(Packets \cup {Info})]
        /\ \A c \in Clients : Len(channel[c]) <= Buffer
    BY <1>2 DEF Init
  <2>5. /\ stage \in [Requests -> 1..(Stages + 2)]
        /\ todo \in [Publishers -> SUBSET Clients]
        /\ settled \in [Clients -> SUBSET Packets]
    BY DEF Init
  <2>6. /\ subscribers \subseteq Clients /\ left \subseteq Clients /\ fetched \subseteq Clients
        /\ reading \subseteq Pollers /\ evicted \subseteq Packets
    BY DEF Init
  <2> QED
    BY <2>1, <2>2, <2>3, <2>4, <2>5, <2>6 DEF TypeOK
<1>4. SendsOpen /\ SendingOnly /\ Progress /\ Fresh /\ Delivered
  BY <1>1 DEF SendsOpen, SendingOnly, Progress, Fresh, Delivered
<1>5. Kept
  <2>1. \A e \in Packets : e[1] \in Requests /\ e[2] \in 1..Stages
    BY DEF Packets
  <2>2. \A e \in Packets : ~Reported(e)
    BY <1>1, <2>1 DEF Init, Reported
  <2> QED
    BY <2>2 DEF Kept
<1> QED
  BY <1>3, <1>4, <1>5 DEF Inv
-------------------------------------------------------------------------------
(* Types, and the order in which a request proceeds.                       *)
LEMMA TypeStep ==
  ASSUME TypeOK, Progress, [Next]_vars
  PROVE  TypeOK' /\ Progress'
<1> USE TelemetryAssumption
    DEF TelemetryAssumption, TypeOK, Progress, Publishers, Goto, RequestPc, ClientPc,
        recordVars, dashboardVars
<1>1. ASSUME NEW r \in Requests, Report(r) \/ Answer(r)
      PROVE  TypeOK' /\ Progress'
  BY <1>1 DEF Report, Answer
<1>2. ASSUME NEW r \in Requests, RecordPacketEvent(r)
      PROVE  TypeOK' /\ Progress'
  <2>1. Event(r) \in Packets
    BY <1>2, EventTyped DEF RecordPacketEvent
  <2>2. /\ packetHistory' \in Seq(Packets) /\ Len(packetHistory') <= maxPacketHistory
        /\ evicted' \subseteq Packets
    BY <1>2, <2>1, HistoryAfterRecord
  <2> QED
    BY <1>2, <2>2 DEF RecordPacketEvent
<1>3. ASSUME NEW p \in Publishers, BeginPublish(p)
      PROVE  TypeOK' /\ Progress'
  BY <1>3 DEF BeginPublish
<1>4. ASSUME NEW p \in Publishers, EndPublish(p)
      PROVE  TypeOK' /\ Progress'
  <2>1. CASE p \in Requests
    BY <1>4, <2>1 DEF EndPublish
  <2>2. CASE p \notin Requests
    BY <1>4, <2>2 DEF EndPublish
  <2> QED
    BY <2>1, <2>2
<1>5. ASSUME NEW p \in Publishers, NEW c \in Clients, Send(p, c)
      PROVE  TypeOK' /\ Progress'
  <2>1. Event(p) \in Packets \cup {Info}
    BY EventTyped
  <2>2. Len(channel[c]) < Buffer =>
          /\ Append(channel[c], Event(p)) \in Seq(Packets \cup {Info})
          /\ Len(Append(channel[c], Event(p))) <= Buffer
    BY <2>1
  <2>3. /\ channel' \in [Clients -> Seq(Packets \cup {Info})]
        /\ \A d \in Clients : Len(channel'[d]) <= Buffer
    BY <1>5, <2>2 DEF Send
  <2>4. settled' \in [Clients -> SUBSET Packets] /\ todo' \in [Publishers -> SUBSET Clients]
    BY <1>5, <2>1 DEF Send
  <2> QED
    BY <1>5, <2>3, <2>4 DEF Send
<1>6. ASSUME NEW c \in Clients,
             Connect(c) \/ Subscribe(c) \/ Notice(c) \/ Unsubscribe(c) \/ Disconnect(c)
      PROVE  TypeOK' /\ Progress'
  BY <1>6 DEF Connect, Subscribe, Notice, Unsubscribe, Disconnect
<1>7. ASSUME NEW c \in Clients, Receive(c)
      PROVE  TypeOK' /\ Progress'
  <2>1. /\ Tail(channel[c]) \in Seq(Packets \cup {Info})
        /\ Len(Tail(channel[c])) <= Buffer
    BY <1>7, RangeOfTail DEF Receive
  <2> QED
    BY <1>7, <2>1 DEF Receive
<1>8. ASSUME NEW c \in Clients, GetPacketHistory(c)
      PROVE  TypeOK' /\ Progress'
  <2>1. Range(packetHistory) \subseteq Packets
    BY DEF Range
  <2> QED
    BY <1>8, <2>1 DEF GetPacketHistory
<1>9. ASSUME NEW m \in Pollers, BeginRead(m) \/ EndRead(m)
      PROVE  TypeOK' /\ Progress'
  BY <1>9 DEF BeginRead, EndRead
<1>10. CASE UNCHANGED vars
  BY <1>10 DEF vars
<1> QED
  BY <1>1, <1>2, <1>3, <1>4, <1>5, <1>6, <1>7, <1>8, <1>9, <1>10
     DEF Next, handleRequest, handleEvents, Publish
-------------------------------------------------------------------------------
(* Who is subscribed, and whom publishers have still to reach.             *)
LEMMA SubscribersStep ==
  ASSUME TypeOK, SendsOpen, SendingOnly, Fresh, [Next]_vars
  PROVE  SendsOpen' /\ SendingOnly' /\ Fresh'
<1> USE TelemetryAssumption
    DEF TelemetryAssumption, TypeOK, SendsOpen, SendingOnly, Fresh, Publishers, Goto,
        RequestPc, ClientPc, recordVars, dashboardVars
<1>1. ASSUME NEW r \in Requests, Report(r) \/ Answer(r) \/ RecordPacketEvent(r)
      PROVE  SendsOpen' /\ SendingOnly' /\ Fresh'
  BY <1>1 DEF Report, Answer, RecordPacketEvent
<1>2. ASSUME NEW p \in Publishers, BeginPublish(p) \/ EndPublish(p)
      PROVE  SendsOpen' /\ SendingOnly' /\ Fresh'
  BY <1>2 DEF BeginPublish, EndPublish
<1>3. ASSUME NEW p \in Publishers, NEW c \in Clients, Send(p, c)
      PROVE  SendsOpen' /\ SendingOnly' /\ Fresh'
  BY <1>3 DEF Send
<1>4. ASSUME NEW c \in Clients, Connect(c) \/ Subscribe(c) \/ Notice(c)
      PROVE  SendsOpen' /\ SendingOnly' /\ Fresh'
  BY <1>4 DEF Connect, Subscribe, Notice
<1>5. ASSUME NEW c \in Clients, Unsubscribe(c)
      PROVE  SendsOpen' /\ SendingOnly' /\ Fresh'
  <2>1. \A p \in Publishers : todo[p] = {}
    BY <1>5 DEF Unsubscribe, Sending
  <2> QED
    BY <1>5, <2>1 DEF Unsubscribe
<1>6. ASSUME NEW c \in Clients, Receive(c) \/ Disconnect(c) \/ GetPacketHistory(c)
      PROVE  SendsOpen' /\ SendingOnly' /\ Fresh'
  BY <1>6 DEF Receive, Disconnect, GetPacketHistory
<1>7. ASSUME NEW m \in Pollers, BeginRead(m) \/ EndRead(m)
      PROVE  SendsOpen' /\ SendingOnly' /\ Fresh'
  BY <1>7 DEF BeginRead, EndRead
<1>8. CASE UNCHANGED vars
  BY <1>8 DEF vars
<1> QED
  BY <1>1, <1>2, <1>3, <1>4, <1>5, <1>6, <1>7, <1>8
     DEF Next, handleRequest, handleEvents, Publish
-------------------------------------------------------------------------------
(* Where reported events are.                                              *)

LEMMA PacketsArePairs ==
  \A e \in Packets : e[1] \in Requests /\ e[2] \in 1..Stages /\ e = <<e[1], e[2]>>
BY DEF Packets

(* Steps that report nothing and move no request leave events where they   *)
(* are, for the dashboards that were subscribed and had the history.       *)
LEMMA ReportsKept ==
  ASSUME Inv, \A r \in Requests : pc'[r] = pc[r] /\ todo'[r] = todo[r],
         UNCHANGED <<stage, recordVars>>,
         subscribers' \cap fetched' \subseteq subscribers \cap fetched,
         \A c \in Clients : settled[c] \subseteq settled'[c]
  PROVE  Kept' /\ Delivered'
<1>1. \A e \in Packets : Reported(e)' = Reported(e) /\ \A c : Pending(c, e)' = Pending(c, e)
  BY PacketsArePairs DEF Reported, Pending
<1>2. Kept'
  BY <1>1 DEF Inv, Kept, recordVars
<1>3. Delivered'
  BY <1>1 DEF Inv, TypeOK, Delivered
<1> QED
  BY <1>2, <1>3

LEMMA ReportsStep ==
  ASSUME Inv, [Next]_vars
  PROVE  Kept' /\ Delivered'
<1> USE TelemetryAssumption DEF TelemetryAssumption
<1>0. /\ Requests \subseteq Publishers /\ Clients \subseteq Publishers
      /\ \A c \in Clients : c \notin Requests
  BY DEF Publishers
<1>1. ASSUME NEW r \in Requests, Report(r) \/ Answer(r)
      PROVE  Kept' /\ Delivered'
  <2>1. /\ pc[r] = "working" /\ pc'[r] \in {"record", "publish", "done"}
        /\ pc'[r] = "publish" => stage[r] > Stages
        /\ \A q \in Requests : q # r => pc'[q] = pc[q]
        /\ UNCHANGED <<stage, todo, packetHistory, evicted, subscribers, fetched, settled>>
    BY <1>0, <1>1 DEF Report, Answer, Goto, recordVars, dashboardVars, Inv, TypeOK
  <2>2. ASSUME NEW e \in Packets
        PROVE  Reported(e)' <=> Reported(e)
    <3>1. e[1] \in Requests /\ e[2] \in 1..Stages /\ stage[e[1]] \in Nat
      BY PacketsArePairs DEF Inv, TypeOK
    <3>2. CASE e[1] = r
      BY <2>1, <3>1, <3>2 DEF Reported
    <3>3. CASE e[1] # r
      BY <2>1, <3>1, <3>3 DEF Reported
    <3> QED
      BY <3>2, <3>3
  <2>3. \A e \in Packets, c \in Clients : Pending(c, e) => Pending(c, e)'
    BY <2>1, PacketsArePairs DEF Pending
  <2> QED
    BY <2>1, <2>2, <2>3 DEF Inv, TypeOK, Kept, Delivered
<1>2. ASSUME NEW r \in Requests, RecordPacketEvent(r)
      PROVE  Kept' /\ Delivered'
  <2>1. /\ pc[r] = "record" /\ pc'[r] = "publish" /\ stage[r] <= Stages
        /\ \A q \in Requests : q # r => pc'[q] = pc[q]
        /\ UNCHANGED <<stage, todo, subscribers, fetched, settled>>
    BY <1>0, <1>2 DEF RecordPacketEvent, Goto, dashboardVars, Inv, TypeOK, Progress
  <2>2. Event(r) \in Packets /\ Event(r) = <<r, stage[r]>>
    BY <1>0, <2>1, EventTyped DEF Inv
  <2>3. \A e \in Packets : Reported(e)' => Reported(e) \/ e = Event(r)
    BY <2>1, <2>2, PacketsArePairs DEF Reported
  <2>4. Kept'
    BY <1>2, <2>2, <2>3, HistoryAfterRecord DEF Inv, Kept
  <2>5. \A e \in Packets, c \in Clients : Pending(c, e) => Pending(c, e)'
    BY <2>1, PacketsArePairs DEF Pending
  <2>6. \A e \in Packets : Reported(e)' => Reported(e) \/ \A c \in Clients : Pending(c, e)'
    BY <2>1, <2>2, <2>3, PacketsArePairs DEF Pending
  <2>7. Delivered'
    BY <2>1, <2>5, <2>6 DEF Inv, TypeOK, Delivered
  <2> QED
    BY <2>4, <2>7
<1>3. ASSUME NEW p \in Publishers, BeginPublish(p)
      PROVE  Kept' /\ Delivered'
  <2>1. /\ pc[p] = "publish" /\ pc'[p] = "sending" /\ todo'[p] = subscribers
        /\ \A q \in Publishers : q # p => pc'[q] = pc[q] /\ todo'[q] = todo[q]
        /\ UNCHANGED <<stage, packetHistory, evicted, subscribers, fetched, settled>>
    BY <1>3 DEF BeginPublish, Goto, recordVars, dashboardVars, Inv, TypeOK
  <2>2. \A e \in Packets : Reported(e)' = Reported(e)
    BY <1>0, <2>1, PacketsArePairs DEF Reported
  <2>3. \A e \in Packets, c \in subscribers : Pending(c, e) => Pending(c, e)'
    BY <1>0, <2>1, PacketsArePairs DEF Pending
  <2> QED
    BY <2>1, <2>2, <2>3 DEF Inv, Kept, Delivered
<1>4. ASSUME NEW p \in Publishers, EndPublish(p)
      PROVE  Kept' /\ Delivered'
  <2>1. /\ pc[p] = "sending" /\ pc'[p] \in {"working", "streaming"} /\ todo[p] = {}
        /\ \A q \in Publishers : q # p => pc'[q] = pc[q]
        /\ \A r \in Requests : stage'[r] = IF r = p THEN stage[r] + 1 ELSE stage[r]
        /\ UNCHANGED <<todo, packetHistory, evicted, subscribers, fetched, settled>>
    BY <1>4 DEF EndPublish, Goto, recordVars, dashboardVars, Inv, TypeOK
  <2>2. ASSUME NEW e \in Packets, Reported(e)'
        PROVE  Reported(e)
    <3>1. e[1] \in Requests /\ e[2] \in Nat /\ stage[e[1]] \in Nat
      BY PacketsArePairs DEF Inv, TypeOK
    <3>2. CASE e[1] = p
      BY <2>1, <2>2, <3>1, <3>2 DEF Reported
    <3>3. CASE e[1] # p
      BY <1>0, <2>1, <2>2, <3>1, <3>3 DEF Reported
    <3> QED
      BY <3>2, <3>3
  <2>3. \A e \in Packets, c \in Clients : Pending(c, e) => Pending(c, e)'
    BY <1>0, <2>1, PacketsArePairs DEF Pending
  <2> QED
    BY <2>1, <2>2, <2>3 DEF Inv, TypeOK, Kept, Delivered
<1>5. ASSUME NEW p \in Publishers, NEW c \in Clients, Send(p, c)
      PROVE  Kept' /\ Delivered'
  <2>1. /\ todo' = [todo EXCEPT ![p] = @ \ {c}]
        /\ settled' = [settled EXCEPT ![c] = @ \cup ({Event(p)} \ {Info})]
        /\ UNCHANGED <<pc, stage, packetHistory, evicted, subscribers, fetched>>
    BY <1>5 DEF Send, recordVars
  <2>2. \A e \in Packets : Reported(e)' = Reported(e)
    BY <2>1 DEF Reported
  <2>3. /\ \A d \in Clients : settled[d] \subseteq settled'[d]
        /\ Event(p) # Info => Event(p) \in settled'[c]
        /\ \A q \in Publishers : \A d \in todo[q] : d \in todo'[q] \/ (q = p /\ d = c)
    BY <2>1 DEF Inv, TypeOK
  <2>4. ASSUME NEW e \in Packets, NEW d \in Clients, Pending(d, e)
        PROVE  Pending(d, e)' \/ e \in settled'[d]
    <3>1. CASE e[1] = p /\ d = c
      <4>1. p \in Requests /\ stage[p] <= Stages /\ e = <<p, stage[p]>>
        BY <2>4, <3>1, PacketsArePairs DEF Pending
      <4>2. Event(p) = e /\ Event(p) # Info
        BY <4>1, EventTyped, PacketIsNotInfo DEF Inv
      <4> QED
        BY <4>2, <3>1, <2>3
    <3>2. CASE ~(e[1] = p /\ d = c)
      BY <1>0, <2>1, <2>3, <2>4, <3>2, PacketsArePairs DEF Pending
    <3> QED
      BY <3>1, <3>2
  <2> QED
    BY <2>1, <2>2, <2>3, <2>4 DEF Inv, TypeOK, Kept, Delivered
<1>6. ASSUME NEW c \in Clients,
             Connect(c) \/ Subscribe(c) \/ Notice(c) \/ Unsubscribe(c)
      PROVE  Kept' /\ Delivered'
  <2>1. /\ \A r \in Requests : pc'[r] = pc[r]
        /\ UNCHANGED <<todo, stage, recordVars, fetched, settled>>
    BY <1>0, <1>6
       DEF Connect, Subscribe, Notice, Unsubscribe, Goto, dashboardVars, Inv, TypeOK
  <2>2. subscribers' \cap fetched' \subseteq subscribers \cap fetched
    BY <1>6, <2>1 DEF Connect, Subscribe, Notice, Unsubscribe, Goto, Inv, Fresh
  <2> QED
    BY <2>1, <2>2, ReportsKept
<1>7. ASSUME NEW c \in Clients, Receive(c) \/ Disconnect(c)
      PROVE  Kept' /\ Delivered'
  BY <1>7, ReportsKept DEF Receive, Disconnect, dashboardVars
<1>8. ASSUME NEW c \in Clients, GetPacketHistory(c)
      PROVE  Kept' /\ Delivered'
  <2>1. /\ settled' = [settled EXCEPT ![c] = @ \cup evicted \cup Range(packetHistory)]
        /\ fetched' = fetched \cup {c}
        /\ UNCHANGED <<pc, stage, todo, packetHistory, evicted, subscribers>>
    BY <1>8 DEF GetPacketHistory, recordVars
  <2>2. \A e \in Packets : Reported(e)' = Reported(e) /\ \A d : Pending(d, e)' = Pending(d, e)
    BY <2>1 DEF Reported, Pending
  <2>3. \A e \in Packets : Reported(e) => e \in settled'[c]
    BY <2>1 DEF Inv, TypeOK, Kept
  <2> QED
    BY <2>1, <2>2, <2>3 DEF Inv, TypeOK, Kept, Delivered
<1>9. ASSUME NEW m \in Pollers, BeginRead(m) \/ EndRead(m)
      PROVE  Kept' /\ Delivered'
  BY <1>9, ReportsKept DEF BeginRead, EndRead, dashboardVars
<1>10. CASE UNCHANGED vars
  BY <1>10, ReportsKept DEF vars, dashboardVars
<1> QED
  BY <1>0, <1>1, <1>2, <1>3, <1>4, <1>5, <1>6, <1>7, <1>8, <1>9, <1>10
     DEF Next, handleRequest, handleEvents, Publish
-------------------------------------------------------------------------------
LEMMA Invariance == Spec => []Inv
<1>1. Inv /\ [Next]_vars => Inv'
  BY TypeStep, SubscribersStep, ReportsStep DEF Inv
<1> QED
  BY InitInv, <1>1, PTL DEF Spec

(* The history and every channel keep to their capacity, and hold nothing  *)
(* but events.                                                             *)
THEOREM TypeCorrect == Spec => []TypeOK
<1>1. Inv => TypeOK
  BY DEF Inv
<1> QED
  BY <1>1, Invariance, PTL

(* For any number of requests and dashboards, no publisher has a client    *)
(* left to send to whose channel is closed.                                *)
THEOREM NoSendOnClosed == Spec => []SendsOpen
<1>1. Inv => SendsOpen
  BY DEF Inv
<1> QED
  BY <1>1, Invariance, PTL

(* For any history and any channel capacity, a dashboard that subscribed   *)
(* and then loaded the history has missed no event but for a full channel. *)
THEOREM NothingMissed == Spec => []NoGap
<1>1. Inv => NoGap
  BY PacketsArePairs DEF Inv, TypeOK, Delivered, NoGap, Reported, Pending
<1> QED
  BY <1>1, Invariance, PTL

===============================================================================
