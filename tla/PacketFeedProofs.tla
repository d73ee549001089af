---------------------------- MODULE PacketFeedProofs ----------------------------
(***************************************************************************)
(* Theorems about PacketFeed, for any components, limits, packets, faults  *)
(* and mounts.  They rest on the module having one stream at a time, and   *)
(* on a stream carrying packets that are no older than any packet shown.   *)
(***************************************************************************)
EXTENDS PacketFeed, SequenceTheorems, DataTheorems

StreamRecords == [st : {"closed", "connecting", "open"}, queue : Seq(Packets)]
HistoryRecords == [st : {"none", "asked", "answered"}, list : Seq(Packets)]

(* The functions TypeOK speaks of, with their domains.                     *)
Shape ==
  /\ streams \in [Ids -> StreamRecords]
  /\ events \in [Feeds -> Seq(Packets)]
  /\ history \in [Feeds -> HistoryRecords]
  /\ particles \in [Feeds -> Nat]

(* Only the stream the module refers to may be live.                       *)
OneStream == \A i \in Ids : i # eventSource => streams[i].st = "closed"

(* A stream carries packets in order, none older than one that is shown.   *)
Ordered ==
  \A i \in Ids : \A k \in 1..Len(streams[i].queue) :
    /\ streams[i].queue[k] <= published
    /\ \A f \in Feeds : latest[f] <= streams[i].queue[k]
    /\ \A j \in 1..k : streams[i].queue[j] <= streams[i].queue[k]

(* The animation lags the latest packet, and has no particle of its own.   *)
Lagging ==
  /\ timers <= faults
  /\ \A f \in Feeds : /\ particles[f] <= drawn[f]
                      /\ drawn[f] <= latest[f]
                      /\ latest[f] <= published

Inv == TypeOK /\ Shape /\ OneStream /\ Ordered /\ Lagging

(* What a step leaves of a stream: all its packets, or none.               *)
Kept == \A i \in Ids : streams'[i].queue = streams[i].queue \/ streams'[i].queue = <<>>

(* The part of Inv about streams.                                          *)
Linked ==
  /\ streams \in [Ids -> StreamRecords]
  /\ eventSource \in Ids \cup {None}
  /\ \A i \in Ids : streams[i].st # "open" => streams[i].queue = <<>>
  /\ OneStream
-------------------------------------------------------------------------------
LEMMA LinkedInv == Inv => Linked
BY DEF Inv, Linked, Shape, TypeOK

LEMMA ClosedTyped ==
  /\ Closed \in StreamRecords /\ Closed.st = "closed" /\ Closed.queue = <<>>
  /\ [Closed EXCEPT !.st = "connecting"] \in StreamRecords
  /\ [Closed EXCEPT !.st = "connecting"].st = "connecting"
  /\ [Closed EXCEPT !.st = "connecting"].queue = <<>>
  /\ Asked \in HistoryRecords /\ Asked.list = <<>> /\ Asked.st = "asked"
  /\ Nothing \in HistoryRecords /\ Nothing.list = <<>> /\ Nothing.st = "none"
<1>1. <<>> \in Seq(Packets)
  OBVIOUS
<1> QED
  BY <1>1 DEF Closed, Asked, Nothing, StreamRecords, HistoryRecords

(* startEventSource opens a stream only when there is none.                *)
LEMMA Started ==
  ASSUME Linked, startEventSource
  PROVE  Linked' /\ Kept
<1>1. CASE eventSource # None
  BY <1>1 DEF startEventSource, Linked, OneStream, Kept
<1>2. CASE eventSource = None
  <2> DEFINE i == CHOOSE j \in Ids : j \notin Live
  <2>1. Live = {} /\ 1 \in Ids
    BY <1>2 DEF Linked, OneStream, Live, Ids, None
  <2>2. i \in Ids /\ streams[i].st = "closed"
    BY <1>2, <2>1 DEF Linked, OneStream, Ids, None
  <2>3. streams' = [streams EXCEPT ![i].st = "connecting"] /\ eventSource' = i
    BY <1>2 DEF startEventSource
  <2> HIDE DEF i
  <2>4. /\ streams' \in [Ids -> StreamRecords]
        /\ \A j \in Ids : streams'[j].queue = streams[j].queue
        /\ \A j \in Ids : j # i => streams'[j] = streams[j]
        /\ streams'[i].st = "connecting"
    BY <2>2, <2>3 DEF Linked, StreamRecords
  <2>5. \A j \in Ids : streams[j].st = "closed" /\ streams[j].queue = <<>>
    BY <1>2, <2>1 DEF Linked, OneStream, Live
  <2> QED
    BY <2>2, <2>3, <2>4, <2>5 DEF Linked, OneStream, Kept
<1> QED
  BY <1>1, <1>2

(* A stream that is closed carries nothing any more.                       *)
LEMMA ClosedNow ==
  ASSUME Linked, eventSource # None, Close(eventSource), eventSource' = None
  PROVE  Linked' /\ Kept /\ \A i \in Ids : streams'[i] = Closed
<1>1. \A i \in Ids : streams[i].st = "closed" => streams[i] = Closed
  BY DEF Linked, StreamRecords, Closed
<1>2. /\ streams' \in [Ids -> StreamRecords]
      /\ \A i \in Ids : streams'[i] = IF i = eventSource THEN Closed ELSE streams[i]
  BY ClosedTyped DEF Linked, Close
<1>3. \A i \in Ids : streams'[i] = Closed
  BY <1>1, <1>2 DEF Linked, OneStream
<1> QED
  BY <1>2, <1>3, ClosedTyped DEF Linked, OneStream, Kept

(* The last component that leaves closes whatever stream there is.         *)
LEMMA Stopped ==
  ASSUME Linked, NEW rest, stopEventSource(rest)
  PROVE  Linked' /\ Kept /\ (rest = {} => \A i \in Ids : streams'[i] = Closed)
<1>1. CASE eventSource # None /\ rest = {}
  BY <1>1, ClosedNow DEF stopEventSource
<1>2. CASE ~(eventSource # None /\ rest = {})
  <2>1. UNCHANGED <<streams, eventSource>>
    BY <1>2 DEF stopEventSource
  <2>2. eventSource = None => \A i \in Ids : streams[i] = Closed
    BY DEF Linked, OneStream, StreamRecords, Closed, Ids, None
  <2> QED
    BY <1>2, <2>1, <2>2 DEF Linked, OneStream, Kept
<1> QED
  BY <1>1, <1>2
-------------------------------------------------------------------------------
LEMMA InitInv == Init => Inv
<1> SUFFICES ASSUME Init PROVE Inv
  OBVIOUS
<1> USE FeedAssumption DEF FeedAssumption, Init
<1>1. Shape
  BY ClosedTyped DEF Shape
<1>2. TypeOK
  <2>1. \A i \in Ids : /\ streams[i].st \in {"closed", "connecting", "open"}
                       /\ streams[i].queue \in Seq(Packets) /\ streams[i].queue = <<>>
    BY ClosedTyped DEF StreamRecords
  <2>2. eventSource \in Ids \cup {None}
    BY DEF Ids
  <2>3. \A f \in Feeds : /\ events[f] \in Seq(Packets) /\ Len(events[f]) <= Limit[f]
                         /\ history[f].st \in {"none", "asked", "answered"}
                         /\ Len(history[f].list) <= Limit[f]
    BY ClosedTyped
  <2> QED
    BY <2>1, <2>2, <2>3 DEF TypeOK
<1>3. OneStream /\ Ordered /\ Lagging
  BY ClosedTyped DEF OneStream, Ordered, Lagging
<1> QED
  BY <1>1, <1>2, <1>3 DEF Inv
-------------------------------------------------------------------------------
(* Streams.                                                                *)
LEMMA LinkedStep ==
  ASSUME Inv, [Next]_vars
  PROVE  Linked'
<1>0. Linked /\ published' \in Packets \cup {published}
  <2>1. published \in 0..MaxPackets
    BY DEF Inv, TypeOK
  <2>2. published' = published \/ (published' = published + 1 /\ published < MaxPackets)
    BY DEF Next, vars, Publish, Retry, Opens, Breaks, Deliver, Mount, Unmount, getPackets,
       HistoryReturns, HistoryFails, Draw, Fade
  <2> QED
    BY <2>1, <2>2, LinkedInv, FeedAssumption DEF FeedAssumption, Packets
<1>1. CASE UNCHANGED link
  BY <1>0, <1>1 DEF Linked, OneStream, link
<1>2. CASE Publish
  <2>1. published' \in Packets
    BY <1>2, FeedAssumption DEF Publish, FeedAssumption, Inv, TypeOK, Packets
  <2>2. \A i \in Ids : /\ streams'[i] \in StreamRecords
                       /\ streams'[i].st = streams[i].st
                       /\ streams[i].st # "open" => streams'[i] = streams[i]
    <3>1. ASSUME NEW i \in Ids
          PROVE  [streams[i] EXCEPT !.queue = Append(@, published')] \in StreamRecords
      <4>1. streams[i] \in StreamRecords /\ streams[i].queue \in Seq(Packets)
        BY <1>0 DEF Linked, StreamRecords
      <4>2. Append(streams[i].queue, published') \in Seq(Packets)
        BY <2>1, <4>1, AppendProperties
      <4> QED
        BY <4>1, <4>2 DEF StreamRecords
    <3> QED
      BY <1>0, <1>2, <3>1 DEF Publish, Linked, StreamRecords
  <2>3. streams' \in [Ids -> StreamRecords] /\ eventSource' = eventSource
    BY <1>2, <2>2 DEF Publish
  <2> QED
    BY <1>0, <2>2, <2>3 DEF Linked, OneStream
<1>3. ASSUME NEW i \in Ids, Opens(i)
      PROVE  Linked'
  <2>1. i = eventSource
    BY <1>0, <1>3 DEF Opens, Linked, OneStream
  <2> QED
    BY <1>0, <1>3, <2>1 DEF Opens, Linked, OneStream, StreamRecords
<1>4. ASSUME NEW i \in Ids, Breaks(i)
      PROVE  Linked'
  <2>1. CASE eventSource # None
    BY <1>0, <1>4, <2>1, ClosedNow DEF Breaks
  <2>2. CASE eventSource = None
    BY <1>0, <1>4, <2>2 DEF Breaks, Linked, OneStream
  <2> QED
    BY <2>1, <2>2
<1>5. ASSUME NEW i \in Ids, Deliver(i)
      PROVE  Linked'
  <2>1. /\ streams' = [streams EXCEPT ![i].queue = Tail(@)] /\ eventSource' = eventSource
        /\ streams[i].queue # <<>>
    BY <1>5 DEF Deliver
  <2>2. Tail(streams[i].queue) \in Seq(Packets)
    BY <1>0, <2>1, HeadTailProperties DEF Linked, StreamRecords
  <2> QED
    BY <1>0, <2>1, <2>2 DEF Linked, OneStream, StreamRecords
<1>6. CASE Retry \/ \E f \in Feeds : Mount(f)
  BY <1>0, <1>6, Started DEF Retry, Mount
<1>7. ASSUME NEW f \in Feeds, Unmount(f)
      PROVE  Linked'
  BY <1>0, <1>7, Stopped DEF Unmount
<1>8. CASE UNCHANGED vars
  BY <1>1, <1>8 DEF vars
<1>9. ASSUME NEW f \in Feeds,
             getPackets(f) \/ HistoryReturns(f) \/ HistoryFails(f) \/ Draw(f) \/ Fade(f)
      PROVE  Linked'
  BY <1>1, <1>9 DEF getPackets, HistoryReturns, HistoryFails, Draw, Fade, link
<1> QED
  BY <1>2, <1>3, <1>4, <1>5, <1>6, <1>7, <1>8, <1>9 DEF Next
-------------------------------------------------------------------------------
(* Order.  A step that reports no packet and shows none keeps it.          *)
LEMMA OrderKept ==
  ASSUME Inv, Kept, published' = published,
         \A f \in Feeds : latest'[f] \in {latest[f], 0}
  PROVE  Ordered'
<1>1. \A i \in Ids : /\ streams[i].queue \in Seq(Packets)
                     /\ Len(streams[i].queue) \in Nat
                     /\ \A k \in 1..Len(streams[i].queue) : streams[i].queue[k] \in Packets
  BY DEF Inv, Shape, StreamRecords
<1>2. ASSUME NEW i \in Ids, NEW k \in 1..Len(streams'[i].queue)
      PROVE  /\ streams'[i].queue[k] <= published'
             /\ \A f \in Feeds : latest'[f] <= streams'[i].queue[k]
             /\ \A j \in 1..k : streams'[i].queue[j] <= streams'[i].queue[k]
  <2>1. streams'[i].queue = streams[i].queue
    BY <1>2 DEF Kept
  <2>2. streams[i].queue[k] \in Packets /\ \A p \in Packets : 0 <= p
    BY <1>1, <1>2, <2>1, FeedAssumption DEF FeedAssumption, Packets
  <2> QED
    BY <1>2, <2>1, <2>2 DEF Inv, Ordered
<1> QED
  BY <1>2 DEF Ordered

LEMMA OrderedStep ==
  ASSUME Inv, [Next]_vars
  PROVE  Ordered'
<1>0. Linked
  BY LinkedInv
<1>1. CASE UNCHANGED <<streams, published, latest>>
  BY <1>1, OrderKept DEF Kept
<1>2. CASE Publish
  <2>1. /\ published' = published + 1 /\ published \in Nat /\ latest' = latest
        /\ published' \in Packets
    BY <1>2, FeedAssumption DEF Publish, view, Inv, TypeOK, FeedAssumption, Packets
  <2>2. \A f \in Feeds : latest[f] \in Nat /\ latest[f] <= published
    BY FeedAssumption DEF Inv, TypeOK, Lagging, FeedAssumption, Packets
  <2>3. ASSUME NEW i \in Ids, NEW k \in 1..Len(streams'[i].queue)
        PROVE  /\ streams'[i].queue[k] <= published'
               /\ \A f \in Feeds : latest'[f] <= streams'[i].queue[k]
               /\ \A j \in 1..k : streams'[i].queue[j] <= streams'[i].queue[k]
    <3> DEFINE q == streams[i].queue
    <3>1. q \in Seq(Packets) /\ Len(q) \in Nat /\ \A n \in 1..Len(q) : q[n] \in Nat
      BY <1>0, FeedAssumption DEF Linked, StreamRecords, FeedAssumption, Packets
    <3>2. \A n \in 1..Len(q) : /\ q[n] <= published
                               /\ \A f \in Feeds : latest[f] <= q[n]
                               /\ \A j \in 1..n : q[j] <= q[n]
      BY DEF Inv, Ordered
    <3>3. CASE streams'[i].queue = q
      BY <2>1, <2>3, <3>1, <3>2, <3>3
    <3>4. CASE streams'[i].queue = Append(q, published')
      <4>1. /\ Len(streams'[i].queue) = Len(q) + 1
            /\ \A n \in 1..Len(q) : streams'[i].queue[n] = q[n]
            /\ streams'[i].queue[Len(q) + 1] = published'
        BY <2>1, <3>1, <3>4, AppendProperties
      <4> HIDE DEF q
      <4>2. CASE k = Len(q) + 1
        BY <2>1, <2>2, <3>1, <3>2, <4>1, <4>2
      <4>3. CASE k \in 1..Len(q)
        BY <2>1, <3>1, <3>2, <4>1, <4>3
      <4> QED
        BY <2>3, <3>1, <4>1, <4>2, <4>3
    <3>5. streams'[i].queue \in {q, Append(q, published')}
      BY <1>0, <1>2 DEF Publish, Linked, StreamRecords
    <3> QED
      BY <3>3, <3>4, <3>5
  <2> QED
    BY <2>3 DEF Ordered
<1>3. ASSUME NEW i \in Ids, Opens(i)
      PROVE  Ordered'
  <2>1. Kept
    BY <1>0, <1>3 DEF Opens, Linked, StreamRecords, Kept
  <2> QED
    BY <1>3, <2>1, OrderKept DEF Opens, view
<1>4. ASSUME NEW i \in Ids, Breaks(i)
      PROVE  Ordered'
  <2>1. Kept
    BY <1>0, <1>4, ClosedNow DEF Breaks, Kept
  <2> QED
    BY <1>4, <2>1, OrderKept DEF Breaks, view
<1>5. ASSUME NEW i \in Ids, Deliver(i)
      PROVE  Ordered'
  <2> DEFINE q == streams[i].queue
  <2>1. /\ q # <<>> /\ q \in Seq(Packets)
        /\ Len(q) \in Nat /\ \A n \in 1..Len(q) : q[n] \in Nat
    BY <1>0, <1>5, FeedAssumption
    DEF Deliver, Linked, StreamRecords, FeedAssumption, Packets
  <2>2. /\ Len(q) >= 1 /\ Head(q) = q[1] /\ Len(Tail(q)) = Len(q) - 1
        /\ \A n \in 1..(Len(q) - 1) : Tail(q)[n] = q[n + 1]
    BY <2>1, HeadTailProperties
  <2>3. \A n \in 1..Len(q) : /\ q[n] <= published
                             /\ \A f \in Feeds : latest[f] <= q[n]
                             /\ \A j \in 1..n : q[j] <= q[n]
    BY DEF Inv, Ordered
  <2>4. /\ streams'[i].queue = Tail(q) /\ published' = published
        /\ \A j \in Ids : j # i => streams'[j] = streams[j]
        /\ \A f \in Feeds : latest'[f] \in {q[1], latest[f]}
    BY <1>0, <1>5, <2>2 DEF Deliver, Linked, StreamRecords
  <2>5. \A j \in Ids : j # i => streams[j].queue = <<>>
    <3>1. i = eventSource
      BY <1>0, <2>1 DEF Linked, OneStream
    <3> QED
      BY <1>0, <3>1 DEF Linked, OneStream
  <2> HIDE DEF q
  <2>6. ASSUME NEW k \in 1..Len(Tail(q))
        PROVE  /\ Tail(q)[k] <= published'
               /\ \A f \in Feeds : latest'[f] <= Tail(q)[k]
               /\ \A j \in 1..k : Tail(q)[j] <= Tail(q)[k]
    <3>1. k + 1 \in 1..Len(q) /\ Tail(q)[k] = q[k + 1] /\ 1 \in 1..(k + 1)
      BY <2>1, <2>2
    <3>2. q[1] <= q[k + 1] /\ \A f \in Feeds : latest[f] <= q[k + 1]
      BY <2>3, <3>1
    <3>3. \A j \in 1..k : j + 1 \in 1..(k + 1) /\ Tail(q)[j] = q[j + 1]
      BY <2>1, <2>2
    <3> QED
      BY <2>3, <2>4, <3>1, <3>2, <3>3
  <2>7. \A j \in Ids : j # i => Len(streams'[j].queue) = 0
    BY <2>4, <2>5
  <2>8. \A j \in Ids : \A k \in 1..Len(streams'[j].queue) : j = i
    BY <2>7
  <2> QED
    BY <2>4, <2>6, <2>8 DEF Ordered
<1>6. CASE Retry \/ \E f \in Feeds : Mount(f)
  BY <1>0, <1>6, Started, OrderKept DEF Retry, Mount, view
<1>7. ASSUME NEW f \in Feeds, Unmount(f)
      PROVE  Ordered'
  <2>1. Kept /\ published' = published
    BY <1>0, <1>7, Stopped DEF Unmount
  <2>2. \A g \in Feeds : latest'[g] \in {latest[g], 0}
    BY <1>7 DEF Unmount, Inv, TypeOK
  <2> QED
    BY <2>1, <2>2, OrderKept
<1>8. CASE UNCHANGED vars
  BY <1>1, <1>8 DEF vars, link, view
<1>9. ASSUME NEW f \in Feeds,
             getPackets(f) \/ HistoryReturns(f) \/ HistoryFails(f) \/ Draw(f) \/ Fade(f)
      PROVE  Ordered'
  BY <1>1, <1>9 DEF getPackets, HistoryReturns, HistoryFails, Draw, Fade, link, view
<1> QED
  BY <1>2, <1>3, <1>4, <1>5, <1>6, <1>7, <1>8, <1>9 DEF Next
-------------------------------------------------------------------------------
(* The animation.                                                          *)
LEMMA LaggingStep ==
  ASSUME Inv, [Next]_vars
  PROVE  Lagging'
<1>0. /\ published \in Nat /\ timers \in Nat /\ faults \in Nat /\ Lagging
      /\ latest \in [Feeds -> Nat] /\ drawn \in [Feeds -> Nat] /\ particles \in [Feeds -> Nat]
  BY FeedAssumption DEF FeedAssumption, Inv, TypeOK, Shape, Packets
<1>1. CASE UNCHANGED <<published, timers, faults, latest, drawn, particles>>
  BY <1>0, <1>1 DEF Lagging
<1>2. CASE Publish
  BY <1>0, <1>2 DEF Publish, Lagging, view
<1>3. CASE Retry
  BY <1>0, <1>3 DEF Retry, Lagging, view
<1>4. ASSUME NEW i \in Ids, Breaks(i)
      PROVE  Lagging'
  BY <1>0, <1>4 DEF Breaks, Lagging, view
<1>5. ASSUME NEW i \in Ids, Deliver(i)
      PROVE  Lagging'
  <2> DEFINE p == Head(streams[i].queue)
  <2>1. p = streams[i].queue[1] /\ 1 \in 1..Len(streams[i].queue) /\ p \in Packets
    BY <1>5, HeadTailProperties DEF Deliver, Inv, Shape, StreamRecords
  <2>2. p <= published /\ p \in Nat /\ \A f \in Feeds : latest[f] <= p
    BY <2>1, FeedAssumption DEF Inv, Ordered, FeedAssumption, Packets
  <2>3. /\ UNCHANGED <<published, timers, faults, drawn, particles>>
        /\ \A f \in Feeds : latest'[f] \in {p, latest[f]}
    BY <1>5 DEF Deliver
  <2> HIDE DEF p
  <2> QED
    BY <1>0, <2>2, <2>3 DEF Lagging
<1>6. ASSUME NEW f \in Feeds, Unmount(f)
      PROVE  Lagging'
  BY <1>0, <1>6 DEF Unmount, Lagging
<1>7. ASSUME NEW f \in Feeds, Draw(f)
      PROVE  Lagging'
  <2>1. latest[f] >= drawn[f] + 1 /\ drawn'[f] = latest[f]
    BY <1>0, <1>7 DEF Draw, Lagging
  <2>2. particles'[f] \in {particles[f], particles[f] + 1}
    BY <1>0, <1>7 DEF Draw
  <2>3. /\ \A g \in Feeds : g # f => particles'[g] = particles[g] /\ drawn'[g] = drawn[g]
        /\ UNCHANGED <<published, timers, faults, latest>>
    BY <1>0, <1>7 DEF Draw, link
  <2> QED
    BY <1>0, <2>1, <2>2, <2>3 DEF Lagging
<1>8. ASSUME NEW f \in Feeds, Fade(f)
      PROVE  Lagging'
  BY <1>0, <1>8 DEF Fade, Lagging, link
<1>9. ASSUME NEW f \in Feeds, HistoryFails(f)
      PROVE  Lagging'
  BY <1>0, <1>9 DEF HistoryFails, Lagging, link, view
<1>10. CASE \/ UNCHANGED vars \/ \E i \in Ids : Opens(i)
            \/ \E f \in Feeds : Mount(f) \/ getPackets(f) \/ HistoryReturns(f)
  BY <1>1, <1>10 DEF vars, Opens, Mount, getPackets, HistoryReturns, link, view
<1> QED
  BY <1>2, <1>3, <1>4, <1>5, <1>6, <1>7, <1>8, <1>9, <1>10 DEF Next
-------------------------------------------------------------------------------
(* Lists.  A packet that is added to a list pushes out the first when the  *)
(* list is full.                                                           *)
LEMMA AppendToBounded ==
  ASSUME NEW s \in Seq(Packets), NEW p \in Packets, NEW n \in Nat, Len(s) <= n
  PROVE  AppendTo(s, p, n) \in Seq(Packets) /\ Len(AppendTo(s, p, n)) <= n
<1>1. Append(s, p) \in Seq(Packets) /\ Len(Append(s, p)) = Len(s) + 1 /\ Len(s) \in Nat
  BY AppendProperties
<1>2. /\ Append(s, p) # <<>> /\ Tail(Append(s, p)) \in Seq(Packets)
      /\ Len(Tail(Append(s, p))) = Len(s)
  BY <1>1, HeadTailProperties, EmptySeq
<1> QED
  BY <1>1, <1>2 DEF AppendTo

ListsTyped ==
  /\ events \in [Feeds -> Seq(Packets)]
  /\ history \in [Feeds -> HistoryRecords]
  /\ \A f \in Feeds : Len(events[f]) <= Limit[f] /\ Len(history[f].list) <= Limit[f]

LEMMA ListsStep ==
  ASSUME Inv, [Next]_vars
  PROVE  ListsTyped'
<1> USE FeedAssumption DEF FeedAssumption
<1>0. ListsTyped /\ published \in 0..MaxPackets
  BY DEF Inv, TypeOK, Shape, ListsTyped
<1>1. CASE UNCHANGED <<events, history>>
  BY <1>0, <1>1 DEF ListsTyped
<1>2. Len(<<>>) = 0 /\ <<>> \in Seq(Packets)
  OBVIOUS
<1>3. ASSUME NEW f \in Feeds, Mount(f)
      PROVE  ListsTyped'
  BY <1>0, <1>2, <1>3, ClosedTyped DEF Mount, view, ListsTyped
<1>4. ASSUME NEW f \in Feeds, Unmount(f)
      PROVE  ListsTyped'
  BY <1>0, <1>2, <1>4, ClosedTyped DEF Unmount, ListsTyped
<1>5. ASSUME NEW i \in Ids, Deliver(i)
      PROVE  ListsTyped'
  <2>1. Head(streams[i].queue) \in Packets
    BY <1>5, HeadTailProperties DEF Deliver, Inv, Shape, StreamRecords
  <2>2. \A f \in Feeds : LET l == AppendTo(events[f], Head(streams[i].queue), Limit[f])
                         IN  l \in Seq(Packets) /\ Len(l) <= Limit[f]
    BY <1>0, <2>1, AppendToBounded DEF ListsTyped
  <2>3. events' = [f \in Feeds |->
                     IF f \in subscribers
                     THEN AppendTo(events[f], Head(streams[i].queue), Limit[f])
                     ELSE events[f]]
        /\ history' = history
    BY <1>5 DEF Deliver, page
  <2> QED
    BY <1>0, <2>2, <2>3 DEF ListsTyped
<1>6. ASSUME NEW f \in Feeds, getPackets(f)
      PROVE  ListsTyped'
  <2> DEFINE n == IF published < Limit[f] THEN published ELSE Limit[f]
             l == [k \in 1..n |-> published - n + k]
  <2>1. n \in Nat /\ n <= Limit[f] /\ n <= published
    BY <1>0
  <2>2. \A k \in 1..n : published - n + k \in Packets
    BY <1>0, <2>1 DEF Packets
  <2>3. l \in Seq(Packets) /\ Len(l) = n
    <3>1. l \in [1..n -> Packets]
      BY <2>2
    <3> HIDE DEF l, n
    <3> QED
      BY <2>1, <3>1
  <2>4. history' = [history EXCEPT ![f] = Answered(l)] /\ events' = events
    BY <1>6 DEF getPackets, view
  <2> HIDE DEF l, n
  <2>5. Answered(l) \in HistoryRecords /\ Answered(l).list = l
    BY <2>3 DEF Answered, HistoryRecords
  <2> QED
    BY <1>0, <2>1, <2>3, <2>4, <2>5 DEF ListsTyped
<1>7. ASSUME NEW f \in Feeds, HistoryReturns(f)
      PROVE  ListsTyped'
  BY <1>0, <1>2, <1>7, ClosedTyped DEF HistoryReturns, ListsTyped, HistoryRecords
<1>8. ASSUME NEW f \in Feeds, HistoryFails(f)
      PROVE  ListsTyped'
  BY <1>0, <1>2, <1>8, ClosedTyped DEF HistoryFails, ListsTyped, view
<1>9. CASE \/ Publish \/ Retry \/ UNCHANGED vars \/ \E i \in Ids : Opens(i) \/ Breaks(i)
           \/ \E f \in Feeds : Draw(f) \/ Fade(f)
  BY <1>1, <1>9 DEF Publish, Retry, vars, Opens, Breaks, Draw, Fade, page, view
<1> QED
  BY <1>3, <1>4, <1>5, <1>6, <1>7, <1>8, <1>9 DEF Next
-------------------------------------------------------------------------------
(* Counters and marks.                                                     *)
CountersTyped ==
  /\ published \in 0..MaxPackets
  /\ timers \in Nat
  /\ subscribers \subseteq Feeds
  /\ latest \in [Feeds -> Packets \cup {0}] /\ drawn \in [Feeds -> Packets \cup {0}]
  /\ particles \in [Feeds -> Nat]
  /\ mounts \in 0..MaxMounts /\ faults \in 0..MaxFaults
  /\ owed \in [Feeds -> Packets \cup {0}]

LEMMA CountersStep ==
  ASSUME Inv, [Next]_vars
  PROVE  CountersTyped'
<1> USE FeedAssumption DEF FeedAssumption
<1>0. CountersTyped
  BY DEF Inv, TypeOK, Shape, CountersTyped
<1>1. CASE Publish
  <2>1. published' \in 0..MaxPackets /\ published' \in Packets
    BY <1>0, <1>1 DEF Publish, CountersTyped, Packets
  <2>2. owed' \in [Feeds -> Packets \cup {0}]
    BY <1>0, <1>1, <2>1 DEF Publish, CountersTyped
  <2> QED
    BY <1>0, <1>1, <2>1, <2>2 DEF Publish, CountersTyped, page, view
<1>2. CASE Retry
  BY <1>0, <1>2 DEF Retry, CountersTyped, page, view
<1>3. ASSUME NEW i \in Ids, Opens(i) \/ Breaks(i)
      PROVE  CountersTyped'
  BY <1>0, <1>3 DEF Opens, Breaks, Forget, CountersTyped, page, view
<1>4. ASSUME NEW i \in Ids, Deliver(i)
      PROVE  CountersTyped'
  <2>1. Head(streams[i].queue) \in Packets
    BY <1>4, HeadTailProperties DEF Deliver, Inv, Shape, StreamRecords
  <2>2. latest' \in [Feeds -> Packets \cup {0}]
    BY <1>0, <1>4, <2>1 DEF Deliver, CountersTyped
  <2> QED
    BY <1>0, <1>4, <2>2 DEF Deliver, CountersTyped, page
<1>5. ASSUME NEW f \in Feeds, Mount(f)
      PROVE  CountersTyped'
  BY <1>0, <1>5 DEF Mount, CountersTyped, view
<1>6. ASSUME NEW f \in Feeds, Unmount(f)
      PROVE  CountersTyped'
  BY <1>0, <1>6 DEF Unmount, CountersTyped
<1>7. ASSUME NEW f \in Feeds, getPackets(f) \/ HistoryFails(f)
      PROVE  CountersTyped'
  BY <1>0, <1>7 DEF getPackets, HistoryFails, CountersTyped, link, view
<1>8. ASSUME NEW f \in Feeds, HistoryReturns(f)
       PROVE  CountersTyped'
  <2>1. owed' \in [Feeds -> Packets \cup {0}]
    <3>1. \A g \in Feeds : owed'[g] \in {owed[g], 0}
      BY <1>0, <1>8 DEF HistoryReturns, CountersTyped
    <3>2. DOMAIN owed' = Feeds /\ owed' = [g \in Feeds |-> owed'[g]]
      BY <1>0, <1>8 DEF HistoryReturns, CountersTyped
    <3> QED
      BY <1>0, <3>1, <3>2 DEF CountersTyped
  <2> QED
    BY <1>0, <1>8, <2>1 DEF HistoryReturns, CountersTyped, link
<1>9. ASSUME NEW f \in Feeds, Draw(f) \/ Fade(f)
      PROVE  CountersTyped'
  <2>1. drawn' \in [Feeds -> Packets \cup {0}] /\ particles' \in [Feeds -> Nat]
    BY <1>0, <1>9 DEF Draw, Fade, CountersTyped
  <2> QED
    BY <1>0, <1>9, <2>1 DEF Draw, Fade, CountersTyped, link, page
<1>10. CASE UNCHANGED vars
  BY <1>0, <1>10 DEF vars, CountersTyped, link, page, view
<1> QED
  BY <1>1, <1>2, <1>3, <1>4, <1>5, <1>6, <1>7, <1>8, <1>9, <1>10 DEF Next
-------------------------------------------------------------------------------
(* The rows of a list (groupEvents).                                       *)
LEMMA MaxIndex ==
  ASSUME NEW n \in Nat, NEW S \in SUBSET (1..n), S # {}
  PROVE  Max(S) \in S /\ \A y \in S : y <= Max(S)
<1> DEFINE below == {n - k : k \in S}
<1>0. \A k \in S : k \in Nat /\ n - k \in Nat
  OBVIOUS
<1>1. below \in SUBSET Nat /\ below # {}
  BY <1>0
<1>2. PICK b \in below : \A m \in below : b <= m
  <2> HIDE DEF below
  <2> QED
    BY <1>1, LeastNat
<1>3. PICK x \in S : b = n - x
  BY <1>2
<1>4. ASSUME NEW y \in S
      PROVE  x >= y
  <2>1. n - x <= n - y
    BY <1>2, <1>3
  <2> QED
    BY <1>0, <2>1
<1> QED
  BY <1>3, <1>4 DEF Max

(* A row shows its request's packets; it is dated by the last of them.     *)
LEMMA RowFacts ==
  ASSUME NEW l \in Seq(Packets), NEW k \in DOMAIN l, NEW r, r = Row(RequestOf[l[k]], l)
  PROVE  /\ r.id = RequestOf[l[k]]
         /\ r.priority = PriorityOf[r.id] /\ r.priority \in Nat
         /\ l[k] \in r.attempts
         /\ \E j \in DOMAIN l : r.lastUpdated = l[j] /\ RequestOf[l[j]] = r.id
         /\ k = Len(l) => r.lastUpdated = l[k]
<1> DEFINE own == {j \in DOMAIN l : RequestOf[l[j]] = RequestOf[l[k]]}
<1>1. DOMAIN l = 1..Len(l) /\ Len(l) \in Nat /\ l[k] \in Packets
  OBVIOUS
<1>2. Max(own) \in own /\ \A y \in own : y <= Max(own)
  BY <1>1, MaxIndex
<1>3. r = [id |-> RequestOf[l[k]], priority |-> PriorityOf[RequestOf[l[k]]],
           attempts |-> {l[j] : j \in own}, lastUpdated |-> l[Max(own)]]
  BY DEF Row
<1>4. k \in own
  OBVIOUS
<1>5. PriorityOf[RequestOf[l[k]]] \in Nat
  BY <1>1, FeedAssumption DEF FeedAssumption
<1>6. k = Len(l) => Max(own) = k
  <2>1. Max(own) \in 1..Len(l) /\ k <= Max(own)
    BY <1>1, <1>2, <1>4
  <2> HIDE DEF own
  <2> QED
    BY <1>1, <2>1
<1>7. Max(own) \in DOMAIN l /\ RequestOf[l[Max(own)]] = RequestOf[l[k]]
  BY <1>2
<1> HIDE DEF own
<1> QED
  BY <1>3, <1>4, <1>5, <1>6, <1>7

(* The rows that a list is grouped into.                                   *)
Rows(l) == {Row(RequestOf[l[k]], l) : k \in DOMAIN l}

LEMMA RowsFinite ==
  ASSUME NEW l \in Seq(Packets)
  PROVE  IsFiniteSet(Rows(l)) /\ Cardinality(Rows(l)) \in Nat
<1> DEFINE f == [k \in DOMAIN l |-> Row(RequestOf[l[k]], l)]
<1>1. IsFiniteSet(DOMAIN l)
  BY FS_Interval
<1>2. f \in Surjection(DOMAIN l, Rows(l))
  BY DEF Surjection, Rows
<1>3. IsFiniteSet(Rows(l))
  BY <1>1, <1>2, FS_Surjection
<1> QED
  BY <1>3, FS_CardinalityType

(* No two rows rank the same.                                              *)
LEMMA RowsOrdered ==
  ASSUME NEW l \in Seq(Packets), NEW rel,
         rel = {p \in Rows(l) \X Rows(l) : Above(p[1], p[2])}
  PROVE  IsStrictOrder(rel, Rows(l))
<1>1. ASSUME NEW r \in Rows(l)
      PROVE  /\ r.priority = PriorityOf[r.id] /\ r.priority \in Nat
             /\ r.lastUpdated \in Nat /\ RequestOf[r.lastUpdated] = r.id
             /\ r = Row(r.id, l)
  <2>1. PICK k \in DOMAIN l : r = Row(RequestOf[l[k]], l)
    BY DEF Rows
  <2>2. /\ r.id = RequestOf[l[k]] /\ r.priority = PriorityOf[r.id] /\ r.priority \in Nat
        /\ \E j \in DOMAIN l : r.lastUpdated = l[j] /\ RequestOf[l[j]] = r.id
    BY <2>1, RowFacts
  <2>3. \A j \in DOMAIN l : l[j] \in Nat
    BY FeedAssumption DEF FeedAssumption, Packets
  <2> QED
    BY <2>1, <2>2, <2>3
<1>2. \A a, b \in Rows(l) : <<a, b>> \in rel <=> Above(a, b)
  OBVIOUS
<1>3. \A a \in Rows(l) : ~Above(a, a)
  BY <1>1 DEF Above
<1>4. ASSUME NEW a \in Rows(l), NEW b \in Rows(l)
      PROVE  a = b \/ Above(a, b) \/ Above(b, a)
  <2>1. CASE a.lastUpdated = b.lastUpdated
    BY <1>1, <2>1
  <2>2. CASE a.lastUpdated # b.lastUpdated
    BY <1>1, <2>2 DEF Above
  <2> QED
    BY <2>1, <2>2
<1>5. \A a, b, c \in Rows(l) : Above(a, b) /\ Above(b, c) => Above(a, c)
  BY <1>1 DEF Above
<1> QED
  BY <1>2, <1>3, <1>4, <1>5 DEF IsStrictOrder

(* groupEvents lists each row once, in order.                              *)
LEMMA GroupsSorted ==
  ASSUME NEW l \in Seq(Packets)
  PROVE  /\ DOMAIN groupEvents(l) = 1..Cardinality(Rows(l))
         /\ \A m, n \in DOMAIN groupEvents(l) :
              m < n => Above(groupEvents(l)[m], groupEvents(l)[n])
         /\ \A n \in DOMAIN groupEvents(l) : groupEvents(l)[n] \in Rows(l)
         /\ \A r \in Rows(l) : \E n \in DOMAIN groupEvents(l) : groupEvents(l)[n] = r
<1> DEFINE rel == {p \in Rows(l) \X Rows(l) : Above(p[1], p[2])}
           c == Cardinality(Rows(l))
           g == groupEvents(l)
<1>0. IsFiniteSet(Rows(l)) /\ c \in Nat
  BY RowsFinite
<1>1. IsStrictOrder(rel, Rows(l))
  BY RowsOrdered
<1>2. PICK s \in [1..c -> Rows(l)] : \A m, n \in 1..c : m < n => <<s[m], s[n]>> \in rel
  <2> HIDE DEF rel
  <2> QED
    BY <1>0, <1>1, SortExists
<1>3. \A m, n \in 1..c : m < n => Above(s[m], s[n])
  BY <1>2
<1>4. g = CHOOSE t \in [1..c -> Rows(l)] : \A m, n \in DOMAIN t : m < n => Above(t[m], t[n])
  BY DEF groupEvents, Rows
<1>5. g \in [1..c -> Rows(l)] /\ \A m, n \in DOMAIN g : m < n => Above(g[m], g[n])
  <2>1. \E t \in [1..c -> Rows(l)] : \A m, n \in DOMAIN t : m < n => Above(t[m], t[n])
    BY <1>2, <1>3
  <2> HIDE DEF g, c
  <2> QED
    BY <1>4, <2>1
<1> HIDE DEF g, c
<1>6. \A m, n \in 1..c : m # n => g[m] # g[n]
  <2>1. \A r \in Rows(l) : ~Above(r, r)
    BY <1>1 DEF IsStrictOrder
  <2>2. \A m, n \in 1..c : m < n => g[m] # g[n]
    BY <1>5, <2>1
  <2> QED
    BY <1>0, <2>2
<1>7. g \in Surjection(1..c, Rows(l))
  <2>1. g \in Injection(1..c, Rows(l))
    BY <1>5, <1>6 DEF Injection, IsInjective
  <2>2. Cardinality(1..c) = c
    BY <1>0, FS_Interval
  <2> QED
    BY <1>0, <2>1, <2>2, FS_Injection DEF c
<1> QED
  BY <1>5, <1>7 DEF Surjection, g, c

(* The row of the last packet of a list is the first of its priority, if   *)
(* no packet of the list is newer.                                         *)
LEMMA LastOnTop ==
  ASSUME NEW l \in Seq(Packets), l # <<>>, \A k \in DOMAIN l : l[k] <= l[Len(l)]
  PROVE  \E n \in DOMAIN groupEvents(l) :
           /\ l[Len(l)] \in groupEvents(l)[n].attempts
           /\ \A m \in 1..(n - 1) : groupEvents(l)[m].priority < groupEvents(l)[n].priority
<1> DEFINE g == groupEvents(l)
           top == Row(RequestOf[l[Len(l)]], l)
<1>1. Len(l) \in DOMAIN l /\ \A k \in DOMAIN l : l[k] \in Nat
  BY EmptySeq, FeedAssumption DEF FeedAssumption, Packets
<1>2. top.lastUpdated = l[Len(l)] /\ l[Len(l)] \in top.attempts /\ top.priority \in Nat
  BY <1>1, RowFacts
<1>3. PICK n \in DOMAIN g : g[n] = top
  BY <1>1, GroupsSorted DEF Rows
<1>4. ASSUME NEW m \in 1..(n - 1)
      PROVE  g[m].priority < top.priority
  <2>1. m \in DOMAIN g /\ m < n
    BY RowsFinite, GroupsSorted
  <2>2. Above(g[m], top) /\ g[m] \in Rows(l)
    BY <1>3, <2>1, GroupsSorted
  <2>3. \E j \in DOMAIN l : g[m].lastUpdated = l[j]
    <3>1. PICK k \in DOMAIN l : g[m] = Row(RequestOf[l[k]], l)
      BY <2>2 DEF Rows
    <3> HIDE DEF g
    <3> QED
      BY <3>1, RowFacts
  <2> QED
    BY <1>1, <1>2, <2>2, <2>3 DEF Above
<1> QED
  BY <1>2, <1>3, <1>4
-------------------------------------------------------------------------------
LEMMA TypesTogether ==
  ASSUME Linked', ListsTyped', CountersTyped', Lagging'
  PROVE  TypeOK' /\ Shape'
<1> USE FeedAssumption DEF FeedAssumption, Linked, ListsTyped, CountersTyped
<1>1. \A i \in Ids : streams'[i] \in StreamRecords
  OBVIOUS
<1>2. \A f \in Feeds : history'[f] \in HistoryRecords
  OBVIOUS
<1>3. particles' \in [Feeds -> 0..MaxPackets]
  <2>1. ASSUME NEW f \in Feeds
        PROVE  particles'[f] \in 0..MaxPackets
    <3>1. particles'[f] \in Nat /\ drawn'[f] \in Nat /\ latest'[f] \in Nat
          /\ published' \in 0..MaxPackets
      BY DEF Packets
    <3> QED
      BY <3>1 DEF Lagging
  <2> QED
    BY <2>1
<1>4. timers' \in 0..MaxFaults
  BY DEF Lagging
<1> QED
  BY <1>1, <1>2, <1>3, <1>4 DEF TypeOK, Shape, StreamRecords, HistoryRecords

LEMMA Invariance == Spec => []Inv
<1>1. Inv /\ [Next]_vars => Inv'
  <2> SUFFICES ASSUME Inv, [Next]_vars PROVE Inv'
    OBVIOUS
  <2>1. Linked' /\ Ordered' /\ Lagging' /\ ListsTyped' /\ CountersTyped'
    BY LinkedStep, OrderedStep, LaggingStep, ListsStep, CountersStep
  <2>2. TypeOK' /\ Shape'
    BY <2>1, TypesTogether
  <2> QED
    BY <2>1, <2>2 DEF Inv, Linked
<1> QED
  BY InitInv, <1>1, PTL DEF Spec

-------------------------------------------------------------------------------
(* What the list shows.  No packet of a list is newer than its last.       *)
Newest(l) == \A k \in DOMAIN l : l[k] <= l[Len(l)]

(* A stream ends with the newest packet, which is what it owes.            *)
Carried ==
  /\ \A f \in Feeds : owed[f] # 0 => f \in subscribers
  /\ \A i \in Ids : streams[i].queue # <<>> =>
       /\ streams[i].queue[Len(streams[i].queue)] = published
       /\ \A f \in Feeds : owed[f] \in {0, published}

(* Lists hold what was reported; an answer ends with its newest packet.    *)
Listed ==
  \A f \in Feeds : /\ \A k \in DOMAIN events[f] : events[f][k] <= published
                   /\ \A k \in DOMAIN history[f].list : history[f].list[k] <= published
                   /\ Newest(history[f].list)

(* What is owed and not on its way is listed.  Until the history answers   *)
(* the list is what the stream brought.                                    *)
ShownTo(f) ==
  /\ events[f] # <<>>
  /\ Newest(events[f])
  /\ owed[f] <= Last(events[f])
  /\ history[f] # Nothing => Last(events[f]) = owed[f]

Shown == Quiet => \A f \in Feeds : Limit[f] > 0 /\ owed[f] # 0 => ShownTo(f)

(* Less is owed, and nothing new is on its way.                            *)
LEMMA CarriedKept ==
  ASSUME Carried, Kept, published' = published,
         \A f \in Feeds : owed'[f] # 0 => owed'[f] = owed[f] /\ f \in subscribers'
  PROVE  Carried'
<1>1. \A f \in Feeds : owed'[f] # 0 => f \in subscribers'
  OBVIOUS
<1>2. ASSUME NEW i \in Ids, streams'[i].queue # <<>>
      PROVE  /\ streams'[i].queue[Len(streams'[i].queue)] = published'
             /\ \A f \in Feeds : owed'[f] \in {0, published'}
  <2>1. streams'[i].queue = streams[i].queue
    BY <1>2 DEF Kept
  <2>2. /\ streams[i].queue[Len(streams[i].queue)] = published
        /\ \A f \in Feeds : owed[f] \in {0, published}
    BY <1>2, <2>1 DEF Carried
  <2> QED
    BY <2>1, <2>2
<1> QED
  BY <1>1, <1>2 DEF Carried

LEMMA CarriedStep ==
  ASSUME Inv, Carried, [Next]_vars
  PROVE  Carried'
<1>0. /\ Linked /\ owed \in [Feeds -> Packets \cup {0}]
      /\ \A f \in Feeds : owed[f] = 0 \/ f \in subscribers
  BY LinkedInv DEF Inv, TypeOK, Carried
<1>1. CASE UNCHANGED <<streams, published, owed, subscribers>>
  <2>1. Kept /\ published' = published
    BY <1>1 DEF Kept
  <2>2. \A f \in Feeds : owed'[f] # 0 => owed'[f] = owed[f] /\ f \in subscribers'
    BY <1>0, <1>1
  <2> QED
    BY <2>1, <2>2, CarriedKept
<1>2. CASE Publish
  <2>1. /\ published' \in Packets /\ subscribers' = subscribers
        /\ \A f \in Feeds : owed'[f] = IF f \in subscribers
                                          /\ eventSource # None /\ streams[eventSource].st = "open"
                                        THEN published' ELSE owed[f]
    BY <1>2, FeedAssumption DEF Publish, page, Inv, TypeOK, FeedAssumption, Packets
  <2>2. ASSUME NEW i \in Ids, streams'[i].queue # <<>>
        PROVE  /\ streams'[i].queue[Len(streams'[i].queue)] = published'
               /\ \A f \in Feeds : owed'[f] \in {0, published'}
    <3>1. streams[i].st = "open"
      BY <1>0, <1>2, <2>2 DEF Publish, Linked
    <3>2. i = eventSource /\ eventSource # None
      BY <1>0, <3>1 DEF Linked, OneStream, Ids, None
    <3>3. streams'[i].queue = Append(streams[i].queue, published') /\ streams[i].queue \in Seq(Packets)
      BY <1>0, <1>2, <3>1 DEF Publish, Linked, StreamRecords
    <3>4. streams'[i].queue[Len(streams'[i].queue)] = published'
      BY <2>1, <3>3, AppendProperties
    <3> QED
      BY <1>0, <2>1, <3>1, <3>2, <3>4
  <2>3. \A f \in Feeds : owed'[f] # 0 => f \in subscribers'
    BY <1>0, <2>1
  <2> QED
    BY <2>2, <2>3 DEF Carried
<1>3. ASSUME NEW i \in Ids, Opens(i)
      PROVE  Carried'
  <2>1. Kept /\ published' = published
    BY <1>0, <1>3 DEF Opens, Linked, StreamRecords, Kept
  <2>2. \A f \in Feeds : owed'[f] # 0 => owed'[f] = owed[f] /\ f \in subscribers'
    BY <1>0, <1>3 DEF Opens, page
  <2> QED
    BY <2>1, <2>2, CarriedKept
<1>4. ASSUME NEW i \in Ids, Breaks(i)
      PROVE  Carried'
  <2>1. Kept
    BY <1>0, <1>4, ClosedNow DEF Breaks, Kept
  <2>2. published' = published /\ subscribers' = subscribers
    BY <1>4 DEF Breaks, page
  <2>3. \A f \in Feeds : owed'[f] # 0 => owed'[f] = owed[f] /\ f \in subscribers'
    BY <1>0, <1>4, <2>2 DEF Breaks, Forget
  <2> QED
    BY <2>1, <2>2, <2>3, CarriedKept
<1>5. ASSUME NEW i \in Ids, Deliver(i)
      PROVE  Carried'
  <2> DEFINE q == streams[i].queue
  <2>1. q # <<>> /\ q \in Seq(Packets)
    BY <1>0, <1>5 DEF Deliver, Linked, StreamRecords
  <2>2. q[Len(q)] = published /\ \A f \in Feeds : owed[f] \in {0, published}
    BY <2>1 DEF Carried
  <2>3. /\ streams'[i].queue = Tail(q) /\ UNCHANGED <<published, owed, subscribers>>
        /\ \A j \in Ids : j # i => streams'[j] = streams[j]
    BY <1>0, <1>5 DEF Deliver, Linked, StreamRecords, page
  <2> HIDE DEF q
  <2>4. Tail(q) # <<>> => Tail(q)[Len(Tail(q))] = published
    <3>1. /\ Len(Tail(q)) = Len(q) - 1 /\ Len(q) \in Nat /\ Len(q) >= 1
          /\ \A n \in 1..(Len(q) - 1) : Tail(q)[n] = q[n + 1]
      BY <2>1, HeadTailProperties, EmptySeq
    <3>2. Tail(q) # <<>> => Len(Tail(q)) >= 1
      BY <2>1, <3>1, HeadTailProperties, EmptySeq
    <3> QED
      BY <2>2, <3>1, <3>2
  <2>5. \A j \in Ids : j # i =>
          /\ streams'[j].queue = streams[j].queue
          /\ \/ streams[j].queue = <<>>
             \/ streams[j].queue[Len(streams[j].queue)] = published
    BY <2>3 DEF Carried
  <2>6. \A j \in Ids : streams'[j].queue # <<>> =>
                         streams'[j].queue[Len(streams'[j].queue)] = published'
    BY <2>3, <2>4, <2>5
  <2> QED
    BY <1>0, <2>2, <2>3, <2>6 DEF Carried
<1>6. CASE Retry \/ \E f \in Feeds : Mount(f)
  <2>1. Kept
    BY <1>0, <1>6, Started DEF Retry, Mount
  <2>2. subscribers \subseteq subscribers' /\ UNCHANGED <<published, owed>>
    BY <1>6 DEF Retry, Mount, page
  <2>3. \A f \in Feeds : owed'[f] # 0 => owed'[f] = owed[f] /\ f \in subscribers'
    BY <1>0, <2>2
  <2> QED
    BY <2>1, <2>2, <2>3, CarriedKept
<1>7. ASSUME NEW f \in Feeds, Unmount(f)
      PROVE  Carried'
  <2>1. Kept /\ published' = published
    BY <1>0, <1>7, Stopped DEF Unmount
  <2>2. \A g \in Feeds : owed'[g] # 0 => owed'[g] = owed[g] /\ g \in subscribers'
    <3>1. /\ subscribers' = subscribers \ {f} /\ owed'[f] = 0
          /\ \A g \in Feeds : g # f => owed'[g] = owed[g]
      BY <1>0, <1>7 DEF Unmount
    <3> QED
      BY <1>0, <3>1
  <2> QED
    BY <2>1, <2>2, CarriedKept
<1>8. ASSUME NEW f \in Feeds, HistoryReturns(f)
      PROVE  Carried'
  <2>1. Kept /\ published' = published /\ subscribers' = subscribers
    BY <1>8 DEF HistoryReturns, link, Kept
  <2>2. \A g \in Feeds : owed'[g] \in {0, owed[g]}
    BY <1>0, <1>8 DEF HistoryReturns
  <2>3. \A g \in Feeds : owed'[g] # 0 => owed'[g] = owed[g] /\ g \in subscribers'
    BY <1>0, <2>1, <2>2
  <2> QED
    BY <2>1, <2>3, CarriedKept
<1>9. CASE \/ UNCHANGED vars
           \/ \E f \in Feeds : getPackets(f) \/ HistoryFails(f) \/ Draw(f) \/ Fade(f)
  BY <1>1, <1>9 DEF vars, getPackets, HistoryFails, Draw, Fade, link, page
<1> QED
  BY <1>2, <1>3, <1>4, <1>5, <1>6, <1>7, <1>8, <1>9 DEF Next

(* A packet that is added to a list comes last, and is the only new one.   *)
LEMMA AppendToLast ==
  ASSUME NEW s \in Seq(Packets), NEW p \in Packets, NEW n \in Nat, NEW r, r = AppendTo(s, p, n)
  PROVE  /\ \A k \in DOMAIN r : r[k] = p \/ \E j \in DOMAIN s : r[k] = s[j]
         /\ n > 0 => r # <<>> /\ r[Len(r)] = p
<1> DEFINE a == Append(s, p)
<1>1. /\ a \in Seq(Packets) /\ Len(a) = Len(s) + 1 /\ Len(s) \in Nat /\ a[Len(s) + 1] = p
      /\ \A k \in 1..Len(s) : a[k] = s[k]
  BY AppendProperties
<1>2. /\ DOMAIN s = 1..Len(s) /\ DOMAIN a = 1..(Len(s) + 1)
      /\ a # <<>>
  BY <1>1
<1>3. /\ Tail(a) \in Seq(Packets) /\ Len(Tail(a)) = Len(s)
      /\ \A k \in 1..Len(s) : Tail(a)[k] = a[k + 1]
  <2> HIDE DEF a
  <2> QED
    BY <1>1, <1>2, HeadTailProperties
<1>4. r = IF Len(a) > n THEN Tail(a) ELSE a
  BY DEF AppendTo
<1> HIDE DEF a
<1>5. \A k \in 1..(Len(s) + 1) : a[k] = p \/ \E j \in DOMAIN s : a[k] = s[j]
  BY <1>1, <1>2
<1>6. CASE Len(a) > n
  <2>1. r = Tail(a) /\ DOMAIN r = 1..Len(s) /\ Len(r) = Len(s)
    BY <1>3, <1>4, <1>6
  <2>2. \A k \in DOMAIN r : r[k] = p \/ \E j \in DOMAIN s : r[k] = s[j]
    BY <1>1, <1>3, <1>5, <2>1
  <2>3. n > 0 => r # <<>> /\ r[Len(r)] = p
    <3>1. n > 0 => Len(s) > 0
      BY <1>1, <1>6
    <3> QED
      BY <1>1, <1>3, <2>1, <3>1
  <2> QED
    BY <2>2, <2>3
<1>7. CASE ~(Len(a) > n)
  BY <1>1, <1>2, <1>4, <1>5, <1>7
<1> QED
  BY <1>6, <1>7

LEMMA ListedStep ==
  ASSUME Inv, Listed, [Next]_vars
  PROVE  Listed'
<1> USE FeedAssumption DEF FeedAssumption
<1>0. /\ Linked /\ published \in 0..MaxPackets /\ published' \in Int /\ published <= published'
      /\ events \in [Feeds -> Seq(Packets)] /\ history \in [Feeds -> HistoryRecords]
  <2>1. published \in 0..MaxPackets
    BY DEF Inv, TypeOK
  <2>2. published' = published \/ published' = published + 1
    BY DEF Next, vars, Publish, Retry, Opens, Breaks, Deliver, Mount, Unmount, getPackets,
       HistoryReturns, HistoryFails, Draw, Fade
  <2> QED
    BY <2>1, <2>2, LinkedInv DEF Inv, Shape
<1>1. /\ \A f \in Feeds : \A k \in DOMAIN events[f] : events[f][k] \in Int
      /\ \A f \in Feeds : \A k \in DOMAIN history[f].list : history[f].list[k] \in Int
  BY <1>0 DEF HistoryRecords, Packets
<1>2. ASSUME \A f \in Feeds : \/ events'[f] = events[f] \/ events'[f] = <<>>
                              \/ events'[f] = history[f].list,
             \A f \in Feeds : history'[f].list = history[f].list \/ history'[f].list = <<>>
      PROVE  Listed'
  <2>1. ASSUME NEW f \in Feeds
        PROVE  /\ \A k \in DOMAIN events'[f] : events'[f][k] <= published'
               /\ \A k \in DOMAIN history'[f].list : history'[f].list[k] <= published'
               /\ Newest(history'[f].list)
    <3>1. /\ \A k \in DOMAIN events[f] : events[f][k] <= published'
          /\ \A k \in DOMAIN history[f].list : history[f].list[k] <= published'
      BY <1>0, <1>1 DEF Listed
    <3>2. DOMAIN <<>> = {}
      OBVIOUS
    <3> QED
      BY <1>2, <3>1, <3>2 DEF Listed, Newest
  <2> QED
    BY <2>1 DEF Listed
<1>3. CASE UNCHANGED <<events, history>>
  BY <1>2, <1>3
<1>4. ASSUME NEW f \in Feeds, Mount(f) \/ Unmount(f) \/ HistoryReturns(f) \/ HistoryFails(f)
      PROVE  Listed'
  <2>1. /\ \A g \in Feeds : history'[g] = history[g] \/ history'[g] \in {Asked, Nothing}
        /\ \A g \in Feeds : \/ events'[g] = events[g] \/ events'[g] = <<>>
                             \/ events'[g] = history[g].list
    BY <1>0, <1>4 DEF Mount, Unmount, HistoryReturns, HistoryFails, view
  <2>2. \A g \in Feeds : history'[g].list = history[g].list \/ history'[g].list = <<>>
    BY <2>1, ClosedTyped
  <2> QED
    BY <1>2, <2>1, <2>2
<1>5. ASSUME NEW i \in Ids, Deliver(i)
      PROVE  Listed'
  <2> DEFINE p == Head(streams[i].queue)
  <2>1. p = streams[i].queue[1] /\ 1 \in 1..Len(streams[i].queue) /\ p \in Packets
    BY <1>5, HeadTailProperties DEF Deliver, Inv, Shape, StreamRecords
  <2>2. p <= published
    BY <2>1 DEF Inv, Ordered
  <2>3. /\ published' = published /\ history' = history
        /\ \A f \in Feeds : events'[f] = AppendTo(events[f], p, Limit[f]) \/ events'[f] = events[f]
    BY <1>5 DEF Deliver, page
  <2> HIDE DEF p
  <2>4. ASSUME NEW f \in Feeds, NEW k \in DOMAIN events'[f]
        PROVE  events'[f][k] <= published'
    <3>1. CASE events'[f] = events[f]
      BY <2>3, <2>4, <3>1 DEF Listed
    <3>2. CASE events'[f] = AppendTo(events[f], p, Limit[f])
      <4>1. events'[f][k] = p \/ \E j \in DOMAIN events[f] : events'[f][k] = events[f][j]
        BY <1>0, <2>1, <2>4, <3>2, AppendToLast
      <4> QED
        BY <2>2, <2>3, <4>1 DEF Listed
    <3> QED
      BY <2>3, <3>1, <3>2
  <2> QED
    BY <2>3, <2>4 DEF Listed
<1>6. ASSUME NEW f \in Feeds, getPackets(f)
      PROVE  Listed'
  <2> DEFINE n == IF published < Limit[f] THEN published ELSE Limit[f]
             l == [k \in 1..n |-> published - n + k]
  <2>1. n \in Nat /\ n <= published /\ published \in Nat
    BY <1>0
  <2>2. /\ DOMAIN l = 1..n /\ Len(l) = n
        /\ \A k \in 1..n : l[k] <= published /\ l[k] <= l[n]
    <3> HIDE DEF n
    <3>1. DOMAIN l = 1..n /\ \A k \in 1..n : l[k] = published - n + k
      OBVIOUS
    <3>2. \A k \in 1..n : l[k] <= published /\ l[k] <= l[n]
      BY <2>1, <3>1
    <3>3. l \in Seq(Int)
      BY <2>1
    <3>4. Len(l) = n
      BY <2>1, <3>1, <3>3
    <3> QED
      BY <3>1, <3>2, <3>4
  <2>3. /\ history' = [history EXCEPT ![f] = Answered(l)]
        /\ events' = events /\ published' = published
    BY <1>6 DEF getPackets, view
  <2> HIDE DEF l, n
  <2>4. Answered(l).list = l
    BY DEF Answered
  <2>5. /\ history'[f].list = l
        /\ \A g \in Feeds : g # f => history'[g] = history[g]
    BY <1>0, <2>3, <2>4
  <2>6. Newest(l) /\ \A k \in DOMAIN l : l[k] <= published
    BY <2>2 DEF Newest
  <2> QED
    BY <2>3, <2>5, <2>6 DEF Listed
<1>7. CASE \/ Publish \/ Retry \/ UNCHANGED vars \/ \E i \in Ids : Opens(i) \/ Breaks(i)
           \/ \E f \in Feeds : Draw(f) \/ Fade(f)
  BY <1>3, <1>7 DEF Publish, Retry, vars, Opens, Breaks, Draw, Fade, page, view
<1> QED
  BY <1>4, <1>5, <1>6, <1>7 DEF Next

(* A step that puts nothing on its way and takes nothing from it.          *)
LEMMA ShownKept ==
  ASSUME Shown, Quiet' => Quiet,
         \A f \in Feeds : owed'[f] # 0 =>
           /\ owed'[f] = owed[f] /\ events'[f] = events[f]
           /\ history'[f] # Nothing => history[f] # Nothing
  PROVE  Shown'
<1>1. ASSUME Quiet', NEW f \in Feeds, Limit[f] > 0, owed'[f] # 0
      PROVE  ShownTo(f)'
  <2>1. ShownTo(f)
    BY <1>1 DEF Shown
  <2> QED
    BY <1>1, <2>1 DEF ShownTo, Last
<1> QED
  BY <1>1 DEF Shown

LEMMA AppendNotEmpty ==
  ASSUME NEW s \in Seq(Packets), NEW p \in Packets
  PROVE  Append(s, p) # <<>>
<1>1. Append(s, p) \in Seq(Packets) /\ Len(Append(s, p)) = Len(s) + 1 /\ Len(s) \in Nat
  BY AppendProperties
<1> QED
  BY <1>1

(* What is delivered last is the last.                                     *)
LEMMA LastLeft ==
  ASSUME NEW s \in Seq(Packets), s # <<>>, Tail(s) = <<>>
  PROVE  s[1] = s[Len(s)]
<1>1. Len(Tail(s)) = Len(s) - 1 /\ Len(s) \in Nat
  BY HeadTailProperties
<1>2. Len(Tail(s)) = 0
  <2>1. Len(<<>>) = 0
    OBVIOUS
  <2> QED
    BY <2>1, Zenon
<1>3. Len(s) = 1
  BY <1>1, <1>2
<1> QED
  BY <1>3

(* Opening a stream takes nothing from its way.                            *)
LEMMA StartedQuiet ==
  ASSUME Linked, startEventSource
  PROVE  Quiet' => Quiet
<1>1. CASE eventSource # None
  BY <1>1 DEF startEventSource, Quiet
<1>2. CASE eventSource = None
  BY <1>2 DEF Linked, OneStream, Quiet, Ids, None
<1> QED
  BY <1>1, <1>2

LEMMA ShownStep ==
  ASSUME Inv, Carried, Listed, Shown, [Next]_vars
  PROVE  Shown'
<1> USE FeedAssumption DEF FeedAssumption
<1>0. /\ Linked /\ owed \in [Feeds -> Packets \cup {0}] /\ published \in 0..MaxPackets
      /\ events \in [Feeds -> Seq(Packets)] /\ history \in [Feeds -> HistoryRecords]
      /\ \A f \in Feeds : owed[f] = 0 \/ f \in subscribers
  BY LinkedInv DEF Inv, TypeOK, Shape, Carried
<1>1. CASE UNCHANGED <<streams, owed, events, history>>
  <2>1. Quiet' => Quiet
    BY <1>1 DEF Quiet
  <2> QED
    BY <1>1, <2>1, ShownKept
<1>2. CASE Publish
  <2>1. CASE eventSource # None /\ streams[eventSource].st = "open"
    <3>1. /\ streams'[eventSource].queue = Append(streams[eventSource].queue, published')
          /\ streams[eventSource].queue \in Seq(Packets) /\ eventSource \in Ids
          /\ published' \in Packets
      BY <1>0, <1>2, <2>1 DEF Publish, Linked, StreamRecords, Packets
    <3>2. streams'[eventSource].queue # <<>>
      BY <3>1, AppendNotEmpty
    <3> QED
      BY <3>1, <3>2 DEF Shown, Quiet
  <2>2. CASE ~(eventSource # None /\ streams[eventSource].st = "open")
    <3>1. \A i \in Ids : streams[i].st # "open"
      BY <1>0, <2>2 DEF Linked, OneStream, Ids, None
    <3>2. \A i \in Ids : streams'[i] = streams[i]
      BY <1>2, <3>1 DEF Publish
    <3>3. Quiet' => Quiet
      BY <3>2 DEF Quiet
    <3>4. /\ \A f \in Feeds : owed'[f] = owed[f]
          /\ UNCHANGED <<events, history>>
      BY <1>2, <2>2 DEF Publish, page, view
    <3> QED
      BY <3>3, <3>4, ShownKept
  <2> QED
    BY <2>1, <2>2
<1>3. ASSUME NEW i \in Ids, Opens(i)
      PROVE  Shown'
  <2>1. \A j \in Ids : streams'[j].queue = streams[j].queue
    BY <1>0, <1>3 DEF Opens, Linked, StreamRecords
  <2>2. Quiet' => Quiet
    BY <2>1 DEF Quiet
  <2> QED
    BY <1>3, <2>2, ShownKept DEF Opens, page, view
<1>4. ASSUME NEW i \in Ids, Breaks(i)
      PROVE  Shown'
  <2>1. i = eventSource /\ eventSource # None
    BY <1>0, <1>4 DEF Breaks, Live, Linked, OneStream, Ids, None
  <2>2. UNCHANGED <<events, history>>
    BY <1>4 DEF Breaks, page, view
  <2>3. CASE streams[i].queue = <<>>
    <3>1. Quiet
      BY <1>0, <2>1, <2>3 DEF Linked, OneStream, Quiet
    <3>2. owed' = owed
      BY <1>4, <2>1, <2>3 DEF Breaks, Forget
    <3> QED
      BY <2>2, <3>1, <3>2, ShownKept
  <2>4. CASE streams[i].queue # <<>>
    <3>1. \A f \in Feeds : owed'[f] = 0
      BY <1>4, <2>1, <2>4 DEF Breaks, Forget
    <3> QED
      BY <3>1 DEF Shown
  <2> QED
    BY <2>3, <2>4
<1>5. ASSUME NEW i \in Ids, Deliver(i)
      PROVE  Shown'
  <2> DEFINE q == streams[i].queue
             p == Head(q)
  <2>1. /\ q # <<>> /\ q \in Seq(Packets) /\ p = q[1] /\ p \in Packets
        /\ Len(Tail(q)) = Len(q) - 1 /\ Len(q) \in Nat
    BY <1>0, <1>5, HeadTailProperties DEF Deliver, Linked, StreamRecords
  <2>2. q[Len(q)] = published /\ \A f \in Feeds : owed[f] \in {0, published}
    BY <2>1 DEF Carried
  <2>3. /\ streams'[i].queue = Tail(q) /\ UNCHANGED <<published, owed, subscribers, history>>
        /\ \A f \in Feeds : f \in subscribers => events'[f] = AppendTo(events[f], p, Limit[f])
    BY <1>0, <1>5 DEF Deliver, Linked, StreamRecords, page
  <2> HIDE DEF p
  <2>4. ASSUME Quiet'
        PROVE  p = published
    <3>1. Tail(q) = <<>>
      BY <2>3, <2>4 DEF Quiet
    <3>2. q[1] = q[Len(q)]
      <4> HIDE DEF q
      <4> QED
        BY <2>1, <3>1, LastLeft
    <3> QED
      BY <2>1, <2>2, <3>2
  <2> HIDE DEF q
  <2>5. ASSUME Quiet', NEW f \in Feeds, Limit[f] > 0, owed'[f] # 0
        PROVE  ShownTo(f)'
    <3>1. /\ events'[f] = AppendTo(events[f], p, Limit[f])
          /\ owed'[f] = published /\ p = published /\ Limit[f] \in Nat
      BY <1>0, <2>2, <2>3, <2>4, <2>5
    <3>2. /\ \A k \in DOMAIN events'[f] :
                events'[f][k] = p \/ \E j \in DOMAIN events[f] : events'[f][k] = events[f][j]
          /\ events'[f] # <<>> /\ events'[f][Len(events'[f])] = p
      BY <1>0, <2>1, <2>5, <3>1, AppendToLast
    <3>3. p <= p /\ \A j \in DOMAIN events[f] : events[f][j] <= p
      BY <1>0, <3>1 DEF Listed
    <3>4. \A k \in DOMAIN events'[f] : events'[f][k] <= p
      BY <3>2, <3>3
    <3> QED
      BY <3>1, <3>2, <3>3, <3>4 DEF ShownTo, Newest, Last
  <2> QED
    BY <2>5 DEF Shown
<1>6. CASE Retry
  BY <1>0, <1>6, StartedQuiet, ShownKept DEF Retry, page, view
<1>7. ASSUME NEW f \in Feeds, Mount(f)
      PROVE  Shown'
  <2>1. Quiet' => Quiet
    BY <1>0, <1>7, StartedQuiet DEF Mount
  <2>2. owed' = owed /\ events' = events /\ owed[f] = 0
    BY <1>0, <1>7 DEF Mount, view
  <2>3. \A g \in Feeds : g # f => history'[g] = history[g]
    BY <1>0, <1>7 DEF Mount
  <2> QED
    BY <2>1, <2>2, <2>3, ShownKept
<1>8. ASSUME NEW f \in Feeds, Unmount(f)
      PROVE  Shown'
  <2>1. /\ owed'[f] = 0 /\ subscribers' = subscribers \ {f}
        /\ \A g \in Feeds : g # f => /\ owed'[g] = owed[g] /\ events'[g] = events[g]
                                     /\ history'[g] = history[g]
    BY <1>0, <1>8 DEF Unmount
  <2>2. CASE subscribers' = {}
    <3>1. \A g \in Feeds : owed'[g] = 0
      BY <1>0, <2>1, <2>2
    <3> QED
      BY <3>1 DEF Shown
  <2>3. CASE subscribers' # {}
    <3>1. streams' = streams
      BY <1>8, <2>3 DEF Unmount, stopEventSource
    <3>2. Quiet' => Quiet
      BY <3>1 DEF Quiet
    <3> QED
      BY <2>1, <3>2, ShownKept
  <2> QED
    BY <2>2, <2>3
<1>9. ASSUME NEW f \in Feeds, getPackets(f) \/ HistoryFails(f)
      PROVE  Shown'
  <2>1. UNCHANGED <<streams, owed, events>> /\ history[f] # Nothing
    BY <1>9, ClosedTyped DEF getPackets, HistoryFails, link, view
  <2>2. \A g \in Feeds : g # f => history'[g] = history[g]
    BY <1>0, <1>9 DEF getPackets, HistoryFails
  <2>3. Quiet' => Quiet
    BY <2>1 DEF Quiet
  <2> QED
    BY <2>1, <2>2, <2>3, ShownKept
<1>10. ASSUME NEW f \in Feeds, HistoryReturns(f)
       PROVE  Shown'
  <2>1. /\ streams' = streams /\ events'[f] = history[f].list /\ history'[f] = Nothing
        /\ owed'[f] = IF Contains(events[f], owed[f]) /\ ~Contains(history[f].list, owed[f])
                      THEN 0 ELSE owed[f]
        /\ \A g \in Feeds : g # f => /\ owed'[g] = owed[g] /\ events'[g] = events[g]
                                     /\ history'[g] = history[g]
    BY <1>0, <1>10 DEF HistoryReturns, link
  <2>2. Quiet' => Quiet
    BY <2>1 DEF Quiet
  <2>3. ASSUME Quiet', NEW g \in Feeds, Limit[g] > 0, owed'[g] # 0
        PROVE  ShownTo(g)'
    <3>1. CASE g # f
      <4>1. ShownTo(g)
        BY <2>1, <2>2, <2>3, <3>1 DEF Shown
      <4> QED
        BY <2>1, <3>1, <4>1 DEF ShownTo, Last
    <3>2. CASE g = f
      <4>1. owed'[f] = owed[f] /\ owed[f] # 0
        BY <2>1, <2>3, <3>2
      <4>2. ShownTo(f)
        BY <2>2, <2>3, <3>2, <4>1 DEF Shown
      <4>3. history[f] # Nothing
        BY <1>10 DEF HistoryReturns, Nothing
      <4>4. events[f] # <<>> /\ events[f][Len(events[f])] = owed[f]
        BY <4>2, <4>3 DEF ShownTo, Last
      <4>5. Contains(events[f], owed[f])
        <5>1. Len(events[f]) \in 1..Len(events[f])
          BY <1>0, <4>4, EmptySeq
        <5> QED
          BY <4>4, <5>1 DEF Contains
      <4>6. Contains(history[f].list, owed[f])
        BY <2>1, <4>1, <4>5
      <4>7. PICK k \in 1..Len(history[f].list) : history[f].list[k] = owed[f]
        BY <4>6 DEF Contains
      <4>8. history[f].list \in Seq(Packets) /\ DOMAIN history[f].list = 1..Len(history[f].list)
        BY <1>0 DEF HistoryRecords
      <4>9. Newest(history[f].list)
        BY DEF Listed
      <4>10. history[f].list # <<>> /\ owed[f] <= history[f].list[Len(history[f].list)]
        BY <4>7, <4>8, <4>9 DEF Newest
      <4> QED
        BY <2>1, <3>2, <4>1, <4>9, <4>10 DEF ShownTo, Last
    <3> QED
      BY <3>1, <3>2
  <2> QED
    BY <2>3 DEF Shown
<1>11. CASE UNCHANGED vars \/ \E f \in Feeds : Draw(f) \/ Fade(f)
  BY <1>1, <1>11 DEF vars, Draw, Fade, link, page, view
<1> QED
  BY <1>2, <1>3, <1>4, <1>5, <1>6, <1>7, <1>8, <1>9, <1>10, <1>11 DEF Next

LEMMA ShownAlways == Spec => [](Inv /\ Carried /\ Listed /\ Shown)
<1>1. Init => Carried /\ Listed /\ Shown
  <2> SUFFICES ASSUME Init PROVE Carried /\ Listed /\ Shown
    OBVIOUS
  <2>1. /\ \A i \in Ids : streams[i].queue = <<>>
        /\ \A f \in Feeds : owed[f] = 0 /\ events[f] = <<>> /\ history[f].list = <<>>
    BY ClosedTyped DEF Init
  <2>2. DOMAIN <<>> = {}
    OBVIOUS
  <2> QED
    BY <2>1, <2>2 DEF Carried, Listed, Newest, Shown
<1>2. Inv /\ Carried /\ Listed /\ Shown /\ [Next]_vars => Carried' /\ Listed' /\ Shown'
  BY CarriedStep, ListedStep, ShownStep
<1> QED
  BY <1>1, <1>2, Invariance, PTL DEF Spec

(* Types, and the bounds of the lists (usePacketFeed.js) and of the        *)
(* animation (TrafficVisualizer.jsx), whatever the limit of a component.   *)
THEOREM TypeCorrect == Spec => []TypeOK
BY Invariance, PTL DEF Inv

(* The last component that unmounts leaves no stream behind: the shared    *)
(* stream of usePacketFeed is the only one there ever is.                  *)
THEOREM LastOneCloses == Spec => ClosedWithLast
<1>1. ASSUME Inv, Next, NEW f \in Feeds, subscribers = {f}, subscribers' = {}
      PROVE  \A i \in Ids : streams'[i] = Closed
  <2>1. PICK g \in Feeds : Unmount(g)
    BY <1>1 DEF Next, page, Publish, Retry, Opens, Breaks, Deliver, Mount,
       getPackets, HistoryReturns, HistoryFails, Draw, Fade
  <2> QED
    BY <1>1, <2>1, LinkedInv, Stopped DEF Unmount
<1>2. Inv /\ [Next]_vars =>
        [\A f \in Feeds : subscribers = {f} /\ subscribers' = {} =>
           \A i \in Ids : streams'[i] = Closed]_vars
  BY <1>1
<1> QED
  BY <1>2, Invariance, PTL DEF ClosedWithLast, Spec

(* A component that stays mounted is never shown an older packet than the  *)
(* last, across any number of streams.                                     *)
THEOREM PacketsInOrder == Spec => InOrder
<1>1. ASSUME Inv, Next, NEW f \in subscribers \cap subscribers', latest'[f] # latest[f]
      PROVE  latest'[f] > latest[f]
  <2>1. f \in Feeds
    BY <1>1 DEF Inv, TypeOK
  <2>2. PICK i \in Ids : Deliver(i)
    <3>1. ~UNCHANGED latest
      BY <1>1
    <3>2. \A g \in Feeds : Unmount(g) => g # f
      BY DEF Unmount
    <3>3. \A g \in Feeds : Unmount(g) => latest'[f] = latest[f]
      BY <1>1, <2>1, <3>2 DEF Unmount, Inv, TypeOK
    <3> QED
      BY <1>1, <3>1, <3>3 DEF Next, view, Publish, Retry, Opens, Breaks, Mount,
         getPackets, HistoryReturns, HistoryFails, Draw, Fade
  <2> DEFINE q == streams[i].queue
  <2>3. q \in Seq(Packets) /\ q # <<>>
    BY <1>1, <2>2 DEF Deliver, Inv, Shape, StreamRecords
  <2>4. Head(q) = q[1] /\ 1 \in 1..Len(q) /\ q[1] \in Packets
    BY <2>3, HeadTailProperties
  <2>5. latest'[f] = q[1]
    BY <1>1, <2>1, <2>2, <2>4 DEF Deliver
  <2>6. latest[f] <= q[1]
    BY <1>1, <2>1, <2>4 DEF Inv, Ordered
  <2>7. latest[f] \in Nat /\ q[1] \in Nat
    <3>1. latest[f] \in Packets \cup {0}
      BY <1>1, <2>1 DEF Inv, TypeOK
    <3>2. \A p \in Packets \cup {0} : p \in Nat
      BY FeedAssumption DEF FeedAssumption, Packets
    <3>3. latest[f] \in Nat
      BY <3>1, <3>2, Zenon
    <3> QED
      BY <2>4, <3>2, <3>3
  <2> HIDE DEF q
  <2> QED
    BY <1>1, <2>5, <2>6, <2>7
<1>2. Inv /\ [Next]_vars =>
        [\A f \in subscribers \cap subscribers' :
           latest'[f] # latest[f] => latest'[f] > latest[f]]_vars
  BY <1>1
<1> QED
  BY <1>2, Invariance, PTL DEF InOrder, Spec

(* Once the stream has delivered what it carries, a PacketStream lists the *)
(* newest packet it has in the first row of its priority (groupEvents),    *)
(* and is not behind the newest one sent to it, for lists of any length,   *)
(* requests and priorities, and a history that answers late or never.      *)
THEOREM NewestFirst == Spec => []NewestOnTop
<1>1. ASSUME Inv, Carried, Listed, Shown
      PROVE  NewestOnTop
  <2> SUFFICES ASSUME Quiet, NEW f \in subscribers, Limit[f] > 0, owed[f] # 0
               PROVE  \E p \in owed[f]..published :
                        LET rows == groupEvents(events[f])
                        IN  \E n \in DOMAIN rows :
                              /\ p \in rows[n].attempts
                              /\ \A k \in DOMAIN events[f] : events[f][k] <= p
                              /\ \A m \in 1..(n - 1) : rows[m].priority < rows[n].priority
    BY DEF NewestOnTop
  <2>1. /\ f \in Feeds /\ events[f] \in Seq(Packets) /\ owed[f] \in Int /\ published \in Int
    BY <1>1, FeedAssumption DEF Inv, TypeOK, Packets, FeedAssumption
  <2>2. /\ events[f] # <<>> /\ Newest(events[f])
        /\ owed[f] <= events[f][Len(events[f])]
    BY <1>1, <2>1 DEF Shown, ShownTo, Last
  <2>3. Len(events[f]) \in DOMAIN events[f]
    BY <2>1, <2>2, EmptySeq
  <2>4. events[f][Len(events[f])] \in owed[f]..published
    <3>1. events[f][Len(events[f])] <= published /\ events[f][Len(events[f])] \in Packets
      BY <1>1, <2>1, <2>3 DEF Listed
    <3> QED
      BY <2>1, <2>2, <3>1, FeedAssumption DEF FeedAssumption, Packets
  <2>5. \E n \in DOMAIN groupEvents(events[f]) :
          /\ events[f][Len(events[f])] \in groupEvents(events[f])[n].attempts
          /\ \A m \in 1..(n - 1) :
               groupEvents(events[f])[m].priority < groupEvents(events[f])[n].priority
    BY <2>1, <2>2, LastOnTop DEF Newest
  <2> QED
    BY <2>2, <2>4, <2>5 DEF Newest
<1> QED
  BY <1>1, ShownAlways, PTL

===============================================================================
