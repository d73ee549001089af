------------------------------- MODULE Telemetry -------------------------------
(***************************************************************************)
(* How a request reports on itself: RecordAndBroadcastPacketEvent          *)
(* (internal/metrics/metrics.go) appends each packet event to a bounded    *)
(* history and publishes it through the EventSystem (internal/events/      *)
(* events.go) to the channels of the dashboards that handleEvents          *)
(* (internal/api/api.go) is streaming to.                                  *)
(*                                                                         *)
(* Two read-write mutexes matter.  mm.mutex guards the history: recording  *)
(* is one step under its write lock, while GET /api/metrics keeps the read *)
(* lock until its client has taken the answer.  subscribersMutex guards    *)
(* the subscribers: Publish sends to them one by one under the read lock.  *)
(* As in Go's RWMutex a reader has to wait behind a waiting writer.        *)
(*                                                                         *)
(* Abstractions.  The log of non-packet events is written but never read   *)
(* (GetRecentEvents has no caller) and is left out, as are the totals of   *)
(* LBMetrics (RecordRequest takes the same lock as recording an event) and *)
(* keep-alive comments.  A client is one connection.  An event older than  *)
(* the limit of GET /api/packets is like one that is not in the history.   *)
(***************************************************************************)
EXTENDS Integers, Sequences, SequencesExt

CONSTANTS
  Requests,          \* handler goroutines
  Stages,            \* packet events a request reports
  Clients,           \* connections to /api/events
  Pollers,           \* clients of /api/metrics
  Buffer,            \* capacity of a Subscriber channel
  maxPacketHistory

ASSUME TelemetryAssumption ==
  /\ Stages \in Nat
  /\ Buffer \in Nat \ {0}
  /\ maxPacketHistory \in Nat \ {0}
  /\ Requests \cap Clients = {}

VARIABLES
  pc,             \* where the goroutine of a request or a client is
  stage,          \* the packet event a request reports next
  todo,           \* subscribers a publisher has still to send to
  packetHistory,  \* MetricsManager.packetHistory
  subscribers,    \* EventSystem.subscribers
  channel,        \* the buffer of each client's Subscriber
  left,           \* clients whose connection is closed
  reading,        \* pollers whose handler holds mm.mutex for reading
  fetched,        \* clients that have loaded the packet history
  evicted,        \* history: events dropped from packetHistory
  settled         \* history: packet events a client need not wait for; those
                  \*   in the history it loaded or evicted before, those put
                  \*   into its channel and those dropped because it was full

recordVars == <<packetHistory, evicted>>
dashboardVars == <<fetched, settled>>
vars == <<pc, stage, todo, recordVars, subscribers, channel, left, reading, dashboardVars>>

Publishers == Requests \cup Clients

Packets == Requests \X (1..Stages)

(* What p is publishing; everything that is not a packet event is alike. *)
Info == <<"info">>
Event(p) == IF p \in Requests /\ stage[p] <= Stages THEN <<p, stage[p]>> ELSE Info

(* record, subscribe and leave: waiting in Lock().  publish: about to call *)
(* RLock().  sending: holding it.                                          *)
RequestPc == {"working", "record", "publish", "sending", "done"}
ClientPc == {"away", "subscribe", "publish", "sending", "streaming", "leave", "gone"}

TypeOK ==
  /\ pc \in [Publishers -> RequestPc \cup ClientPc]
  /\ \A r \in Requests : pc[r] \in RequestPc
  /\ \A c \in Clients : pc[c] \in ClientPc
  /\ stage \in [Requests -> 1..(Stages + 2)]
  /\ todo \in [Publishers -> SUBSET Clients]
  /\ packetHistory \in Seq(Packets) /\ Len(packetHistory) <= maxPacketHistory
  /\ subscribers \subseteq Clients
  /\ channel \in [Clients -> Seq(Packets \cup {Info})]
  /\ \A c \in Clients : Len(channel[c]) <= Buffer
  /\ left \subseteq Clients
  /\ reading \subseteq Pollers
  /\ fetched \subseteq Clients
  /\ evicted \subseteq Packets
  /\ settled \in [Clients -> SUBSET Packets]

Init ==
  /\ pc = [p \in Publishers |-> IF p \in Requests THEN "working" ELSE "away"]
  /\ stage = [r \in Requests |-> 1]
  /\ todo = [p \in Publishers |-> {}]
  /\ packetHistory = <<>>
  /\ subscribers = {}
  /\ channel = [c \in Clients |-> <<>>]
  /\ left = {}
  /\ reading = {}
  /\ fetched = {}
  /\ evicted = {}
  /\ settled = [c \in Clients |-> {}]

Goto(p, from, to) == pc[p] = from /\ pc' = [pc EXCEPT ![p] = to]

-------------------------------------------------------------------------------
(* Requests: Stages packet events, then one event that is not a packet.    *)

Report(r) ==
  /\ stage[r] <= Stages + 1
  /\ Goto(r, "working", IF stage[r] <= Stages THEN "record" ELSE "publish")
  /\ UNCHANGED <<stage, todo, recordVars, subscribers, channel, left, reading, dashboardVars>>

Answer(r) ==
  /\ stage[r] > Stages + 1
  /\ Goto(r, "working", "done")
  /\ UNCHANGED <<stage, todo, recordVars, subscribers, channel, left, reading, dashboardVars>>

FullLate == Len(packetHistory) > maxPacketHistory  \* mutant

Full == Len(packetHistory) >= maxPacketHistory

RecordPacketEvent(r) ==
  /\ reading = {}
  /\ Goto(r, "record", "publish")
  /\ packetHistory' = Append(IF Full THEN Tail(packetHistory) ELSE packetHistory, Event(r))
  /\ evicted' = evicted \cup (IF Full THEN {Head(packetHistory)} ELSE {})
  /\ UNCHANGED <<stage, todo, subscribers, channel, left, reading, dashboardVars>>

-------------------------------------------------------------------------------
(* Publish, called by requests and by handleEvents.                        *)

WaitingWriters == {c \in Clients : pc[c] \in {"subscribe", "leave"}}

BeginPublish(p) ==
  /\ WaitingWriters = {}
  /\ Goto(p, "publish", "sending")
  /\ todo' = [todo EXCEPT ![p] = subscribers]
  /\ UNCHANGED <<stage, recordVars, subscribers, channel, left, reading, dashboardVars>>

SendBlocking(p, c) ==  \* mutant: a send without a default case
  /\ c \in todo[p]
  /\ Len(channel[c]) < Buffer
  /\ todo' = [todo EXCEPT ![p] = @ \ {c}]
  /\ channel' = [channel EXCEPT ![c] = Append(@, Event(p))]
  /\ settled' = [settled EXCEPT ![c] = @ \cup ({Event(p)} \ {Info})]
  /\ UNCHANGED <<pc, stage, recordVars, subscribers, left, reading, fetched>>

(* A full channel drops the event. *)
Send(p, c) ==
  /\ c \in todo[p]
  /\ todo' = [todo EXCEPT ![p] = @ \ {c}]
  /\ channel' = [channel EXCEPT ![c] =
                   IF Len(@) < Buffer THEN Append(@, Event(p)) ELSE @]
  /\ settled' = [settled EXCEPT ![c] = @ \cup ({Event(p)} \ {Info})]
  /\ UNCHANGED <<pc, stage, recordVars, subscribers, left, reading, fetched>>

EndPublish(p) ==
  /\ todo[p] = {}
  /\ Goto(p, "sending", IF p \in Requests THEN "working" ELSE "streaming")
  /\ stage' = [r \in Requests |-> IF r = p THEN stage[r] + 1 ELSE stage[r]]
  /\ UNCHANGED <<todo, recordVars, subscribers, channel, left, reading, dashboardVars>>

Publish(p) == BeginPublish(p) \/ EndPublish(p) \/ \E c \in Clients : Send(p, c)

-------------------------------------------------------------------------------
(* handleEvents: subscribe, welcome, stream until the client is gone.      *)

Sending == {p \in Publishers : pc[p] = "sending"}

Connect(c) ==
  /\ Goto(c, "away", "subscribe")
  /\ UNCHANGED <<stage, todo, recordVars, subscribers, channel, left, reading, dashboardVars>>

Subscribe(c) ==
  /\ Sending = {}
  /\ Goto(c, "subscribe", "publish")
  /\ subscribers' = subscribers \cup {c}
  /\ UNCHANGED <<stage, todo, recordVars, channel, left, reading, dashboardVars>>

Receive(c) ==
  /\ pc[c] = "streaming"
  /\ channel[c] # <<>>
  /\ channel' = [channel EXCEPT ![c] = Tail(@)]
  /\ UNCHANGED <<pc, stage, todo, recordVars, subscribers, left, reading, dashboardVars>>

Disconnect(c) ==
  /\ pc[c] # "away"
  /\ left' = left \cup {c}
  /\ UNCHANGED <<pc, stage, todo, recordVars, subscribers, channel, reading, dashboardVars>>

NoticeWithoutDefer(c) ==  \* mutant: no deferred Unsubscribe
  /\ c \in left
  /\ Goto(c, "streaming", "gone")
  /\ UNCHANGED <<stage, todo, recordVars, subscribers, channel, left, reading, dashboardVars>>

Notice(c) ==
  /\ c \in left
  /\ Goto(c, "streaming", "leave")
  /\ UNCHANGED <<stage, todo, recordVars, subscribers, channel, left, reading, dashboardVars>>

UnsubscribeUnlocked(c) ==  \* mutant: subscribersMutex is not taken
  /\ Goto(c, "leave", "gone")
  /\ subscribers' = subscribers \ {c}
  /\ UNCHANGED <<stage, todo, recordVars, channel, left, reading, dashboardVars>>

(* Deletes the subscriber and closes its channel. *)
Unsubscribe(c) ==
  /\ Sending = {}
  /\ Goto(c, "leave", "gone")
  /\ subscribers' = subscribers \ {c}
  /\ UNCHANGED <<stage, todo, recordVars, channel, left, reading, dashboardVars>>

handleEvents(c) == Subscribe(c) \/ Publish(c) \/ Notice(c) \/ Unsubscribe(c)

-------------------------------------------------------------------------------
(* The read-only calls.                                                    *)

Recording == {r \in Requests : pc[r] = "record"}

(* GET /api/packets by a dashboard that is subscribed already. *)
GetPacketHistoryShort(c) ==  \* mutant: misses the newest event
  /\ c \in subscribers
  /\ Recording = {}
  /\ packetHistory # <<>>
  /\ settled' = [settled EXCEPT ![c] = @ \cup evicted \cup Range(Front(packetHistory))]
  /\ fetched' = fetched \cup {c}
  /\ UNCHANGED <<pc, stage, todo, recordVars, subscribers, channel, left, reading>>

GetPacketHistory(c) ==
  /\ c \in subscribers
  /\ Recording = {}
  /\ settled' = [settled EXCEPT ![c] = @ \cup evicted \cup Range(packetHistory)]
  /\ fetched' = fetched \cup {c}
  /\ UNCHANGED <<pc, stage, todo, recordVars, subscribers, channel, left, reading>>

(* GET /api/metrics. *)
BeginRead(m) ==
  /\ m \notin reading
  /\ Recording = {}
  /\ reading' = reading \cup {m}
  /\ UNCHANGED <<pc, stage, todo, recordVars, subscribers, channel, left, dashboardVars>>

EndRead(m) ==
  /\ m \in reading
  /\ reading' = reading \ {m}
  /\ UNCHANGED <<pc, stage, todo, recordVars, subscribers, channel, left, dashboardVars>>

-------------------------------------------------------------------------------
handleRequest(r) == Report(r) \/ RecordPacketEvent(r) \/ Publish(r) \/ Answer(r)

Next ==
  \/ \E r \in Requests : handleRequest(r)
  \/ \E c \in Clients :
        Connect(c) \/ handleEvents(c) \/ Receive(c) \/ Disconnect(c) \/ GetPacketHistory(c)
  \/ \E m \in Pollers : BeginRead(m) \/ EndRead(m)

Spec == Init /\ [][Next]_vars

(* Goroutines are scheduled, and who polls /api/metrics takes the answer.  *)
(* Dashboards need not read their stream, nor go away.                     *)
Fairness ==
  /\ \A r \in Requests : WF_vars(handleRequest(r))
  /\ \A c \in Clients : WF_vars(handleEvents(c))
  /\ \A m \in Pollers : WF_vars(EndRead(m))

FairSpec == Spec /\ Fairness

-------------------------------------------------------------------------------
(* Correctness.                                                            *)

(* No send on a closed channel, which would panic in a request handler:    *)
(* while a publisher is on its way through the subscribers none of those   *)
(* it has still to reach is unsubscribed, whenever clients go away.        *)
SendsOpen == \A p \in Publishers : todo[p] \subseteq subscribers

(* A dashboard that has subscribed and then loaded the history has no gap: *)
(* each event reported is in the history it loaded (or was too old for it), *)
(* was put into its channel, or found the channel full.  It needs the      *)
(* event to be recorded before it is published.                            *)
NoGap ==
  \A c \in subscribers \cap fetched, e \in Packets :
     stage[e[1]] > e[2] => e \in settled[c]

(* Telemetry never holds a request up for good: not by a dashboard that    *)
(* stops reading its stream, not by pollers that keep coming.              *)
RequestsReturn == \A r \in Requests : pc[r] = "working" ~> pc[r] = "done"

(* A client that is gone does not stay subscribed.                         *)
GoneUnsubscribed == \A c \in Clients : c \in left ~> c \notin subscribers

===============================================================================
