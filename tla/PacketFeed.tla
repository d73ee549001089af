------------------------------ MODULE PacketFeed ------------------------------
(***************************************************************************)
(* The packet feed of the React dashboard: one EventSource shared by the   *)
(* components that use the hook (hooks/usePacketFeed.js), the list of      *)
(* PacketStream.jsx and the animation of TrafficVisualizer.jsx.            *)
(*                                                                         *)
(* Abstractions.  The k-th packet reported is k, and k is its time stamp:  *)
(* no two are of the same millisecond.  A step is one callback; React      *)
(* renders a component at any time after its state changed, once for all   *)
(* changes since.  A component that is mounted again starts afresh, so it  *)
(* is the same element of Feeds.  Whether a packet's server is on the      *)
(* screen is left open.  Of the attempts of a row only the set is kept.    *)
(* Parsing, colours and coordinates are left out.                          *)
(***************************************************************************)
EXTENDS Integers, FiniteSets, Sequences, SequencesExt

CONSTANTS
  Feeds,       \* components that use the hook
  Limit,       \* the argument of usePacketFeed: the length of the list, or 0
  Requests,
  RequestOf,   \* the request of each packet
  PriorityOf,  \* PRIORITY_ORDER of the priority of each request
  MaxPackets,  \* bound on packets reported
  MaxMounts,   \* bound on mounts of a component after the first
  MaxFaults    \* bound on breaks of the stream and lost history answers

Packets == 1..MaxPackets

ASSUME FeedAssumption ==
  /\ Limit \in [Feeds -> Nat]
  /\ RequestOf \in [Packets -> Requests]
  /\ PriorityOf \in [Requests -> Nat]
  /\ {MaxPackets, MaxMounts, MaxFaults} \subseteq Nat

Ids == {1, 2}        \* EventSource objects; a closed one is used again
None == 0

VARIABLES
  published,    \* packets reported by the balancer
  streams,      \* the EventSource objects
  eventSource,  \* the one the module refers to
  timers,       \* pending setTimeout(startEventSource, 2000)
  subscribers,
  events,       \* of each component
  latest,       \* of each component, 0 if null
  drawn,        \* the `latest` its effect last ran for
  particles,    \* particles of a TrafficVisualizer
  history,      \* its request for /api/packets
  mounts, faults,
  owed          \* history: the last packet sent to a component and not
                \*   dropped since, 0 if there is none

page == <<subscribers, history, mounts>>
view == <<events, latest, drawn, particles>>
link == <<streams, eventSource, timers>>
vars == <<published, link, page, view, faults, owed>>

Closed == [st |-> "closed", queue |-> <<>>]
Asked == [st |-> "asked", list |-> <<>>]
Answered(l) == [st |-> "answered", list |-> l]
Nothing == [st |-> "none", list |-> <<>>]

Live == {i \in Ids : streams[i].st # "closed"}

TypeOK ==
  /\ published \in 0..MaxPackets
  /\ \A i \in Ids :
       /\ streams[i].st \in {"closed", "connecting", "open"}
       /\ streams[i].queue \in Seq(Packets)
       /\ streams[i].st # "open" => streams[i].queue = <<>>
  /\ eventSource \in Ids \cup {None}
  /\ timers \in 0..MaxFaults
  /\ subscribers \subseteq Feeds
  /\ \A f \in Feeds : events[f] \in Seq(Packets) /\ Len(events[f]) <= Limit[f]
  /\ latest \in [Feeds -> Packets \cup {0}] /\ drawn \in [Feeds -> Packets \cup {0}]
  /\ particles \in [Feeds -> 0..MaxPackets]
  /\ \A f \in Feeds : history[f].st \in {"none", "asked", "answered"}
                      /\ Len(history[f].list) <= Limit[f]
  /\ mounts \in 0..MaxMounts /\ faults \in 0..MaxFaults
  /\ owed \in [Feeds -> Packets \cup {0}]

(* The components have been mounted, in any order, by the first render. *)
Init ==
  /\ published = 0
  /\ streams = [i \in Ids |-> IF i = 1 THEN [Closed EXCEPT !.st = "connecting"] ELSE Closed]
  /\ eventSource = 1
  /\ timers = 0
  /\ subscribers = Feeds
  /\ events = [f \in Feeds |-> <<>>]
  /\ latest = [f \in Feeds |-> 0] /\ drawn = latest
  /\ particles = [f \in Feeds |-> 0]
  /\ history = [f \in Feeds |-> IF Limit[f] > 0 THEN Asked ELSE Nothing]
  /\ mounts = 0 /\ faults = 0
  /\ owed = [f \in Feeds |-> 0]

-------------------------------------------------------------------------------
(* The shared stream.                                                      *)

startEventSourceAnyway ==  \* mutant: no test for a stream there is
  \E i \in Ids \ Live :
    /\ streams' = [streams EXCEPT ![i].st = "connecting"]
    /\ eventSource' = i

startEventSource ==
  IF eventSource # None THEN UNCHANGED <<streams, eventSource>>
  ELSE LET i == CHOOSE i \in Ids : i \notin Live IN
       /\ streams' = [streams EXCEPT ![i].st = "connecting"]
       /\ eventSource' = i

Close(i) == streams' = [streams EXCEPT ![i] = Closed]

(* What was on its way when a stream ends is owed to nobody. *)
Forget(i) ==
  owed' = IF streams[i].queue = <<>> THEN owed ELSE [f \in Feeds |-> 0]

stopEventSourceAlways(rest) ==  \* mutant: no test for other components
  IF eventSource # None
  THEN Close(eventSource) /\ eventSource' = None
  ELSE UNCHANGED <<streams, eventSource>>

stopEventSource(rest) ==
  IF eventSource # None /\ rest = {}
  THEN Close(eventSource) /\ eventSource' = None
  ELSE UNCHANGED <<streams, eventSource>>

Opens(i) ==
  /\ streams[i].st = "connecting"
  /\ streams' = [streams EXCEPT ![i].st = "open"]
  /\ UNCHANGED <<published, eventSource, timers, page, view, faults, owed>>

(* onerror *)
Breaks(i) ==
  /\ i \in Live
  /\ faults < MaxFaults /\ faults' = faults + 1
  /\ IF eventSource # None
     THEN Close(eventSource) /\ Forget(eventSource) /\ eventSource' = None
     ELSE UNCHANGED <<streams, eventSource, owed>>
  /\ timers' = timers + 1
  /\ UNCHANGED <<published, page, view>>

Retry ==
  /\ timers > 0
  /\ timers' = timers - 1
  /\ startEventSource
  /\ UNCHANGED <<published, page, view, faults, owed>>

-------------------------------------------------------------------------------
(* Mounting and unmounting a component: the effect of usePacketFeed.       *)

Mount(f) ==
  /\ f \notin subscribers
  /\ mounts < MaxMounts /\ mounts' = mounts + 1
  /\ subscribers' = subscribers \cup {f}
  /\ history' = [history EXCEPT ![f] = IF Limit[f] > 0 THEN Asked ELSE Nothing]
  /\ startEventSource
  /\ UNCHANGED <<published, timers, view, faults, owed>>

UnmountStoppingFirst(f) ==  \* mutant: the listener is removed after the test
  /\ f \in subscribers
  /\ subscribers' = subscribers \ {f}
  /\ history' = [history EXCEPT ![f] = Nothing]
  /\ stopEventSource(subscribers)
  /\ events' = [events EXCEPT ![f] = <<>>]
  /\ latest' = [latest EXCEPT ![f] = 0]
  /\ drawn' = [drawn EXCEPT ![f] = 0]
  /\ particles' = [particles EXCEPT ![f] = 0]
  /\ owed' = [owed EXCEPT ![f] = 0]
  /\ UNCHANGED <<published, timers, mounts, faults>>

Unmount(f) ==
  /\ f \in subscribers
  /\ subscribers' = subscribers \ {f}
  /\ history' = [history EXCEPT ![f] = Nothing]
  /\ stopEventSource(subscribers')
  /\ events' = [events EXCEPT ![f] = <<>>]
  /\ latest' = [latest EXCEPT ![f] = 0]
  /\ drawn' = [drawn EXCEPT ![f] = 0]
  /\ particles' = [particles EXCEPT ![f] = 0]
  /\ owed' = [owed EXCEPT ![f] = 0]
  /\ UNCHANGED <<published, timers, mounts, faults>>

-------------------------------------------------------------------------------
(* Packets and history.                                                    *)

(* The balancer reports a packet; an open stream carries it to those that  *)
(* are subscribed when it arrives.                                         *)
Publish ==
  /\ published < MaxPackets
  /\ published' = published + 1
  /\ streams' = [i \in Ids |-> IF streams[i].st = "open"
                               THEN [streams[i] EXCEPT !.queue = Append(@, published')]
                               ELSE streams[i]]
  /\ owed' = [f \in Feeds |-> IF f \in subscribers
                                 /\ eventSource # None /\ streams[eventSource].st = "open"
                              THEN published' ELSE owed[f]]
  /\ UNCHANGED <<eventSource, timers, page, view, faults>>

AppendShiftingLate(list, p, limit) ==  \* mutant: the length before the packet
  IF Len(list) > limit THEN Tail(Append(list, p)) ELSE Append(list, p)

(* next.shift() beyond the limit *)
AppendTo(list, p, limit) ==
  LET next == Append(list, p)
  IN  IF Len(next) > limit THEN Tail(next) ELSE next

(* onmessage: the listeners of all subscribers *)
Deliver(i) ==
  /\ streams[i].queue # <<>>
  /\ LET p == Head(streams[i].queue) IN
       /\ streams' = [streams EXCEPT ![i].queue = Tail(@)]
       /\ events' = [f \in Feeds |-> IF f \in subscribers
                                     THEN AppendTo(events[f], p, Limit[f]) ELSE events[f]]
       /\ latest' = [f \in Feeds |-> IF f \in subscribers THEN p ELSE latest[f]]
  /\ UNCHANGED <<published, eventSource, timers, page, drawn, particles, faults, owed>>

(* GET /api/packets?limit=... *)
getPackets(f) ==
  /\ history[f] = Asked
  /\ LET n == IF published < Limit[f] THEN published ELSE Limit[f]
     IN  history' = [history EXCEPT ![f] =
                       Answered([k \in 1..n |-> published - n + k])]
  /\ UNCHANGED <<published, link, subscribers, mounts, view, faults, owed>>

(* The answer replaces the list, live packets included. *)
HistoryReturns(f) ==
  /\ history[f].st = "answered"
  /\ history' = [history EXCEPT ![f] = Nothing]
  /\ events' = [events EXCEPT ![f] = history[f].list]
  /\ owed' = [owed EXCEPT ![f] =
                IF Contains(events[f], @) /\ ~Contains(history[f].list, @) THEN 0 ELSE @]
  /\ UNCHANGED <<published, link, subscribers, mounts, latest, drawn, particles, faults>>

HistoryFails(f) ==
  /\ history[f] # Nothing
  /\ faults < MaxFaults /\ faults' = faults + 1
  /\ history' = [history EXCEPT ![f] = Nothing]
  /\ UNCHANGED <<published, link, subscribers, mounts, view, owed>>

-------------------------------------------------------------------------------
(* TrafficVisualizer.                                                      *)

(* The effect on `latest` adds a particle if the server is on the screen;  *)
(* packets that arrived since it last ran, but for the last, are skipped.  *)
Draw(f) ==
  /\ Limit[f] = 0
  /\ latest[f] # drawn[f]
  /\ drawn' = [drawn EXCEPT ![f] = latest[f]]
  /\ particles' = particles \/ particles' = [particles EXCEPT ![f] = @ + 1]
  /\ UNCHANGED <<published, link, page, events, latest, faults, owed>>

FadeOnce(f) ==  \* mutant: the timer is set for the first particle only
  /\ particles[f] = 1
  /\ particles' = [particles EXCEPT ![f] = @ - 1]
  /\ UNCHANGED <<published, link, page, events, latest, drawn, faults, owed>>

(* The timer, set again whenever `particles` changes, removes the oldest. *)
Fade(f) ==
  /\ particles[f] > 0
  /\ particles' = [particles EXCEPT ![f] = @ - 1]
  /\ UNCHANGED <<published, link, page, events, latest, drawn, faults, owed>>

-------------------------------------------------------------------------------
(* PacketStream: the rows shown for a list of packets.                     *)

Row(id, list) ==
  LET attempts == {k \in DOMAIN list : RequestOf[list[k]] = id}
  IN  [id |-> id, priority |-> PriorityOf[id], attempts |-> {list[k] : k \in attempts},
       lastUpdated |-> list[Max(attempts)]]

AboveOldest(a, b) ==  \* mutant: the rows of a priority in ascending order
  a.priority < b.priority \/ (a.priority = b.priority /\ a.lastUpdated < b.lastUpdated)

Above(a, b) ==
  a.priority < b.priority \/ (a.priority = b.priority /\ a.lastUpdated > b.lastUpdated)

(* list.sort: the rows of all requests, each above those after it. *)
groupEvents(list) ==
  LET entries == {Row(RequestOf[list[k]], list) : k \in DOMAIN list}
  IN  CHOOSE rows \in [1..Cardinality(entries) -> entries] :
        \A m, n \in DOMAIN rows : m < n => Above(rows[m], rows[n])

-------------------------------------------------------------------------------
Next ==
  \/ Publish \/ Retry
  \/ \E i \in Ids : Opens(i) \/ Breaks(i) \/ Deliver(i)
  \/ \E f \in Feeds : \/ Mount(f) \/ Unmount(f)
                      \/ getPackets(f) \/ HistoryReturns(f) \/ HistoryFails(f)
                      \/ Draw(f) \/ Fade(f)

Spec == Init /\ [][Next]_vars

(* Timers fire, an attempt to connect succeeds or breaks, what was sent    *)
(* arrives, and React renders.                                             *)
Fairness ==
  /\ WF_vars(Retry)
  /\ \A i \in Ids : WF_vars(Opens(i)) /\ WF_vars(Deliver(i))
  /\ \A f \in Feeds : WF_vars(Draw(f)) /\ WF_vars(Fade(f))

FairSpec == Spec /\ Fairness

-------------------------------------------------------------------------------
(* Correctness.                                                            *)

(* The last component to leave closes the stream, whatever the others did  *)
(* before: a stream that nobody listens to was opened by a retry timer     *)
(* that was still pending then.                                            *)
ClosedWithLast ==
  [][\A f \in Feeds : subscribers = {f} /\ subscribers' = {} => \A i \in Ids : streams'[i] = Closed]_vars

(* A component never goes back to a packet before the one it showed last,  *)
(* although streams are closed and opened again under it.                  *)
InOrder ==
  [][\A f \in subscribers \cap subscribers' : latest'[f] # latest[f] => latest'[f] > latest[f]]_vars

Quiet == \A i \in Ids : streams[i].queue = <<>>

(* Once the stream has delivered what it carries, a PacketStream is not    *)
(* behind the newest packet sent to it, and the newest packet it has is in *)
(* the first row of its priority.  It may be behind only if the stream     *)
(* broke with packets on their way or the history, asked for before,       *)
(* replaced them.                                                          *)
NewestOnTop ==
  Quiet => \A f \in subscribers : Limit[f] > 0 /\ owed[f] # 0 =>
    \E p \in owed[f]..published :
      LET rows == groupEvents(events[f])
      IN  \E n \in DOMAIN rows :
            /\ p \in rows[n].attempts
            /\ \A k \in DOMAIN events[f] : events[f][k] <= p
            /\ \A m \in 1..(n - 1) : rows[m].priority < rows[n].priority

(* Components that stay mounted are connected again after every break.     *)
Reconnects == <>[](subscribers # {} => eventSource # None /\ streams[eventSource].st = "open")

(* When no more packets come the animation ends with no particle left      *)
(* standing.                                                               *)
Drains == \A f \in Feeds : <>[](particles[f] = 0)

===============================================================================
