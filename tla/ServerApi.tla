------------------------------ MODULE ServerApi ------------------------------
(***************************************************************************)
(* What a dashboard page sees of the balancer: GET /api/servers returns    *)
(* the list of servers, POST .../toggle and .../reset change one of them   *)
(* (internal/api/api.go).  A page runs one event at a time, but its        *)
(* fetches overlap: they are handled and return in any order, and each may *)
(* be lost before or after it was handled.                                 *)
(*                                                                         *)
(* Abstractions.  Of a server only PingStatus is kept, the one field a     *)
(* page decides by.  Two fetches of the list in the same state are one.    *)
(* The accesses inside a toggle are the subject of module Breaker.         *)
(***************************************************************************)
EXTENDS Integers, FiniteSets

CONSTANTS
  N,         \* number of servers; server s is the s-th of the list
  Off,       \* servers that are disabled when the page is opened
  MaxPolls,  \* bound on the fetches of the list the interval keeps in flight
  Budget     \* bound on clicks that call the API, failed pings and lost messages

Servers == 1..N

ASSUME ServerApiAssumption == {N, MaxPolls, Budget} \subseteq Nat \ {0} /\ Off \subseteq Servers

VARIABLES
  enabled,  \* Server.PingStatus
  list,     \* the page's `servers`
  polls,    \* fetches of /api/servers in flight
  calls,    \* fetches of toggle and reset in flight
  budget    \* what is left of Budget

Lists == [Servers -> BOOLEAN]
NoServers == <<>>

(* A fetch is "sent", then handled ("ok"), and its promise is resolved, or *)
(* rejected if it is "lost".                                               *)
Sent == [st |-> "sent", list |-> NoServers]
Lost == [st |-> "lost", list |-> NoServers]
Answer(l) == [st |-> "ok", list |-> l]

AllPolls == {Sent, Lost} \cup {Answer(l) : l \in Lists}

Call(op, srv, by) == [op |-> op, srv |-> srv, by |-> by, st |-> "sent"]
AllCalls == [op : {"toggle", "reset"}, srv : Servers,
             by : {"card", "drill", "sweep", "left"}, st : {"sent", "ok", "lost"}]

ApiTypeOK ==
  /\ enabled \in Lists
  /\ list \in Lists \cup {NoServers}
  /\ polls \subseteq AllPolls
  /\ calls \subseteq AllCalls
  /\ budget \in 0..Budget

ApiInit ==
  /\ enabled = [s \in Servers |-> s \notin Off]
  /\ list = NoServers
  /\ polls = {Sent}
  /\ calls = {}
  /\ budget = Budget

Spend == budget > 0 /\ budget' = budget - 1

Online(l) == \E s \in DOMAIN l : l[s]

FirstOnlineFromZero(l) ==  \* mutant: an index that counts from zero
  (CHOOSE s \in DOMAIN l : l[s] /\ \A t \in 1..(s - 1) : ~l[t]) - 1

(* servers.find(server => server.PingStatus) *)
FirstOnline(l) == CHOOSE s \in DOMAIN l : l[s] /\ \A t \in 1..(s - 1) : ~l[t]

From(by) == {c \in calls : c.by = by}

-------------------------------------------------------------------------------
(* The server's side, and the network's.  None of it touches the page.     *)

GetServers ==
  /\ Sent \in polls
  /\ polls' = (polls \ {Sent}) \cup {Answer(enabled)}
  /\ UNCHANGED <<enabled, calls, budget>>

LosePoll ==
  /\ Spend
  /\ \E p \in polls \ {Lost} : polls' = (polls \ {p}) \cup {Lost}
  /\ UNCHANGED <<enabled, calls>>

Handle(c) ==
  /\ c.st = "sent"
  /\ enabled' = [enabled EXCEPT ![c.srv] = IF c.op = "toggle" THEN ~@ ELSE TRUE]
  /\ calls' = (calls \ {c}) \cup {[c EXCEPT !.st = "ok"]}
  /\ UNCHANGED <<polls, budget>>

LoseCall(c) ==
  /\ Spend
  /\ c.st # "lost"
  /\ calls' = (calls \ {c}) \cup {[c EXCEPT !.st = "lost"]}
  /\ UNCHANGED <<enabled, polls>>

(* A ping by the health checker has another result than the last. *)
Ping(s) ==
  /\ Spend
  /\ enabled' = [enabled EXCEPT ![s] = ~@]
  /\ UNCHANGED <<polls, calls>>

===============================================================================
