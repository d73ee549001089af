------------------------------- MODULE Failover -------------------------------
(***************************************************************************)
(* What the balancer promises a client, whatever strategy picks servers    *)
(* and however handlers interleave: a request is worked on by one server   *)
(* at a time and never twice by the same one, a server works on no more    *)
(* requests at once than its capacity allows, and a request is answered    *)
(* once, "served" only by a server that was working on it, and never       *)
(* worked on again.  Module Dispatch is shown to implement this.           *)
(***************************************************************************)
EXTENDS Integers, FiniteSets

CONSTANTS
  Servers,
  Requests,   \* a finite set
  NoServer,   \* a request that no server has been assigned
  Capacity    \* requests a server may work on at the same time

VARIABLES
  tried,     \* servers a request has been assigned so far
  assigned,  \* the server a request is assigned now
  working,   \* requests their assigned server is working on
  answer,    \* what a request was answered
  lent       \* capacity granted on top of Capacity, per server

vars == <<tried, assigned, working, answer, lent>>

Answers == {"none", "served", "refused"}

TypeOK ==
  /\ tried \in [Requests -> SUBSET Servers]
  /\ assigned \in [Requests -> Servers \cup {NoServer}]
  /\ working \subseteq Requests
  /\ answer \in [Requests -> Answers]
  /\ lent \in [Servers -> Nat]

Init ==
  /\ tried = [r \in Requests |-> {}]
  /\ assigned = [r \in Requests |-> NoServer]
  /\ working = {}
  /\ answer = [r \in Requests |-> "none"]
  /\ lent = [s \in Servers |-> 0]

Waiting(r) == answer[r] = "none" /\ assigned[r] = NoServer

Offered(r) == assigned[r] # NoServer /\ r \notin working

Load(s) == {r \in working : assigned[r] = s}

Try(r, s) ==
  /\ Waiting(r)
  /\ s \notin tried[r]
  /\ tried' = [tried EXCEPT ![r] = @ \cup {s}]
  /\ assigned' = [assigned EXCEPT ![r] = s]
  /\ UNCHANGED <<working, answer, lent>>

Skip(r) ==
  /\ Offered(r)
  /\ assigned' = [assigned EXCEPT ![r] = NoServer]
  /\ UNCHANGED <<tried, working, answer, lent>>

Admit(r) ==
  /\ Offered(r)
  /\ Cardinality(Load(assigned[r])) < Capacity + lent[assigned[r]]
  /\ working' = working \cup {r}
  /\ UNCHANGED <<tried, assigned, answer, lent>>

(* The work ends, with an answer or without. *)
Stop(r) ==
  /\ r \in working
  /\ working' = working \ {r}
  /\ assigned' = [assigned EXCEPT ![r] = NoServer]
  /\ UNCHANGED <<tried, lent>>

Fail(r) == Stop(r) /\ UNCHANGED answer

Serve(r) == Stop(r) /\ answer' = [answer EXCEPT ![r] = "served"]

Refuse(r) ==
  /\ Waiting(r)
  /\ answer' = [answer EXCEPT ![r] = "refused"]
  /\ UNCHANGED <<tried, assigned, working, lent>>

Lend(s) ==
  /\ lent' = [lent EXCEPT ![s] = @ + 1]
  /\ UNCHANGED <<tried, assigned, working, answer>>

Next ==
  \/ \E r \in Requests :
        \/ \E s \in Servers : Try(r, s)
        \/ Skip(r) \/ Admit(r) \/ Fail(r) \/ Serve(r) \/ Refuse(r)
  \/ \E s \in Servers : Lend(s)

Spec == Init /\ [][Next]_vars

===============================================================================
