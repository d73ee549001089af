------------------------------- MODULE Balancer -------------------------------
(***************************************************************************)
(* How internal/lb/balancer.go chooses a server for one request: the       *)
(* sticky session first, then the IP hash, then weighted round robin.      *)
(* The module holds the state the choice reads and the choice itself;      *)
(* module Dispatch drives it with concurrent request handlers.             *)
(*                                                                         *)
(* Abstractions.  A breaker and a ping bit are all that is kept of a       *)
(* server record.  The IP hash of a request is a server given as an        *)
(* argument, because the server list never changes while the program runs  *)
(* (no handler calls Manager.AddServer or RemoveServer).  Weighted round   *)
(* robin returns any of its candidates; module WeightedRoundRobin says     *)
(* which one.  A choice sees the servers at one instant, where the code    *)
(* reads them one after the other.                                         *)
(***************************************************************************)

CONSTANTS
  Servers,      \* IDs of the backend servers
  Sessions,     \* values of the session_id cookie
  Configs,      \* settings of the two flags: records [sticky, ipHash]
  NoServer,     \* the nil *server.Server
  NoSession     \* the empty session ID

VARIABLES
  breaker,            \* Server.CircuitBreakerState
  ping,               \* Server.PingStatus
  sessionToSrv,       \* StickySessions.sessionToSrv
  useStickySessions,  \* Balancer.UseStickySessions
  useIPHash           \* Balancer.UseIPHash

CBState == {"closed", "open", "halfOpen"}

BalancerTypeOK ==
  /\ breaker \in [Servers -> CBState]
  /\ ping \in [Servers -> BOOLEAN]
  /\ sessionToSrv \in [Sessions -> Servers \cup {NoServer}]
  /\ useStickySessions \in BOOLEAN
  /\ useIPHash \in BOOLEAN

(* main takes the flags from the environment. *)
Configure ==
  \E c \in Configs : useStickySessions = c.sticky /\ useIPHash = c.ipHash

(* initServerManager and NewStickySessions: everything healthy, nothing    *)
(* bound; the two flags come from the environment.                         *)
BalancerInit ==
  /\ breaker = [s \in Servers |-> "closed"]
  /\ ping = [s \in Servers |-> TRUE]
  /\ sessionToSrv = [x \in Sessions |-> NoServer]
  /\ Configure

Sticky(session) == useStickySessions /\ session # NoSession

(* Each strategy as the set of servers it may return; {} is its nil.       *)
StickyChoiceIgnoringExclude(session, exclude) ==  \* mutant
  {s \in Servers : Sticky(session) /\ sessionToSrv[session] = s /\ breaker[s] = "closed"}

StickyChoice(session, exclude) ==
  {s \in Servers \ exclude :
      Sticky(session) /\ sessionToSrv[session] = s /\ breaker[s] = "closed"}

HashChoiceIgnoringExclude(home, exclude) ==  \* mutant
  {s \in Servers : useIPHash /\ s = home /\ breaker[s] = "closed"}

HashChoice(home, exclude) ==
  {s \in Servers \ exclude : useIPHash /\ s = home /\ breaker[s] = "closed"}

Candidates(exclude) ==
  {s \in Servers \ exclude : ping[s] /\ breaker[s] = "closed"}

PicksHashFirst(session, home, exclude) ==  \* mutant
  LET sticky == StickyChoice(session, exclude)
      hashed == HashChoice(home, exclude)
  IN  IF hashed # {} THEN hashed
      ELSE IF sticky # {} THEN sticky
      ELSE Candidates(exclude)

(* The servers pickServerInternal may return, {} when it returns nil.      *)
Picks(session, home, exclude) ==
  LET sticky == StickyChoice(session, exclude)
      hashed == HashChoice(home, exclude)
  IN  IF sticky # {} THEN sticky
      ELSE IF hashed # {} THEN hashed
      ELSE Candidates(exclude)

(* pickServerInternal returning s: the session ends up bound to s whichever *)
(* of the three strategies found it.  One step, because b.mu is held; but   *)
(* updateConfig does not take b.mu, and the flag is read again for binding. *)
PickServer(session, home, exclude, s) ==
  /\ s \in Picks(session, home, exclude)
  /\ useStickySessions' \in {useStickySessions} \cup {c.sticky : c \in Configs}
  /\ sessionToSrv' = IF Sticky(session)'
                     THEN [sessionToSrv EXCEPT ![session] = s]
                     ELSE sessionToSrv
  /\ UNCHANGED <<breaker, ping, useIPHash>>

===============================================================================
