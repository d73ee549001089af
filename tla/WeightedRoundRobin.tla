-------------------------- MODULE WeightedRoundRobin --------------------------
(***************************************************************************)
(* WeightedRoundRobin.PickServer (internal/lb/weighted_round_robin.go):    *)
(* smooth weighted round robin with exclusions, and a plain round robin    *)
(* when every candidate has weight zero.                                   *)
(*                                                                         *)
(* Abstractions.  Weights are integers: the code's floats, rounding apart. *)
(* An ID absent from currentWeights and one mapped to zero are the same,   *)
(* as Go's += makes them.  Whether a server's PingStatus and breaker let   *)
(* it take part is one bit, flipped at any time.  A pick is one step,      *)
(* w.mu being held: it reads each server once, so it sees nothing that     *)
(* changes made between two picks could not show it.                       *)
(***************************************************************************)
EXTENDS Integers, FiniteSetsExt

CONSTANTS
  N,          \* number of servers; server i is the i-th of the manager's slice
  CalmWeight, \* bound on Server.CurrentWeight while nothing is disturbed
  MaxWeight,  \* and while weights change and servers fail
  Requests,   \* requests in their retry loop at the same time
  Wrap        \* bound on fallbackIndex, a common multiple of 1..N

ASSUME WRRAssumption ==
  /\ N \in Nat \ {0}
  /\ {CalmWeight, MaxWeight} \subseteq Nat
  /\ Wrap \in Nat \ {0} /\ \A n \in 1..N : Wrap % n = 0

Servers == 1..N

VARIABLES
  calm,            \* does nothing fail, and no weight change, in this behaviour?
  weight,          \* Server.CurrentWeight
  up,              \* PingStatus and a closed breaker
  currentWeights,  \* WeightedRoundRobin.currentWeights
  fallbackIndex,   \* WeightedRoundRobin.fallbackIndex, modulo Wrap
  attempted,       \* the exclude map of each request
  waited           \* history: picks a server has been passed over in a row,
                   \*   each time as a candidate with a positive weight

vars == <<calm, weight, up, currentWeights, fallbackIndex, attempted, waited>>

Total(S) == MapThenSumSet(LAMBDA i : weight[i], S)

Heaviness == IF calm THEN CalmWeight ELSE MaxWeight

Weights == 0..Heaviness

(* Twice what the other servers can weigh. *)
Limit == 2 * (N - 1) * Heaviness

TypeOK ==
  /\ calm \in BOOLEAN
  /\ weight \in [Servers -> Weights]
  /\ up \in [Servers -> BOOLEAN]
  /\ currentWeights \in [Servers -> Int]
  /\ fallbackIndex \in 0..(Wrap - 1)
  /\ attempted \in [Requests -> SUBSET Servers]
  /\ waited \in [Servers -> Nat]

(* A server's CurrentWeight is zero until the first health check; any      *)
(* weights may have been set by the time of the first pick.                *)
Init ==
  /\ calm \in BOOLEAN
  /\ weight \in [Servers -> Weights]
  /\ up = [i \in Servers |-> TRUE]
  /\ currentWeights = [i \in Servers |-> 0]
  /\ fallbackIndex = 0
  /\ attempted = [r \in Requests |-> {}]
  /\ waited = [i \in Servers |-> 0]

-------------------------------------------------------------------------------
Candidates(exclude) == {i \in Servers \ exclude : up[i]}

RaisedFromZero(cands) ==  \* mutant: the sum is not carried over
  [i \in Servers |-> IF i \in cands THEN weight[i] ELSE 0]

(* What the scan adds up: servers that cannot take part, and those of      *)
(* weight zero, start again from zero.                                     *)
Raised(cands) ==
  [i \in Servers |-> IF i \in cands /\ weight[i] > 0
                     THEN currentWeights[i] + weight[i] ELSE 0]

(* The first candidate with the largest sum. *)
Heaviest(cands, sum) ==
  CHOOSE i \in cands : \A j \in cands :
     sum[j] <= sum[i] /\ (sum[j] = sum[i] => i <= j)

(* candidates[fallbackIndex % len(candidates)] *)
InTurn(cands) ==
  CHOOSE i \in cands :
     Cardinality({j \in cands : j < i}) = fallbackIndex % Cardinality(cands)

WeighUndiscounted(cands, chosen) ==  \* mutant: the chosen one is not discounted
  /\ Total(cands) > 0
  /\ LET sum == Raised(cands)
     IN  chosen = Heaviest(cands, sum) /\ currentWeights' = sum
  /\ fallbackIndex' = 0

WeighDiscountingOwn(cands, chosen) ==  \* mutant: minus its own weight, not the total
  /\ Total(cands) > 0
  /\ LET sum == Raised(cands)
     IN  /\ chosen = Heaviest(cands, sum)
         /\ currentWeights' = [sum EXCEPT ![chosen] = @ - weight[chosen]]
  /\ fallbackIndex' = 0

Weigh(cands, chosen) ==
  /\ Total(cands) > 0
  /\ LET sum == Raised(cands)
     IN  /\ chosen = Heaviest(cands, sum)
         /\ currentWeights' = [sum EXCEPT ![chosen] = @ - Total(cands)]
  /\ fallbackIndex' = 0

TakeTurnsStuck(cands, chosen) ==  \* mutant: fallbackIndex is not advanced
  /\ Total(cands) = 0
  /\ chosen = InTurn(cands)
  /\ currentWeights' = [i \in Servers |-> 0]
  /\ UNCHANGED fallbackIndex

TakeTurnsBackwards(cands, chosen) ==  \* mutant: fallbackIndex goes down
  /\ Total(cands) = 0
  /\ chosen = InTurn(cands)
  /\ currentWeights' = [i \in Servers |-> 0]
  /\ fallbackIndex' = fallbackIndex - 1

TakeTurns(cands, chosen) ==
  /\ Total(cands) = 0
  /\ chosen = InTurn(cands)
  /\ currentWeights' = [i \in Servers |-> 0]
  /\ fallbackIndex' = (fallbackIndex + 1) % Wrap

(* PickServer(exclude) returning chosen. *)
PickServer(exclude, chosen) ==
  LET cands == Candidates(exclude) IN
  /\ chosen \in cands
  /\ Weigh(cands, chosen) \/ TakeTurns(cands, chosen)
  /\ waited' = [i \in Servers |->
                  IF i \in cands \ {chosen} /\ weight[i] > 0 THEN waited[i] + 1 ELSE 0]

(* PickServer(exclude) returning nil: the scan has reset every entry. *)
PickNone(exclude) ==
  /\ Candidates(exclude) = {}
  /\ currentWeights' = [i \in Servers |-> 0]
  /\ waited' = [i \in Servers |-> 0]
  /\ UNCHANGED fallbackIndex

-------------------------------------------------------------------------------
(* The requests, and what changes under them.                              *)

Dispatch(r) ==
  /\ \/ \E chosen \in Servers :
          /\ PickServer(attempted[r], chosen)
          /\ attempted' = [attempted EXCEPT ![r] = @ \cup {chosen}]
     \/ /\ PickNone(attempted[r])
        /\ attempted' = [attempted EXCEPT ![r] = {}]
  /\ UNCHANGED <<calm, weight, up>>

Answer(r) ==
  /\ attempted[r] # {}
  /\ attempted' = [attempted EXCEPT ![r] = {}]
  /\ UNCHANGED <<calm, weight, up, currentWeights, fallbackIndex, waited>>

(* A ping fails or is answered again, a breaker opens or closes. *)
Flip(i) ==
  /\ up' = [up EXCEPT ![i] = ~@]
  /\ UNCHANGED <<calm, weight, currentWeights, fallbackIndex, attempted, waited>>

(* checkServers writes the weights one server at a time. *)
Reweigh(i) ==
  /\ \E w \in Weights : weight' = [weight EXCEPT ![i] = w]
  /\ UNCHANGED <<calm, up, currentWeights, fallbackIndex, attempted, waited>>

-------------------------------------------------------------------------------
(* Correctness.                                                            *)

(* The bookkeeping never runs away: whatever requests exclude, however     *)
(* servers come and go and weights change between picks, no entry passes   *)
(* twice what the other servers can weigh, up or down.  Exclusion forgives *)
(* a server its debt, so the entries need not sum to zero and no test with *)
(* fixed candidates shows this.                                            *)
Bounded == \A i \in Servers : -Limit <= currentWeights[i] /\ currentWeights[i] <= Limit

(* No starvation: a server that could be picked on weight is passed over   *)
(* at most 2 * Limit times in a row, from the deepest debt to the highest  *)
(* credit, although retries, failing servers and new weights keep          *)
(* disturbing the rotation.                                                *)
NoStarvation == \A i \in Servers : waited[i] <= 2 * Limit

===============================================================================
