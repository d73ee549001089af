--------------------------- MODULE SteadyRoundRobin ---------------------------
(***************************************************************************)
(* The behaviours of WeightedRoundRobin, of two kinds.  Between two health *)
(* checks nothing may fail: fixed weights, every server up, no retries.    *)
(* Then each server has a share to get.  Otherwise requests exclude        *)
(* servers, servers come and go and weights change between any two picks.  *)
(***************************************************************************)
EXTENDS WeightedRoundRobin

VARIABLE served  \* history: picks of each server in the current cycle, if calm

steadyVars == <<vars, served>>

(* A cycle is as many picks as the weights add up to, or one for each      *)
(* server when there are no weights.                                       *)
Length == IF Total(Servers) > 0 THEN Total(Servers) ELSE N

Share(i) == IF Total(Servers) > 0 THEN weight[i] ELSE 1

Picked == MapThenSumSet(LAMBDA i : served[i], Servers)

SteadyInit == Init /\ served = [i \in Servers |-> 0]

Serve(i) ==
  /\ PickServer({}, i)
  /\ served' = IF Picked = Length THEN [j \in Servers |-> IF j = i THEN 1 ELSE 0]
               ELSE [served EXCEPT ![i] = @ + 1]
  /\ UNCHANGED <<calm, weight, up, attempted>>

Next ==
  \/ calm /\ \E i \in Servers : Serve(i)
  \/ ~calm /\ UNCHANGED served /\ \E r \in Requests : Dispatch(r) \/ Answer(r)
  \/ ~calm /\ UNCHANGED served /\ \E i \in Servers : Flip(i) \/ Reweigh(i)

Spec == SteadyInit /\ [][Next]_steadyVars

(* Every cycle gives each server exactly its share and ends where it       *)
(* started, so the shares are exact for ever.                              *)
ExactShare ==
  calm /\ Picked = Length => \A i \in Servers : served[i] = Share(i) /\ currentWeights[i] = 0

(* Smoothness: at no point inside a cycle has a server had a whole pick    *)
(* more or less than its share of the picks so far.                        *)
Smooth ==
  calm => \A i \in Servers :
     LET lead == served[i] * Length - Picked * Share(i)
     IN  -Length < lead /\ lead < Length

===============================================================================
