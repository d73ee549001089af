----------------------------- MODULE MCRoundRobin -----------------------------
(* Model checking SteadyRoundRobin: requests are interchangeable.          *)
EXTENDS SteadyRoundRobin, TLC

Interchangeable == Permutations(Requests)

===============================================================================
