------------------------------- MODULE MCBreaker -------------------------------
(* Model checking Breaker: handlers are interchangeable, and so are        *)
(* operators.                                                              *)
EXTENDS Breaker, TLC

Interchangeable == Permutations(Requests) \cup Permutations(Operators)

===============================================================================
