\* Two handlers, an operator, the monitor and the health checker race.
SPECIFICATION Spec
CONSTANTS
  Requests = {r1, r2}
  Operators = {o1}
  Outcomes = {"failure", "success"}
  FailureThreshold = 2
  TrialRequests = 2
SYMMETRY Interchangeable
INVARIANTS TypeOK AtRest
