\* Liveness: the monitor probes every open breaker.
SPECIFICATION FairSpec
CONSTANTS
  Requests = {r1, r2}
  Operators = {o1}
  Outcomes = {"failure", "success"}
  FailureThreshold = 1
  TrialRequests = 1
PROPERTIES Probed
