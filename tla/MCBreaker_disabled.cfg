\* api.go:156 against reports of requests still in flight.
SPECIFICATION Spec
CONSTANTS
  Requests = {r1, r2}
  Operators = {o1}
  Outcomes = {"failure", "success"}
  FailureThreshold = 1
  TrialRequests = 1
PROPERTIES DisabledSkipped
