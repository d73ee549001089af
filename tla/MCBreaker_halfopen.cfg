\* readme.md:26 against a balancer that only picks closed breakers.
SPECIFICATION FairSpec
CONSTANTS
  Requests = {r1, r2}
  Operators = {}
  Outcomes = {"failure", "success"}
  FailureThreshold = 1
  TrialRequests = 1
PROPERTIES TrialsDecide
