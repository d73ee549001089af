\* Three requests race for one server while two operators toggle and reset it.
SPECIFICATION Spec
CONSTANTS
  s1 = s1  s2 = s2  s3 = s3  r1 = r1  r2 = r2  r3 = r3  x1 = x1
  NoServer = NoServer
  NoSession = NoSession
  Servers = {s1}
  Sessions = {x1}
  Configs <- StickyConfig
  Requests = {r1, r2, r3}
  TestRequests = {r2}
  Operators = {o1, o2}
  SessionOf <- MCSessionOf
  HomeOf <- MCHomeOf
  Faulty = {s1}
  BusyThreshold = 1
  FailureThreshold = 2
  TrialRequests = 2
INVARIANTS TypeOK Accounting BusyCap 
