\* Two requests of one session, two servers, every strategy, reconfigured at will.
SPECIFICATION FairSpec
CONSTANTS
  s1 = s1  s2 = s2  s3 = s3  r1 = r1  r2 = r2  r3 = r3  x1 = x1
  NoServer = NoServer
  NoSession = NoSession
  Servers = {s1, s2}
  Sessions = {x1}
  Configs <- AllConfigs
  Requests = {r1, r2}
  TestRequests = {r2}
  Operators = {}
  SessionOf <- MCSessionOf
  HomeOf <- MCHomeOf
  Faulty = {s1}
  BusyThreshold = 1
  FailureThreshold = 2
  TrialRequests = 1
INVARIANTS AttemptsDistinct
PROPERTIES  SessionMovesForCause ImplementsFailover RequestsAnswered
