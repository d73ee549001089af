\* A list and an animation share a stream that breaks while they come and go.
SPECIFICATION FairSpec
CONSTANTS
  list = list  map = map  r1 = r1  r2 = r2  r3 = r3
  Feeds = {list, map}
  Limit <- MCLimit
  Requests = {r1, r2, r3}
  RequestOf <- MCRequestOf
  PriorityOf <- MCPriorityOf
  MaxPackets = 4
  MaxMounts = 2
  MaxFaults = 2
INVARIANTS TypeOK 
PROPERTIES ClosedWithLast InOrder Reconnects Drains
CHECK_DEADLOCK FALSE
