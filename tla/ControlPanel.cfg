\* Two servers, the first of them disabled; three clicks, failed pings or lost messages.
SPECIFICATION FairSpec
CONSTANTS
  N = 2
  Off = {1}
  MaxPolls = 1
  Budget = 3
  Burst = 2
INVARIANTS TypeOK Generator OneScenario ConfigInSync
PROPERTIES TrafficStops
