\* Two servers; three clicks, failed pings or lost messages.
SPECIFICATION FairSpec
CONSTANTS
  N = 2
  Off = {1}
  MaxPolls = 2
  Budget = 2
  Burst = 2
  MaxTests = 1
INVARIANTS TypeOK Controls TalliesAgree ScenarioExclusive SweepRestores
PROPERTIES Converges ScenarioEnds
