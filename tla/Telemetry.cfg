\* Two requests report to one dashboard while another client polls the metrics.
SPECIFICATION FairSpec
CONSTANTS
  Requests = {r1, r2}
  Stages = 1
  Clients = {c1}
  Pollers = {m1}
  Buffer = 1
  maxPacketHistory = 1
INVARIANTS TypeOK SendsOpen NoGap
PROPERTIES  GoneUnsubscribed
