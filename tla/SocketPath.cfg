CONSTANTS
  d1 = d1
  d2 = d2
  d3 = d3
  Daemon = {d1, d2, d3}
SPECIFICATION FairSpec
INVARIANTS TypeOK Reachable SomeoneReachable
PROPERTY Recovers
CHECK_DEADLOCK FALSE
