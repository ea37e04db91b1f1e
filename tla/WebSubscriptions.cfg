CONSTANTS
  c1 = c1
  c2 = c2
  r1 = r1
  r2 = r2
  Conn = {c1, c2}
  Run = {r1, r2}
  MaxGeneration = 2
  MaxEvents = 1
SPECIFICATION FairSpec
INVARIANTS TypeOK NoStaleEntry NoOrphan
PROPERTY LostIsReleased
CHECK_DEADLOCK FALSE
