CONSTANTS
  r1 = r1
  r2 = r2
  RunId = {r1, r2}
SPECIFICATION WebFairSpec
INVARIANT DrainsAcked
PROPERTIES DrainEnds CancelEnds
CHECK_DEADLOCK FALSE
