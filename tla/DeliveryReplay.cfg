CONSTANTS
  c1 = c1
  a1 = a1
  Conn = {c1}
  Att = {a1}
  MaxSequence = 3
  MaxReplay = 2
  Capacity = 1
SPECIFICATION Spec
INVARIANT ReplayFromCursor
CHECK_DEADLOCK FALSE
