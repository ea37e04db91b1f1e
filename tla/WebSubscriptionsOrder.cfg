CONSTANTS
  c1 = c1
  r1 = r1
  Conn = {c1}
  Run = {r1}
  MaxGeneration = 1
  MaxEvents = 1
SPECIFICATION Spec
INVARIANT ResponseFirst
CHECK_DEADLOCK FALSE
