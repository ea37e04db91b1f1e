CONSTANTS
  r1 = r1
  c1 = c1
  RunId = {r1}
  Conn = {c1}
SPECIFICATION EndingSpec
PROPERTY StoppingStops
CHECK_DEADLOCK FALSE
