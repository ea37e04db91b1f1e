CONSTANTS
  r1 = r1
  r2 = r2
  c1 = c1
  c2 = c2
  c3 = c3
  RunId = {r1, r2}
  Conn = {c1, c2, c3}
SPECIFICATION FairSpec
INVARIANTS TypeOK StopsOnlyWhenIdle
PROPERTIES AdmissionCloses TerminateStops
CHECK_DEADLOCK FALSE
