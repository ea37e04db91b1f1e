CONSTANTS
  r1 = r1
  c1 = c1
  RunId = {r1}
  Caller = {c1}
  MaxSequence = 4
  MaxReplay = 2
  EncodeCanFail = TRUE
SPECIFICATION Spec
INVARIANT FinishedWasActive
