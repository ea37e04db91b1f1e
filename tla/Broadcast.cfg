CONSTANTS
  s1 = s1
  s2 = s2
  r1 = r1
  r2 = r2
  Sender = {s1, s2}
  Receiver = {r1, r2}
  MaxSends = 4
  Capacity = 2
SPECIFICATION FairSpec
INVARIANTS TypeOK Accounted
PROPERTY Wakes
CHECK_DEADLOCK FALSE
