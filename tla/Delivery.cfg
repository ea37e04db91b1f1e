CONSTANTS
  c1 = c1
  a1 = a1
  a2 = a2
  Conn = {c1}
  Att = {a1, a2}
  MaxSequence = 3
  MaxReplay = 2
  Capacity = 1
SPECIFICATION FairSpec
INVARIANTS TypeOK InOrder NothingLost EndsOnlyExpired
PROPERTIES Gapless Delivers LetsGo
CHECK_DEADLOCK FALSE
