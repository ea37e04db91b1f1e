CONSTANTS
  q1 = q1
  q2 = q2
  q3 = q3
  Req = {q1, q2, q3}
  Major = 0
  Minor = 4
  Majors = {0, 1}
  Minors = {3, 4, 5}
  MaxEvents = 1
  Room = 1
SPECIFICATION FairSpec
INVARIANTS TypeOK NoneForgotten AnsweredByOwn SpeakSame
PROPERTIES EveryRequestEnds DriveReturns
CHECK_DEADLOCK FALSE
