CONSTANTS
  r1 = r1
  r2 = r2
  c1 = c1
  c2 = c2
  RunId = {r1, r2}
  Caller = {c1, c2}
  MaxSequence = 2
  MaxReplay = 1
  EncodeCanFail = FALSE
SPECIFICATION FairSpec
INVARIANTS TypeOK JournalsExact ActivityExact CancelAnsweredTerminal StartAcceptedOnce
PROPERTIES TerminalIsFinal ImplementsLifecycle ImplementsFairLifecycle CancelEndsRun
