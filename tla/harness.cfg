SPECIFICATION FairGSpec
CONSTANTS
  w1 = w1
  w2 = w2
  w3 = w3
  Worker = {w1, w2, w3}
  First = w1
  Last = 3
  ThrowRounds = {1, 2, 3}
  Timed = TRUE
INVARIANTS GradingTypeOK Meeting NotifiedIsAwake ExitCode UnloadsIdle
PROPERTIES ImplementsRounds GradingEnds
CHECK_DEADLOCK FALSE
