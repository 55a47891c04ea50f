SPECIFICATION FairGSpec
CONSTANTS
  w1 = w1
  w2 = w2
  w3 = w3
  Worker = {w1, w2}
  First = w1
  Last = 1
  ThrowRounds = {}
  Timed = FALSE
PROPERTIES Bounded
CHECK_DEADLOCK FALSE
