SPECIFICATION HSpec
CONSTANTS
  t1 = t1
  t2 = t2
  x = x
  y = y
  u1 = u1
  u2 = u2
  Tx = {t1, t2}
  Word = {x, y}
  Unit = {u1}
  Val = {0, 1, 2}
  InitVal = 0
  Bit = {0, 1, 2}
  Bits <- OwnBits
  Client <- UpdateClient
  MaxReads = 1
  MaxWrites = 2
  MaxClock = 2
  VersionModulus = 8
  MallocMayFail = FALSE
INVARIANTS WrittenIsFound
