SPECIFICATION BSpec
CONSTANTS
  t1 = t1
  t2 = t2
  u1 = u1
  Tx = {t1, t2}
  PerSegment = 3
  InitBalance = 1
  Trigger = 0
  Ids <- ToTheLast
  Decrements = 0
  Jobs <- RemovalJobs
  Word <- Words
  Unit = {u1}
  Val <- Values
  InitVal = 0
  Bit <- Values
  Bits <- OwnBits
  Client <- AnyClient
  MaxReads = 4
  MaxWrites = 4
  MaxClock = 20
  VersionModulus = 32
  MallocMayFail = FALSE
INVARIANTS SumsAddUp
