SPECIFICATION Spec
CONSTANTS
  t1 = t1
  t2 = t2
  t3 = t3
  Thread = {t1, t2, t3}
  Segments = 3
  Words = 5
  MallocMayFail = TRUE
  InitBalance = 1
  TxPerWorker = 2
INVARIANTS TypeOK ListIntact ChainIsLive MoneyConserved SumsMatch DestroyFreesAll
