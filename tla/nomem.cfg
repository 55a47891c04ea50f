\* No thread reads or writes: what keeps a call from returning is the failed
\* realloc alone.
SPECIFICATION FairSpec
CONSTANTS
  t1 = t1
  t2 = t2
  t3 = t3
  Thread = {t1, t2}
  Lookups = {}
  FirstMaxSize = 2
  AddressModulus = 16
  MaxSegments = 4
  MallocMayFail = FALSE
  ReallocMayFail = TRUE
PROPERTIES AllocReturns
