SPECIFICATION Spec
CONSTANTS
  t1 = t1
  t2 = t2
  t3 = t3
  Thread = {t1, t2}
  Lookups = {t1, t2}
  FirstMaxSize = 2
  AddressModulus = 16
  MaxSegments = 4
  MallocMayFail = FALSE
  ReallocMayFail = FALSE
INVARIANTS LookupsFindTable
