SPECIFICATION FairSpec
CONSTANTS
  t1 = t1
  t2 = t2
  t3 = t3
  Thread = {t1, t2, t3}
  Lookups = {t1}
  FirstMaxSize = 2
  AddressModulus = 16
  MaxSegments = 5
  MallocMayFail = TRUE
  ReallocMayFail = TRUE
INVARIANTS TypeOK AddressesResolve DestroyFreesAll
PROPERTIES AllocReturnsButForRealloc
