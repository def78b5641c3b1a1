\* Content is tracked: two byte values, every order of calls.
CONSTANTS
  MEMPOOL_NUM_MEMBLOCKS = 3
  MEMPOOL_STARTADDRESS = 1
  MEMPOOL_SIZE = 4
  RequestSizes = {1, 2, 3, 5}
  Byte = {0, 1}
SPECIFICATION FairSpec
INVARIANTS
  TypeOK
  IInv
  BlocksDisjoint
PROPERTIES
  FailsOnlyWhenFull
  CollectTerminates
  Implements
