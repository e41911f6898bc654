SPECIFICATION QueueSpec
CONSTANTS
  b1 = b1
  b2 = b2
  b3 = b3
  c1 = c1
  c2 = c2
  none = none
  Contexts = {"explicit", "implicit"}
  Consumers <- MCConsumers
  Blocks <- MCBlocks
  PoolSize = 1
  None <- none
  BlockSize = 2
  IndexMod = 64
  MaxSubqueueSize = 8
  InitialIndexSize = 2
  MaxIndexSize = 4
  MaxBulk = 3
  MaxTail = 7
  MaxOvercommit <- MCMaxOvercommit
SYMMETRY Symmetry
INVARIANTS
  ClaimsCovered
  BlocksAccounted
  DestroysExactly
PROPERTIES
  ImplementsFifo
CHECK_DEADLOCK FALSE
