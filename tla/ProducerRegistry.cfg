SPECIFICATION Spec
CONSTANTS
  t1 = t1
  t2 = t2
  t3 = t3
  k1 = k1
  k2 = k2
  c1 = c1
  c2 = c2
  none = none
  Threads <- MCThreads
  Tokens <- MCTokens
  ConsumerTokens <- MCConsumerTokens
  None <- none
  Hash <- MCHash
  InitialCapacity = 2
  Quota = 1
  OffsetMod = 8
  MaxCapacity = 8
  MaxProducers = 4
  MaxItems = 2
  Budgets <- MCBudgets
SYMMETRY Symmetry
INVARIANTS
  OneOwner
  TokensLinked
  FreeSlot
  NothingOverlooked
CHECK_DEADLOCK FALSE
