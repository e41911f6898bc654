SPECIFICATION SwitchSpec
CONSTANTS
  NumSwitches = 3
  LastStep = 2
  MaxEvents = 2
  Concurrent = FALSE
INVARIANTS
  SolvesWithFactorization
