SPECIFICATION SwitchSpec
CONSTANTS
  NumSwitches = 1
  LastStep = 2
  MaxEvents = 1
  Concurrent = FALSE
INVARIANTS
  SwitchesOnTime
