SPECIFICATION ClientSpec
CONSTANTS
  t1 = t1
  t2 = t2
  caller = caller
  none = none
  Threads <- MCThreads
  Caller <- caller
  None <- none
  Ops = {"start", "step", "pause", "stop", "get", "dealloc"}
  Careful = TRUE
  FinalTime = 9
  CountCap = 3
  ChanCap = 3
  MaxFds = 1
  RealTime = FALSE
  FailOnOverrun = FALSE
  ArgSingleStepping = TRUE
  ArgStartSync = TRUE
INVARIANTS
  PausedMeansParked
  NoLostWakeup
  StepBudget
  SendNeverBlocks
  LockDiscipline
  OneThread
  NoUseAfterFree
PROPERTIES
  EndlessCallReturns
  ImplementsLifecycle
  FiniteRunsToCompletion
