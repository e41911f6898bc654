SPECIFICATION FairSpec
CONSTANTS
  t1 = t1
  t2 = t2
  caller = caller
  none = none
  Threads <- MCThreads
  Caller <- caller
  None <- none
  Ops = {"start", "pause"}
  Careful = TRUE
  FinalTime = 3
  CountCap = 3
  ChanCap = 9
  MaxFds = 0
  RealTime = FALSE
  FailOnOverrun = FALSE
  ArgSingleStepping = FALSE
  ArgStartSync = FALSE
PROPERTY PauseReturns
CHECK_DEADLOCK FALSE
