SPECIFICATION SurroundingsSpec
CONSTANTS
  a = a
  b = b
  Sims <- MCSims
  Peer <- MCPeer
  Modes <- AllModes
  LastStep = 6
  QueueLen = 3
  Capacity = 2
  SockCap = 2
  MaxEvents = 8
  Builds = {"timerfd", "fallback"}
  Interval = 3
  FinalStep = 5
  StartTimes <- MCStartTimes
  Now0 = 3
  MaxNow = 26
  Word = 64
INVARIANTS
  StartBarrier
  
  FollowsPeer
  ReadsSucceed
  DeliveredInOrder
  ClockKept
PROPERTIES
  PeersFinishOrUnderrun
  SimulateReturns
  CallbackReached
  SleepReturns
