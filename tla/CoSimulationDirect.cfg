SPECIFICATION FairSpec
CONSTANTS
  a = a
  b = b
  Sims <- MCSims
  Peer <- MCPeer
  Modes <- Direct
  LastStep = 6
  QueueLen = 3
  Capacity = 2
CHECK_DEADLOCK FALSE
PROPERTIES
  BothFinish
