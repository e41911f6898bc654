SPECIFICATION SolverSpec
CONSTANTS
  ArgLists <- MCArgLists
  Numbers = {"1", "2"}
  Dates = {"date"}
  Pair <- MCPair
  NoArg = NoArg
  NodeLists <- MCNodeLists
  CompLists <- MCCompLists
  SteadyState = TRUE
  MaxIter = 3
  SWITCH_NUM = 1
  Word = 16
  MaxSteps = 2
  NumSwitches = 2
  LastStep = 3
  MaxEvents = 3
  Concurrent = FALSE
INVARIANTS
  ReadsLikeReference
  RowsAssigned
  DifferenceDefined
  DaePositions
  DueEventsDone
  MatrixCurrent
