SPECIFICATION Spec
CONSTANTS
  Objects <- MCObjects
  Kind <- MCKind
  Domain <- MCDomain
  Name <- MCName
  AttrNames <- MCAttrNames
  Type <- MCType
  Solved <- MCSolved
  Indices = {0, 1}
  Modes <- MCModes
  Terminals <- MCTerminals
  Capacity = 2
  Lengths = {1, 2}
  Files <- MCFiles
  MaxCalls = 3
  MaxSteps = 2
  None = None
INVARIANTS
  DescribedSlots
  ImportsTakeEffect
  RowsMatchHeader
CHECK_DEADLOCK FALSE
