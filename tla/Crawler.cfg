CONSTANTS
  Apps <- SmallApps
  RootOf <- SmallRoot
  None = None
  Package = "app"
  MaxActions = 12
  MaxDepth = 2
  MaxScrolls = 2
  MaxBacks = 4
  MaxLost = 2
SPECIFICATION Spec
CHECK_DEADLOCK FALSE
INVARIANTS WorksOneScreen AllTried
PROPERTY Terminates
