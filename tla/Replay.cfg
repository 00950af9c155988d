CONSTANTS
  Screen <- Screens
  Launcher = {"home"}
  Package <- Packages
  Namespace <- Namespaces
  Nothing = Nothing
  Elsewhere = Elsewhere
  Recordings <- AllRecordings
  Registries <- AllRegistries
  Goals = {"a1", "a2", "nowhere"}
  Decoys <- Lookalikes
  Alike <- SameRows
  Blurred = {"a2"}
  GotoBudget = 2
  MaxMoves = 1
SPECIFICATION Spec
CHECK_DEADLOCK FALSE
INVARIANTS InOrder RowsInTheirList OncePerVisit CalmRunCompletes
PROPERTY Terminates
