CONSTANTS
  LauncherNs = "launcher"
  NoHandle = "none"
  NoPlace = "nowhere"
  HomeScreen = "launcher"
  Places <- AllPlaces
  Place <- WelcomePage
  Nodes = {1, 2, 3, 4, 5, 6, 7, 8}
  Node <- NodeOf
  Edges <- AllEdges
  Worlds <- SomeWorlds
  Targets = {4, 7, 8}
  Leads <- TapLeads
  Scrolled <- ScrolledOf
  Starts = {"launcher", "archive", "welcome", "clock"}
  Bolts = {"welcome", "foreign", "ad"}
  Restless = {"welcome", "clock"}
  StepCap = 7
  MaxRestarts = 2
  MaxWalks = 2
  MaxSwipes = 2
  MaxSurprises = 2
SPECIFICATION Spec
CHECK_DEADLOCK FALSE
INVARIANTS NoFalseArrival NoFalseExhaustion
PROPERTIES ArrivesWhenCalm
