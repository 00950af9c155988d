CONSTANTS
  Layouts <- AllLayouts
  MinClear = 8
  MaxSteps = 4
  Drags <- SlowDrags
  Flings = {0, 60}
  SystemZone = 22
SPECIFICATION Spec
CHECK_DEADLOCK FALSE
INVARIANTS TapHitsRow NoMovementAtEnd
PROPERTY StepsSkipNothing
