CONSTANTS
  Protocols = {"type_b", "btn_touch"}
  Slots = {0, 1}
  Points <- Places
  PanelX = 3
  PanelY = 2
  SwipePx = 48
  RawSwipe = 30
  Starts <- ThreeContacts
  MaxMoves = 1
  MaxTicks = 1
SPECIFICATION Spec
CHECK_DEADLOCK FALSE
INVARIANTS GesturesAsMade NoHalfTouch
