CONSTANTS
  c1 = c1
  c2 = c2
  c3 = c3
  d1 = d1
  d2 = d2
  Coarse = {c1, c2, c3}
  Launchers = {}
  Digest = {d1, d2}
  NoDigest = NoDigest
  NoField = NoField
  FamilyMax = 2
  Observable = {d1, d2}
  Merges = {}
  Home <- FirstForm
  HastyHome <- OtherApp
  Views <- PlainForms
  Namespace <- AppOf
  Field <- FormField
  Autofocus = {c2}
  Unsettled = {c3}
  Need = 2
  MaxTouches = 4
  MaxHasty = 0
  MaxQueue = 2
  MaxDisturbances = 0
SPECIFICATION Spec
CHECK_DEADLOCK FALSE
INVARIANT TextRidesOwnForm
