CONSTANTS
  c1 = c1
  c2 = c2
  c3 = c3
  d1 = d1
  d2 = d2
  Coarse = {c1, c2, c3}
  Launchers = {}
  Digest = {d1, d2}
  NoDigest = NoDigest
  NoField = NoField
  FamilyMax = 2
  Observable = {d1, d2}
  Merges = {}
  Home <- FirstForm
  HastyHome <- OtherApp
  Views <- TwoForms
  Namespace <- AppOf
  Field <- FormField
  Autofocus = {c2}
  Unsettled = {c3}
  Need = 2
  MaxTouches = 3
  MaxHasty = 2
  MaxQueue = 2
  MaxDisturbances = 1
SPECIFICATION Spec
CHECK_DEADLOCK FALSE
INVARIANTS NoTextLost TextStaysInApp TapAttributed TagsAreNodes StopReports
