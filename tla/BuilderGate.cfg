CONSTANTS
  c1 = c1
  c2 = c2
  l1 = l1
  Coarse = {c1, l1}
  Launchers = {l1}
  Digest = {d1, d2}
  NoDigest = NoDigest
  FamilyMax = 2
  Observable = {d1, d2}
  Merges = {"plain"}
  Gestures = {"swipe"}
  Unsettled = {}
  Edits = {"resume", "reject"}
  MaxCommits = 1
  MaxStaged = 0
  MaxFocused = 1
  Namespace <- AppOf
  Shows <- OneTwin
SPECIFICATION Spec
CHECK_DEADLOCK FALSE
INVARIANT AnchorsPinned
PROPERTY GateSpec
