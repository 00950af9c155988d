CONSTANTS
  c1 = c1
  c2 = c2
  l1 = l1
  Coarse = {c1}
  Launchers = {}
  Digest = {d1, d2}
  NoDigest = NoDigest
  FamilyMax = 2
  Observable = {d1, d2}
  Merges = {"twins"}
  Gestures = {"click", "swipe"}
  Unsettled = {}
  Edits = {"reject"}
  MaxCommits = 3
  MaxStaged = 0
  MaxFocused = 0
  Namespace <- AppOf
  Shows <- OneTwin
SPECIFICATION Spec
CHECK_DEADLOCK FALSE
INVARIANTS TraceFaithful
