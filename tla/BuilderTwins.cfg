CONSTANTS
  c1 = c1
  c2 = c2
  l1 = l1
  Coarse = {c1}
  Launchers = {}
  Digest = {d1, d2, d3}
  NoDigest = NoDigest
  FamilyMax = 2
  Observable = {d1, d2, d3, NoDigest}
  Merges = {"twins"}
  Gestures = {"click"}
  Unsettled = {c1}
  Edits = {"confirm", "correct"}
  MaxCommits = 2
  MaxStaged = 2
  MaxFocused = 1
  Namespace <- AppOf
  Shows <- OneTwin
SPECIFICATION Spec
CHECK_DEADLOCK FALSE
INVARIANTS TraceFaithful CommitsKept EndpointsFaithful ProvisionalExact StagedOnce SubmitCarriesAll
