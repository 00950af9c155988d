CONSTANTS
  Coarse = {c1}
  Launchers = {}
  Digest = {d1, d2, d3}
  NoDigest = NoDigest
  FamilyMax = 2
  Observable = {d1, d2, d3, NoDigest}
  Merges = {"twins", "plain"}
  Namespace <- OwnActivity
SPECIFICATION Spec
CHECK_DEADLOCK FALSE
INVARIANT CurrentIsNode
