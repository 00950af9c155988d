CONSTANTS
  Coarse = {c1, c2}
  Launchers = {}
  Digest = {d1, d2, d3}
  NoDigest = NoDigest
  FamilyMax = 2
  Observable = {d1, d2, d3}
  Merges = {"twins"}
  Namespace <- OwnActivity
SPECIFICATION Spec
SYMMETRY Symmetry
CHECK_DEADLOCK FALSE
INVARIANTS TypeOK NoForkedFamily GateNeverRaises TwinsRecomputable FamilyBounded
  ExhaustedStaysCoarse LookupAgreesWithGate
PROPERTIES NoSilentRemerge TagsFollow
