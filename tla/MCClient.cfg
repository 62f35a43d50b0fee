\* Two tabs of one browser, one join by another voter.
SPECIFICATION Spec
CONSTANTS
  t1 = t1  t2 = t2  i1 = i1  i2 = i2  c1 = c1  c2 = c2
  None = None
  Tabs = {t1, t2}
  Identities = {i1, i2}
  Choices = {c1, c2}
  Weights = {1}
  MaxOverwrites = 1
  MaxOthers = 1
  MaxClears = 0
  Slots = {1}
INVARIANTS VersionsInOrder DoneMeansCounted JoinedIdentityKept
SYMMETRY MCSymmetry
PROPERTIES SavedVersionGrows
CHECK_DEADLOCK FALSE
