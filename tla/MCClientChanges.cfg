\* One tab, two overwrites.
SPECIFICATION Spec
CONSTANTS
  t1 = t1  t2 = t2  i1 = i1  i2 = i2  c1 = c1  c2 = c2
  None = None
  Tabs = {t1}
  Identities = {i1, i2}
  Choices = {c1}
  Weights = {1}
  MaxOverwrites = 2
  MaxOthers = 0
  MaxClears = 0
  Slots = {1}
INVARIANTS ChangesRemainingReal
CHECK_DEADLOCK FALSE
