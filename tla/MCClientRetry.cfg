\* One tab and a voter who keeps trying; another voter joins, the browser may lose its data, one ballot.
SPECIFICATION FairSpec
CONSTANTS
  t1 = t1  t2 = t2  i1 = i1  i2 = i2  c1 = c1  c2 = c2
  None = None
  Tabs = {t1}
  Identities = {i1, i2}
  Choices = {c1}
  Weights = {1, 2}
  MaxOverwrites = 0
  MaxOthers = 1
  MaxClears = 1
  Slots = {1, 2}
PROPERTIES BallotEventuallyCast
CHECK_DEADLOCK FALSE
