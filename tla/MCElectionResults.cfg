\* A committee of three and an election with a single key, and the admin's page.
CONSTANTS
  m1 = m1  m2 = m2  m3 = m3  v1 = v1  v2 = v2  None = None  Junk = Junk
  ORDER = 5
  NumOptions = 2
  Committee <- MCCommittee
  Threshold = 2
  MaxDraws = 2
  MaxDeals = 2
  HandBytes <- MCHandBytes
  SingleKeys = {1}
  Voters <- MCVoters
  PastedKeys = {0}
  MAX_LOG_RANGE = 2
  MaxBallots = 3
  MaxTallies = 1
SPECIFICATION ResultsSpec
ACTION_CONSTRAINT Focus
INVARIANTS
  TypeOK SharesReconstruct SharesSecret ShareOpens
  ResultSound
PROPERTIES
  TallyEnds
