\* The committee instance again: can signup be left for good?
SPECIFICATION FairSpec
CONSTANTS
  v1 = v1  v2 = v2  i1 = i1  i2 = i2  i3 = i3  admin = admin  m1 = m1  m2 = m2
  None = None  b1 = b1  b2 = b2  k1 = k1  k2 = k2
  Voters = {v1}
  VotingIds = {i1}
  Versions = {0}
  Attempts = {0}
  Ballots = {b1}
  Accounts = {admin, m1, m2}
  Admin = admin
  NumOptions = 2
  Tallies <- MCTallies
  MemberLists <- MCMemberLists
  PubKeys = {k1, k2}
  ElectionKeys = {k1, k2}
  Shares = {k1, k2}
  Deadlines = {0, 1, 2}
  MaxTime = 3

PROPERTIES SignupEventuallyCloses
CHECK_DEADLOCK FALSE
