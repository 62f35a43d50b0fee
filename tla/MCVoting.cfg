\* Signup, join, vote and tally, without a committee.
SPECIFICATION Spec
CONSTANTS
  v1 = v1  v2 = v2  i1 = i1  i2 = i2  i3 = i3  admin = admin  m1 = m1  m2 = m2
  None = None  b1 = b1  b2 = b2  k1 = k1  k2 = k2
  Voters = {v1, v2}
  VotingIds = {i1, i2, i3}
  Versions = {0, 1}
  Attempts = {0, 1, 2}
  Ballots = {b1, b2}
  Accounts = {admin, m1}
  Admin = admin
  NumOptions = 2
  Tallies <- MCTallies
  MemberLists <- MCNoLists
  PubKeys = {}
  ElectionKeys = {}
  Shares = {}
  Deadlines = {0, 1, 2}
  MaxTime = 3
SYMMETRY MCSymmetry
INVARIANTS OnePlacePerVoter CountersAgree TurnoutBounded
PROPERTIES ImplementsBallotBox
CHECK_DEADLOCK FALSE
