\* One voter's page with the verification routes.
CONSTANTS
  voter = voter
  listed = listed
  alien = alien
  member = member
  f1 = f1
  None = None
  Tabs <- MCTabs
  Scopes <- MCScopes
  Gates <- MCGates
  Wallets <- MCWallets
  Allowed <- MCAllowed
  Foreign <- MCForeign
  Flows <- MCFlows
  Accounts <- MCAccounts
  MaxWeight = 2
  MaxCalls = 3
  CodeTtl = 0
  SendWindow = 4
  MaxSends = 2
  MaxAttempts = 1
  StateTtl = 0
  MaxChanges = 1
  MaxTime = 1
  MaxRestarts = 1
SPECIFICATION MCSpec
INVARIANTS
  SignedUpHasLeaf TokenMatchesAddress SignupVouchedFor
  AttemptsBounded SendsSpaced TokenForMember
PROPERTIES
  TokenForNewestCode ValidCodeKept 
