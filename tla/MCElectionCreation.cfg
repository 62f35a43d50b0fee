\* One creator's page, another creator, and the owner of the factory.
CONSTANTS
  creator = creator  other = other  t1 = t1  t2 = t2  None = None  Blank = Blank
  Accounts <- MCAccounts
  Owner = other
  Creator = creator
  DefaultFee = 2
  Fees <- MCFees
  Offers <- MCOffers
  MaxElections = 3
  Gates <- MCGates
  Tokens <- MCTokens
  Members <- MCMembers
  Hours <- MCHours
  MaxOptions = 3
  MaxMembers = 3
  MaxEdits = 4
  MaxFlows = 2
  MaxOthers = 1
SPECIFICATION CreationSpec
ACTION_CONSTRAINT Focus
INVARIANTS
  TypeOK FeesExact TokenInfoFresh
  StoredUnderOwnElection AnnouncedComplete OffersConsistent ListingComplete
PROPERTIES
  CreatingEnds
