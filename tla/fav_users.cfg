SPECIFICATION FavoritesSpec
CONSTANTS
  ann = ann
  bob = bob
  i1 = i1
  i2 = i2
  t1 = t1
  t2 = t2
  m1 = m1
  m2 = m2
  Users <- TwoUsers
  NoUser = "nobody"
  SignIns <- OneSignIn
  NoSignIn = "none"
  Providers <- GoogleOnly
  MaxStoreCalls = 0
  Proverbs <- OneProverb
  Ids <- TwoIds
  Ops <- AllOps
  NoOp = "noop"
  OfflineReads = FALSE
  Stored <- EmptyCollections
  Toggles <- OneToggle
  Setups <- OneSetup
  FreeMax = 1
  MaxBacklog = 0
  MaxAbandoned = 1
SYMMETRY UserAndIdSymmetry
INVARIANTS
  FavoritesTypeOK
  ManagerFollowsUser
  OneWritePerWaiter
  NoGoogleTrap
PROPERTIES
  WritesStayHome
