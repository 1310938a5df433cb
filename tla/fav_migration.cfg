SPECIFICATION FavoritesSpec
CONSTANTS
  ann = ann
  bob = bob
  i1 = i1
  i2 = i2
  t1 = t1
  t2 = t2
  m1 = m1
  m2 = m2
  Users <- OneUser
  NoUser = "nobody"
  SignIns <- OneSignIn
  NoSignIn = "none"
  Providers <- OneProvider
  MaxStoreCalls = 0
  Proverbs <- TwoProverbs
  Ids <- TwoIds
  Ops <- AllOps
  NoOp = "noop"
  OfflineReads = TRUE
  Stored <- MaybeLiked
  Toggles <- NoToggles
  Setups <- TwoSetups
  FreeMax = 1
  MaxBacklog = 0
  MaxAbandoned = 0
SYMMETRY IdAndSetupSymmetry
INVARIANTS
  FreeVersionLimit
PROPERTIES
  MigrationHandsOver
