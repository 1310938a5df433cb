SPECIFICATION FavoritesSpec
CONSTANTS
  ann = ann
  bob = bob
  i1 = i1
  i2 = i2
  t1 = t1
  t2 = t2
  m1 = m1
  m2 = m2
  Users <- OneUser
  NoUser = "nobody"
  SignIns <- OneSignIn
  NoSignIn = "none"
  Providers <- OneProvider
  MaxStoreCalls = 0
  Proverbs <- OneProverb
  Ids <- TwoIds
  Ops <- AllOps
  NoOp = "noop"
  OfflineReads = FALSE
  Stored <- EmptyCollections
  Toggles <- TwoToggles
  Setups <- OneSetup
  FreeMax = 1
  MaxBacklog = 1
  MaxAbandoned = 1
INVARIANTS
  AtMostOneDocPerOrigin
