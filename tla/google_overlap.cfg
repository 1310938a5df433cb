SPECIFICATION ActivitySpec
CONSTANTS
  Users <- MCOneUser
  NoUser = "nobody"
  SignIns <- MCSignIns
  NoSignIn = "none"
  Providers <- MCProviders
  MaxStoreCalls = 1
  MaxFirestoreCalls = 1
  MaxLoading = 6
INVARIANTS
  NoGoogleTrap
