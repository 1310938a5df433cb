SPECIFICATION ActivitySpec
CONSTANTS
  Users <- MCUsers
  NoUser = "nobody"
  SignIns <- MCSignIns
  NoSignIn = "none"
  Providers <- MCProviders
  MaxStoreCalls = 1
  MaxFirestoreCalls = 1
  MaxLoading = 6
INVARIANTS
  AccountTypeOK
  PlanHonoursPurchase
  RegisteredHasUser
  GoogleCompletionAwaited
  CompletionHeldOnce
  ActivityTypeOK
  CountsOperations
  IndicatorShowsWork
PROPERTIES
  SignInSettles
  ImplementsMembership
