SPECIFICATION Spec
CONSTANTS
  Times <- TwoTimes
  DefaultTime = "13:00"
  NoRequest = "none"
  MaxWaiting = 3
INVARIANTS
  RemindersTypeOK
  RequestMatchesSettings
  SwitchHonest
  PermissionFollowed
