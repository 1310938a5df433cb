SPECIFICATION Spec
CONSTANTS
  RequiredShareDays = 3
  Offsets <- MCOffsets
  Never = Never
  MaxFetches = 1
  LastTick = 9
INVARIANT CountsDays
