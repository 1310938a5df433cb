SPECIFICATION Spec
CONSTANTS
  RequiredShareDays = 3
  Offsets <- MCOffsets
  Never = Never
  MaxFetches = 2
  LastTick = 9
INVARIANTS
  TypeOK
  DaysLeftToShare
  OneCountPerDay
