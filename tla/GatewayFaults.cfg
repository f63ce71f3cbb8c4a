CONSTANTS
  s1 = s1
  s2 = s2
  Slots = {s1, s2}
  Limits = {1}
  Percents = {0, 1}
  MaxNow = 2
  MaxCount = 3
SPECIFICATION Spec
CHECK_DEADLOCK TRUE
INVARIANTS
  TypeOK
  RateHolds
  TriggerTellsTruth
PROPERTIES
  LockoutIsPermanent
