SPECIFICATION FairSpec
CONSTANTS
  Schedule = {s1, s2}
  Creates <- SomeCreates
  Updates <- SomeUpdates
  MaxCalls = 3
CHECK_DEADLOCK FALSE
INVARIANTS
  TypeOK
  StoresAgree
  NoDoubleTrigger
PROPERTY DeletedSchedulesStop
