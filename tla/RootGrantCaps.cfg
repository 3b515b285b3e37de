CONSTANTS
  Tasks = {t1}
  FirstTask = t1
  AppUid = 10001
  Profiles <- MCProfiles
  MaxCalls = 1
SPECIFICATION Spec
INVARIANTS
  KsudCapAdded
CHECK_DEADLOCK FALSE
