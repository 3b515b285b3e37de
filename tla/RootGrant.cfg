CONSTANTS
  Tasks = {t1, t2}
  FirstTask = t1
  AppUid = 10001
  Profiles <- MCProfiles
  MaxCalls = 2
SPECIFICATION Spec
INVARIANTS
  RefsExact
  Audited
PROPERTIES
  NoEscapeAgain
CHECK_DEADLOCK FALSE
