CONSTANTS
  Packages = {manager, app}
  ManagerPkg = manager
  AppIds = {10001, 10002}
  Users = {0, 10}
  Preserved <- MCPreserved
  MaxUpdates = 3
  MaxGrants = 2
  Invalid = Invalid
SPECIFICATION Spec
INVARIANTS
  ManagerKnown
  NoStaleProfile
PROPERTIES
  DropsAreJustified
CHECK_DEADLOCK FALSE
