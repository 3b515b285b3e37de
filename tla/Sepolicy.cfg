SPECIFICATION Spec
CONSTANTS
  Bits <- MCBits
  Classes <- MCClasses
  ClassPerms <- MCClassPerms
  ProcessClass = "process"
  TransPerms = {"w"}
  Users = {"u"}
  Roles <- MCRoles
  MaxDepth = 5
  ImageSizes <- MCImageSizes
  Word <- MCWord
  IoctlRanges <- MCIoctlRanges
  StockPolicies <- MCStockPolicies
  Batches <- MCBatches
  Texts <- MCTexts
  Accesses <- MCAccesses
  Isids <- MCIsids
  Junk = {"none", "app"}
  MaxBatches = 2
  MaxQueries = 1
  MaxFailures = 1
CHECK_DEADLOCK FALSE
INVARIANTS
  DecisionFollowsCommands
  NoHalfAddedDomain
  RoomToCopy
  StockAnswers
  AvcFresh
  
