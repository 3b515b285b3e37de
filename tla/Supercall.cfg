CONSTANTS
  Callers = {root, manager}
  Roots = {root}
  Managers = {manager}
  Children = {k1}
  Paths <- MCPaths
  Flags = {0}
  AddCap = 4
  DelCap = 3
  HeadLen = 1
  EstHeader = 3
  EstEntry = 3
  MinOut = 7
  MaxOut = 9
  Features = {"kernel_umount"}
  Unknown = {"unknown"}
SPECIFICATION Spec
INVARIANTS
  RepliesTrue
  UmountFollowsList
  SulogExact
CHECK_DEADLOCK FALSE
