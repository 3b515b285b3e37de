CONSTANTS
  Readers = {r1, r2}
  Writers = {w1, w2}
  Uids = {u1, nobody}
  PreservedUids = {nobody}
  DefaultUid = nobody
  Profiles <- MCProfiles
  NodeIds = {n1, n2}
  CountMax = 1
  Null = Null
SPECIFICATION Spec
SYMMETRY Symmetry
INVARIANTS
  NoUseAfterFree
  RefCountExact
  SummariesExact
  ResultWasCurrent
