CONSTANTS
  Readers = {r1}
  Writers = {w1}
  Uids = {u1, nobody}
  PreservedUids = {nobody}
  DefaultUid = nobody
  Profiles <- MCProfiles
  NodeIds = {n1, n2}
  CountMax = 2
  Null = Null
SPECIFICATION FairSpec
PROPERTIES
  LookupReturns
