CONSTANTS
  Readers = {r1, r2}
  Producers = {p1}
  NoOne = NoOne
  Destroyer = Destroyer
  MaxQueued = 2
  MaxPayload = 3
  HdrSize = 1
  InfoSize = 1
  Lens = {0, 3, 4}
  Counts = {3}
  MaxSeq = 3
SPECIFICATION FairSpec
INVARIANTS
  TypeOK
  DropRangeExact
  PeekedNodeLinked
  ExactlyOnce
  EOFMeansDrained
  WakeupPending
PROPERTIES
  LogSpec
  ReadReturns
  DestroyReturns
