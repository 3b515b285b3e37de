SPECIFICATION EditsSpec
CONSTANTS
  Editors = {e1, e2, e3}
  Openers = {o1, o2}
CHECK_DEADLOCK FALSE
INVARIANTS
  EditsSerialised
  FakeStatusStock
