SPECIFICATION Spec
CONSTANTS
  Callers = {c1, c2}
  MaxSets = 4
CHECK_DEADLOCK FALSE
INVARIANTS
  HookedCallsSafe
  HooksMatchFeature
