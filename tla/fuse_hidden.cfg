SPECIFICATION Spec
CONSTANTS
  Ids = {"n1", "n2"}
  Names = {"a", "b"}
  Hidden <- MCHidden
  Threads = {t1, t2}
  Handles = {f1, f2}
  MaxObjs = 2
  MaxKnown = 2
  Modes <- MCModes
INVARIANT OpenStays
CHECK_DEADLOCK FALSE
