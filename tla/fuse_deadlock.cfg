SPECIFICATION Spec
CONSTANTS
  Root = "root"
  Dirs = {"d", "e"}
  Files = {"f"}
  Names = {"a", "b"}
  Threads = {t1, t2, t3}
  Places <- MCPlaces
  Requests <- MCRequests
PROPERTY EveryoneServed
CHECK_DEADLOCK FALSE
