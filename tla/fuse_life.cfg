SPECIFICATION LifeSpec
CONSTANTS
  Root = "root"
  Dirs = {"d", "e"}
  Files = {"f"}
  Names = {"a", "b"}
  Threads = {t1, t2, t3}
  Places <- MCPlaces
  Requests <- MCRequests
  Workers = {w1, w2}
  Ops = {r1, r2}
  Stuck = {r1}
  Forgets = {f1}
  MaxIdle = 1
  MaxAgain = 1
  Kills = TRUE
  Programs = {"p1", "p2"}
  PointOf <- MCPointOf
  MountMax = 1
  Hands = {h1}
INVARIANTS PathsSound SessionSound 
PROPERTIES ServedOrBlocked UnmountEnds InterruptEnds 
CHECK_DEADLOCK FALSE
