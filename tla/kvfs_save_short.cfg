CONSTANTS
  Names = {a, b}
  Bytes = {x}
  Junk = junk
  Times = {t1}
  MaxData = 1
  MaxFiles = 2
  MaxOpen = 1
  Holes = FALSE
  RenameOnto = FALSE
  DiskFull = TRUE
  Crashes = FALSE
SPECIFICATION Spec
INVARIANTS SavedInFull
