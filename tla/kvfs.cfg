CONSTANTS
  Names = {a, b, c}
  Bytes = {x}
  Junk = junk
  Times = {t1}
  MaxData = 2
  MaxFiles = 2
  MaxOpen = 2
  Holes = TRUE
  RenameOnto = FALSE
  DiskFull = TRUE
  Crashes = TRUE
SPECIFICATION Spec
SYMMETRY Symmetry
INVARIANTS ReadsWhole ClosedMeansSaved
PROPERTIES OthersUntouched ImplementsFlatFiles
