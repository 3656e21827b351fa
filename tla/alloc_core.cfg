CONSTANTS
  BLOCK_SIZE = 2
  HeapBase = 3
  HeapEnd = 17
  Sizes = {0, 1, 3}
  ForeignSizes = {}
  ReallocUse = "enough"
SPECIFICATION Spec
INVARIANTS NeverWild ListInOrder HeapTight
