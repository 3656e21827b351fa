CONSTANTS
  BLOCK_SIZE = 2
  HeapBase = 3
  HeapEnd = 13
  Sizes = {0, 1, 3}
  ForeignSizes = {1, 2}
  ReallocUse = "enough"
SPECIFICATION Spec
INVARIANT PayloadIntact
PROPERTIES FreeIsExact 
