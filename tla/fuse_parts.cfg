SPECIFICATION PartsSpec
CONSTANTS
  MinSize = 4
  Wrap = 7
  Factor = 5
  Hashes = {0, 5}
  PerSlab = 2
  MaxNodes = 4
  MaxGen = 1
  Owners = {o1, o2}
  MaxByte = 2
  Entries <- MCEntries
  EntrySize <- MCEntrySize
  ReadSize = 3
  Chunk = 2
  Limits = {3, 100}
  SeeksAtEnd = FALSE
  Systems <- MCSystems
  OpenFiles = {h1}
  Minors = {8, 14}
  Replies <- MCReplies
  MostData = 3
  TmpSize = 2
  t1 = t1
  t2 = t2
  t3 = t3
  o1 = o1
  o2 = o2
  fd1 = fd1
  Callers = {t1, t2, t3}
  OwnerOf <- MCOwnerOf
  FileOf <- MCFileOf
  Requests <- MCRequests
  MaxIntr = 1
INVARIANTS TablesSound LocksTrue EntriesOnce  HandlesPaired BytesExact 
PROPERTIES IdsNeverReturn
CHECK_DEADLOCK FALSE
