SPECIFICATION MCSpec
CONSTANTS
  Conns = {c1, c2, c3}
  MaxProcs = 3
  MaxLive = 3
  Interrupts = TRUE
  MaxSent = 3
  BufferSize = 2
  MaxBuffers = 7
  Hangups = {"client", "remote"}
  Leaves = TRUE
  a = a
  b = b
  Bytes = {a, b}
  Contents <- MCContents
  Junk = junk
  MaxChanges = 2
INVARIANTS SocketsApart PortFreed Relayed StaticAnswer
PROPERTIES ClientSeesEnd   BodyWhole
CHECK_DEADLOCK FALSE
