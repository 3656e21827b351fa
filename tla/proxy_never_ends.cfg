CONSTANTS
  MaxSent = 2
  BufferSize = 2
  MaxBuffers = 4
  Hangups = {"client", "remote"}
  Leaves = FALSE
SPECIFICATION ProxySpec
CHECK_DEADLOCK FALSE
PROPERTIES EndsOnHangup
