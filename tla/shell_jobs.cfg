CONSTANTS
  Pids = {1, 2}
  MaxEntries = 4
  ForkFails = TRUE
  Killing = TRUE
SPECIFICATION Spec
CHECK_DEADLOCK FALSE
INVARIANTS  TerminalHandedBack
PROPERTIES  PromptReturns
