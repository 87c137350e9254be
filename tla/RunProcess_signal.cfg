SPECIFICATION RunFairSpec
CONSTANTS
  PipeCap = 1
  MaxChunks = 3
  MaxSignals = 1
CHECK_DEADLOCK FALSE
PROPERTY NeverDeadlocks
