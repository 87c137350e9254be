SPECIFICATION Spec
CONSTANTS
  CalleeSaved <- Callee1
  CallerSaved <- Caller1
  EvictBelow = 2
  MaxVregs = 3
  MaxLines = 5
  MaxReads = 1
INVARIANTS PoolConserved ReadsRight
