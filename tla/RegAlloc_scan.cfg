SPECIFICATION Spec
CONSTANTS
  CalleeSaved <- Callee2
  CallerSaved <- Caller1
  EvictBelow = 0
  MaxVregs = 3
  MaxLines = 4
  MaxReads = 2
INVARIANTS ReadsRight ActiveDistinct SavedIsUsed
PROPERTY ClassKept
