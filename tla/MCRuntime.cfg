SPECIFICATION MCFairSpec
CHECK_DEADLOCK FALSE
CONSTANTS
  PipeCap = 2
  MaxChunks = 5
  MaxSignals = 1
  Pid = {1, 2, 3}
  MaxAddrs = 2
  MaxFds = 2
  Bytes <- MCBytes
  Streams <- MCStreams
  Maxes = {0, 1, 2}
  Inputs <- MCInputs
  Limits = {0, 1, 2, 3, 5}
  FirstCap = 2
  MaxRoom = 2
  UInt = 3
  MaxTests = 3
  MaxLines = 2
  BufLines = 1
  Addr = {1, 2}
  MaxDepth = 2
  MAX_FRAMES = 2
  MAX_SAMPLES = 2
  Messages <- MCMessages
  MaxBody = 3
  MaxHeaders = 3
  MaxHeadLines = 5
  MaxInterim = 1
  BufChunk = 3
  Elem = {1, 2}
  BlockSize = 5
  SbCap = 1
  ArrayCap = 2
  ByteSize = 2
  MaxInt = 8
  MaxObjs = 3
  MaxLen = 3
  MaxMem = 15
INVARIANTS
  ResultComplete FailedStartIsClean
  OnlyTheNamed
  FdsAccounted ErrorIsCause TrustChecked StreamInOrder
  InflateRight
  VerdictsTell LogInOrder
  ReportRight
  ResponseExact
  Disjoint CapFits
PROPERTIES
  CallsReturn KillReaps SamplesRight ValuesKept
