SPECIFICATION NetSpec
CHECK_DEADLOCK FALSE
CONSTANTS
  MaxAddrs = 1
  MaxFds = 1
  Bytes <- MCBytes
  Streams <- MCStreams
  Maxes = {1, 2}
INVARIANT EndBetweenRecords
