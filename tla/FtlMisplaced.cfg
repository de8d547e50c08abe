CONSTANTS
  UserBlocks = 3
  Ppb = 4
  Logs = 2
  Chunk = 2
  SwapWrite = 3
  SwapSync = 2
  SwapStep = 1
  MinSpread = 2
  DirtMax = 3
  TopUsn = 100
  Written = {0, 1, 2}
  Workloads <- OnlyOneCut
SPECIFICATION Spec
PROPERTIES
  RepairsNewest
CHECK_DEADLOCK FALSE
