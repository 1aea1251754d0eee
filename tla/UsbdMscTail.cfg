SPECIFICATION FairSpec
CONSTANTS
  BlockSize = 4
  FirstMax = 8
  Chunk = 2
  CbwLen = 2
  RxBufLen = 3
  RespLen = 1
  MaxReset = 2
  Commands <- TailCommands
PROPERTIES CommandCompletes
CHECK_DEADLOCK FALSE
