SPECIFICATION FairSpec
CONSTANTS
  BlockSize = 4
  FirstMax = 8
  Chunk = 2
  CbwLen = 2
  RxBufLen = 3
  RespLen = 1
  MaxReset = 2
  Commands <- MCCommands
INVARIANTS
  TypeOK
  ReadIsExact
  WriteIsExact
  IdleAwaitsCbw
  PhasesAgree
PROPERTIES
  NoTransferOverlap
  CommandCompletes
  ImplementsService
