SPECIFICATION FairSpec
CONSTANTS
  Unit = {0}
  QueueLen = 4
  MaxSess = 2
  MaxEarly = 1
  HostRequests <- FullHost
INVARIANTS
  TypeOK
  HostAgrees
  ConfiguredIsInitialised
  NoStaleDelivery
  CompletionReachesClass
  AnswerIsTrue
PROPERTIES
  EnumerationCompletes
  SetupReached
