SPECIFICATION PipeSpec
CONSTANTS
  Unit = {0}
  QueueLen = 2
  MaxSess = 2
  MaxEarly = 0
  HostRequests <- PipeHost
  MaxCalls <- OneCall
  Classes = {"CDC"}
INVARIANTS NoTransferOnTopOfAnother
