SPECIFICATION Spec
CONSTANTS
  Unit = {0}
  QueueLen = 4
  MaxSess = 2
  MaxEarly = 1
  HostRequests <- FullHost
PROPERTIES RejectedIsStalled
