SPECIFICATION PipeFairSpec
CONSTANTS
  Unit = {0}
  QueueLen = 2
  MaxSess = 2
  MaxEarly = 0
  HostRequests <- PipeHost
  MaxCalls <- PipeCalls
  Classes = {"CDC", "RNDIS", "HID", "Vendor"}
INVARIANTS
  PipeTypeOK
  BusyHasReason
  ReceptionGoesOn
  OverlapNeedsRace
PROPERTIES BusyIsReleased
