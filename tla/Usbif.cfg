SPECIFICATION Spec
CONSTANTS
  MaxDevice = 2
  MaxRegClass = 2
  RcnumTotal = 4
  ClassDefs <- MCClassDefs
  Callbacks <- MCCallbacks
INVARIANTS
  TypeOK
  RegisteredKeepsAll
  TablesConvert
  ClassnumIsNext
  EnumerationInitsEachClassOnce
  EndpointEventServed
  EventToOwner
PROPERTIES
  ImplementsRouter
  NoTakeover
