SPECIFICATION Spec
CONSTANTS
  MaxDevice = 2
  MaxRegClass = 2
  RcnumTotal = 4
  ClassDefs <- MCSofDefs
  Callbacks <- MCCallbacks
INVARIANTS CallbackMatchesType
