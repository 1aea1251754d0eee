SPECIFICATION Spec
CONSTANTS
  TimerMod = 12
  Nominal = 4
  Least = 2
  Limit = 2
  ListLen = 2
  Every = 1
  CountMod = 6
  Deviations <- MCDeviations
  MaxEv = 2
  MaxInit = 1
INVARIANTS
  TypeOK
  WindowIsTrue
  SumIsWindow
  AltAgrees
PROPERTIES
  FeedbackGoesOn
