SPECIFICATION FairSpec
CONSTANTS
  Invites = {i1, i2, i3}
  MaxActiveCalls = 2
INVARIANTS
  AdmissionExact
  ReturnIsBarrier
PROPERTIES
  ShutdownReturns
  ErrorReturns
CHECK_DEADLOCK FALSE
