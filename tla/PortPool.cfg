SPECIFICATION FairSpec
CONSTANTS
  Ports = {p1, p2, p3, p4}
  Sessions = {m1, m2}
  Closers = {run, stop}
  NoPort = NoPort
INVARIANTS
  PairsExclusive
  NoPairLost
  BothOrNone
  CloseIsBarrier
PROPERTIES
  NewReturns
  ClosesReturn
CHECK_DEADLOCK FALSE
