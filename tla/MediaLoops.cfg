SPECIFICATION FairSpec
INVARIANT
  StopIsBarrier
PROPERTIES
  StopReturns
  FailureEndsRun
CHECK_DEADLOCK FALSE
