SPECIFICATION ForwardSpec
CONSTANTS
  SeqModulus = 8
  Window = 4
  Starts = {0, 6}
  MaxPackets = 5
  TsModulus = 8
  Seeds = {7}
INVARIANTS
  ExtendedExact
  LostNeverOverstated
  ReportedSequence
PROPERTIES
  RepeatsDropped
  OutputContinuous
CHECK_DEADLOCK FALSE
