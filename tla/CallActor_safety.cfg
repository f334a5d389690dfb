SPECIFICATION Spec
CONSTANTS
  Requests = {r1, r2, r3}
  Targets = {"routing", "answered", "failed"}
  MailboxCapacity = 1
  BusCapacity = 1
SYMMETRY RequestSymmetry
INVARIANTS
  EventsFormPath
  SnapshotMatchesLog
  CommandsApplyOnce
  VerdictIsTrue
  RowsArePrefix
  CdrSummarisesRows
CHECK_DEADLOCK FALSE
