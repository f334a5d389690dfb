SPECIFICATION Spec
CONSTANTS
  Requests = {r1, r2}
  Targets = {"routing", "failed"}
  MailboxCapacity = 1
  BusCapacity = 1
INVARIANT
  TerminalStatePublished
CHECK_DEADLOCK FALSE
