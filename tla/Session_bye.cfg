SPECIFICATION FairSpec
CONSTANTS
  Requests = {r1, r2, r3}
  Arrivals = {"callerBye", "refer"}
  MailboxSize = 1
  NoRequest = NoRequest
PROPERTY
  ByeEndsSession
CHECK_DEADLOCK FALSE
