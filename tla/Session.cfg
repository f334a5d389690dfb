SPECIFICATION FairSpec
CONSTANTS
  Requests = {r1, r2}
  Arrivals = {"callerBye", "calleeBye", "hold", "resume", "notify"}
  MailboxSize = 1
  NoRequest = NoRequest
INVARIANTS
  AnsweredBeforeOK
  LegsReleased
  TeardownOrder
  ReInvitesSerial
  RequestsAnswered
PROPERTIES
  CancelledSessionEnds
CHECK_DEADLOCK FALSE
