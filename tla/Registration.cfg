SPECIFICATION Spec
CONSTANTS
  Handlers = {h1, h2}
  Contacts = {c1, c2}
  Lifetimes = {2}
  MaxContacts = 2
  MaxBindings = 1
  MaxClock = 3
  Backend = "mysql"
PROPERTIES
  LimitExceededOnlyByLag
  OnlyUnregisterRemoves
  ReplyShowsRequest
SYMMETRY RegistrationSymmetry
CHECK_DEADLOCK FALSE
