SPECIFICATION Spec
CONSTANTS
  Handlers = {h1}
  Contacts = {c1, c2}
  Lifetimes = {2}
  MaxContacts = 1
  MaxBindings = 1
  MaxClock = 3
  Backend = "memory"
INVARIANT
  BindingLimit
CHECK_DEADLOCK FALSE
