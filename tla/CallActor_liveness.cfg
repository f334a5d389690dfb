SPECIFICATION FairSpec
CONSTANTS
  Requests = {r1, r2}
  Targets = {"routing", "failed"}
  MailboxCapacity = 1
  BusCapacity = 1
PROPERTIES
  LifecycleSpec
  TransitionsReturn
  CancelledActorExits
  EventsAreStored
CHECK_DEADLOCK FALSE
