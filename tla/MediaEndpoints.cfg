SPECIFICATION Spec
CONSTANTS
  PortModulus = 8
  CallerBodies <- MCCallerBodies
  CalleeBodies <- MCCalleeBodies
  MaxAnswers = 2
  MaxPackets = 2
INVARIANTS
  EncodingsKept
  HoldObeyed
  PinnedFromPeer
CHECK_DEADLOCK FALSE
