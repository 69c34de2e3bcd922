SPECIFICATION FairSpec
CONSTANTS
  Host = h
  Guests = {a, b}
  Connections = 1
  MaxJoins = 2
  MaxDrops = 1
  None = None
INVARIANTS
  ListsCurrent
  NodeListsMembers
PROPERTY GuestsSentHome
CHECK_DEADLOCK FALSE
