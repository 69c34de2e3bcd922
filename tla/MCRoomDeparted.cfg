SPECIFICATION Spec
CONSTANTS
  Host = h
  Guests = {a, b}
  Connections = 1
  MaxJoins = 2
  MaxDrops = 0
  None = None
INVARIANT DepartedStayGone
CHECK_DEADLOCK FALSE
