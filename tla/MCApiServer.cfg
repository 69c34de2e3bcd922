SPECIFICATION FairSpec
CONSTANTS
  Conns = {c1, c2, c3}
  c1 = c1
  c2 = c2
  c3 = c3
  NamesFor <- Users
  Period = 2
  Shapes <- SomeShapes
  HeadLimit = 1
  BodyLimit = 2
  None = None
INVARIANTS
  PostsInOrder
  DeletedGone
  ServedWhole
  ListedAsTyped
PROPERTIES
  JoinedRoomExists
  Answered
CHECK_DEADLOCK FALSE
