SPECIFICATION FairSpec
CONSTANTS
  Processes = {p1, p2}
  Sockets = {s1, s2}
  MaxEvents = 2
  MaxFailures = 1
  None = None
INVARIANTS RoomHearsInOrder
PROPERTIES EveryoneHears
CHECK_DEADLOCK FALSE
