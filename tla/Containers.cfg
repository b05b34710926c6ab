CONSTANTS
  Elem = {1, 2}
  NULL = 0
  Junk = 9
  Lists <- MCLists
  MaxLen = 3
  Files <- MCFiles
  EndByte = 255
SPECIFICATION Spec
CHECK_DEADLOCK FALSE
INVARIANTS TypeOK FileIsRead
PROPERTIES ListsAreSequences AccessesStayInside RoomIsKept
