CONSTANTS
  Clients = {c1}
  Screens <- MCScreens
  Rectangles <- MCRectangles
  Vectors <- MCVectors
  Cursor <- MCCursor
  Colour = {0, 1}
  Pointer = Pointer
  Blank = Blank
  Encodings = {"CopyRect", "NewFBSize", "Cursor"}
  MaxChanges = 4
SPECIFICATION FairSpec
INVARIANTS NoChangeForgotten CopiesStayRight
PROPERTIES ShowsOnlyTheScreen Converges
CHECK_DEADLOCK FALSE
