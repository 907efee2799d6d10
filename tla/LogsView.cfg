SPECIFICATION Spec
CONSTANTS
  MaxLines = 4
  Window = 1
  Heights = {0, 1, 3, 4}
  MaxBatch = 3
  MaxFed = 9
INVARIANTS
  TypeOK
  FollowShowsNewest
  FocusMarked
PROPERTIES
  CursorKeepsLine
