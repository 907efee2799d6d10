SPECIFICATION SessionSpec
CONSTANTS
  MaxToolTurns = 2
  OutCap = 1
  InnerCap = 1
  CallIds = {c1, c2}
  MaxEvents = 2
INVARIANTS
  TypeOK
  ConversationWellFormed
  CallsSurfaced
PROPERTIES
  ImplementsAnswerStream
  TurnEnds
  CancelEnds
  SessionEnds
\* A session ends: nothing is left to do once it is closed and drained.
CHECK_DEADLOCK FALSE
