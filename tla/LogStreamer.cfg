SPECIFICATION StreamerSpec
CONSTANTS
  Lines = 3
  Cap = 1
  Fires = {f1, f2}
INVARIANTS
  TypeOK
  NoLineTwice
  NoLineForgotten
PROPERTIES
  ClosedBufferFrozen
  ImplementsLogFeed
  CancelClosesDone
  EndReachesConsumer
  LinesReachView
\* A log stream ends: nothing is left to do once it is closed and drained.
CHECK_DEADLOCK FALSE
