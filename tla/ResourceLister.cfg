SPECIFICATION ListerSpec
CONSTANTS
  Emits = {e1, e2}
  MaxVersion = 3
  MaxNotices = 2
INVARIANTS TypeOK NoEventLost
PROPERTIES
  TableCatchesUp
  FirstListShown
  PumpEnds
\* A lister that was torn down, or never started, stops.
CHECK_DEADLOCK FALSE
