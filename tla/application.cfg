\* A border of one pixel, three events, and both things a second lock may do.
\* A program that has ended, or whose threads hang, does nothing more.
CONSTANTS
  Border = 1
  Frame <- MCFrame
  Work <- MCWork
  Relock = {"hangs", "enters"}
  MaxEvents = 3
SPECIFICATION FairSpec
INVARIANTS
  ApplicationTypeOK
  NetworkStopsFirst
  WaitsOnlyWithoutLog
  TitleBarAgrees
  EdgesResize
PROPERTIES
  ServedOrTold
  ClosedEnds
CHECK_DEADLOCK FALSE
