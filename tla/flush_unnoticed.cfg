\* The disk may fail when a file is closed.
\* A closed connection whose read loops are over does nothing more.
CONSTANTS
  MaxMessages = 0
  MaxFiles = 3
  MaxBatch = 2
  MaxChunks = 3
  Size <- MCSize
  Name <- MCName
  Taken <- MCTaken
  DiskFails = {"flush"}
SPECIFICATION TransferSpec
INVARIANTS
  ReceivedWhole
CHECK_DEADLOCK FALSE
