\* Nothing fails but the connection.
\* A closed connection whose read loops are over does nothing more.
CONSTANTS
  MaxMessages = 0
  MaxFiles = 3
  MaxBatch = 2
  MaxChunks = 3
  Size <- MCSize
  Name <- MCName
  Taken <- MCTaken
  DiskFails = {}
SPECIFICATION TransferSpec
INVARIANTS
  NoHalfFile
CHECK_DEADLOCK FALSE
