\* The disk may fail in the middle of a file.
\* A closed connection whose read loops are over does nothing more.
CONSTANTS
  MaxMessages = 0
  MaxFiles = 3
  MaxBatch = 2
  MaxChunks = 3
  Size <- MCSize
  Name <- MCName
  Taken <- MCTaken
  DiskFails = {"write"}
SPECIFICATION FairTransfer
PROPERTIES
  RequestAnswered
CHECK_DEADLOCK FALSE
