\* Three files; the disk may refuse to create a file or to take data.
\* A closed connection whose read loops are over does nothing more.
CONSTANTS
  MaxMessages = 0
  MaxFiles = 3
  MaxBatch = 2
  MaxChunks = 3
  Size <- MCSize
  Name <- MCName
  Taken <- MCTaken
  DiskFails = {"open", "write"}
SPECIFICATION FairTransfer
INVARIANTS
  TransferTypeOK
  ReceivedWhole
  InStep
  ReplyIsForCurrent
  AcceptedInOrder
  EndsOnce
  PathsApart
PROPERTIES
  EndedIsFinal
  AnsweredUnlessAborted
  DoneIsReceived
CHECK_DEADLOCK FALSE
