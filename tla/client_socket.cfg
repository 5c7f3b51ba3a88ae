\* Three messages, three files in batches of one or two, two chunks a file.
\* A released connection whose operations are over does nothing more.
CONSTANTS
  MaxMessages = 3
  MaxFiles = 3
  MaxBatch = 2
  MaxChunks = 2
SPECIFICATION FairSpec
INVARIANTS
  TypeOK
  OnReadyOnce
  OneOperationPerSocket
  MessagesInOrder
  WorkOnlyWhileConnected
PROPERTIES
  SilentWhenReleased
  ImplementsContract
  ReadyEventually
  DrainsWhenClosed
CHECK_DEADLOCK FALSE
