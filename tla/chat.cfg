\* Seven messages, two typed; the longest that fits has a length of two digits.
\* When both have been typed and shown nothing is left to do.
CONSTANTS
  Bytes <- MCBytes
  Texts <- MCTexts
  Ip <- MCIp
  MaxMessageSize = 10
  MaxHeaderSize = 10
  ChunkSize = 8
  MaxMessages = 2
CHECK_DEADLOCK FALSE
SPECIFICATION FairSpec
INVARIANTS
  ChatTypeOK
  ShownAsAccepted
  AcceptedAsTyped
PROPERTIES
  ShownOrTold
