\* Three links: one each way, and a new one before an old one is forgotten.
CONSTANTS
  A = A
  B = B
  Devices = {A, B}
  MaxLinks = 3
  MaxFaults = 0
SPECIFICATION MeetSpec
PROPERTIES
  Meet
