\* Two links, no faults.
CONSTANTS
  A = A
  B = B
  Devices = {A, B}
  MaxLinks = 2
  MaxFaults = 0
SPECIFICATION FairSpec
PROPERTIES
  HeardOrRetried
