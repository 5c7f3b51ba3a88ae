\* Two devices, two links at a time, two faults.
CONSTANTS
  A = A
  B = B
  Devices = {A, B}
  MaxLinks = 2
  MaxFaults = 2
SPECIFICATION Spec
SYMMETRY Symmetry
INVARIANTS
  NetworkTypeOK
  ListedHaveClients
  OpenLinksAreHeld
  OneLivePeer
