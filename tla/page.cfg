\* Two devices, two files, and room for the two events one handler may post.
CONSTANTS
  Devices = {A, B}
  Paths = {p, q}
  None = None
  MaxEvents = 2
SPECIFICATION FairSpec
INVARIANTS
  PageTypeOK
  LockedByOneBatch
  PanelShowsTarget
  ListsAgree
PROPERTIES
  UnlockedEventually
