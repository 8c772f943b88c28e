SPECIFICATION Spec
CONSTANTS
  Viewers = {v1, v2}
  Tasks = {t1, t2}
  NoViewer = NoViewer
  MaxContacts = 2
  MaxRequests = 4
  MaxFaults = 1
SYMMETRY Symmetry
INVARIANTS
  TypeOK
  ViewersWereAllowed
  WishHolds
CHECK_DEADLOCK FALSE
