\* What a client is sent when it connects again: violated.
SPECIFICATION Spec
CONSTANTS
  Users = {u1, u2}
  Movers = {}
  Readers = {}
  MessageIds = {1, 2}
  Tasks = {t1, t2}
  NoUser = NoUser
  NoMessage = NoMessage
  PageMax = 2
  SyncMax = 2
  MaxTime = 2
  MaxRequests = 2
  MaxMoves = 2
  MaxFaults = 0
PROPERTIES
  SyncIsComplete
CHECK_DEADLOCK FALSE
