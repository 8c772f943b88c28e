\* Reading the history backwards, as the default is: violated.
SPECIFICATION Spec
CONSTANTS
  Users = {u1}
  Movers = {}
  Readers = {u1}
  MessageIds = {1, 2, 3}
  Tasks = {t1}
  NoUser = NoUser
  NoMessage = NoMessage
  PageMax = 3
  SyncMax = 3
  MaxTime = 3
  MaxRequests = 2
  MaxMoves = 0
  MaxFaults = 0
INVARIANTS
  BackwardWalkIsComplete
CHECK_DEADLOCK FALSE
