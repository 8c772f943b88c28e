\* Two handlers at once, two users, a history of up to three messages.
SPECIFICATION Spec
CONSTANTS
  Users = {u1, u2}
  Movers = {u2}
  Readers = {u1}
  MessageIds = {1, 2, 3}
  Tasks = {t1, t2}
  NoUser = NoUser
  NoMessage = NoMessage
  PageMax = 2
  SyncMax = 1
  MaxTime = 3
  MaxRequests = 2
  MaxMoves = 3
  MaxFaults = 1
SYMMETRY Symmetry
INVARIANTS
  PushedOnlyToMembers
  ForwardWalkIsComplete
PROPERTIES
  DeletedIsFinal
  AcceptedIsHeard
CHECK_DEADLOCK FALSE
