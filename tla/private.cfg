SPECIFICATION Spec
CONSTANTS
  Users = {u1, u2}
  ChatIds = {c1, c2}
  Uploads = {x1}
  Tasks = {t1, t2}
  NoUser = NoUser
  NoChat = NoChat
  NoUpload = NoUpload
  MaxMessages = 2
  MaxRequests = 5
  MaxFaults = 1
SYMMETRY Symmetry
INVARIANTS
  TypeOK
  BlockIsRespected
  OneChatUnlessOverlapping
  ReadUnseenOnlyIfLate
PROPERTIES
  AttachedOnce
CHECK_DEADLOCK FALSE
