SPECIFICATION Spec
CONSTANTS
  KeyIds = {1, 2}
  Users = {u1}
  Installs = {i1}
  Batches <- SomeBatches
  Tasks = {t1, t2}
  NoKey = NoKey
  NoUser = NoUser
  NoInstall = NoInstall
  MaxRequests = 5
  MaxFaults = 1
INVARIANTS CountIsRight
PROPERTIES ImplementsPool RequestsEnd
CHECK_DEADLOCK FALSE
