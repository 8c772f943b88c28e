SPECIFICATION Spec
CONSTANTS
  KeyIds = {1, 2}
  Users = {u1}
  Installs = {i1, i2}
  Batches <- SomeBatches
  Tasks = {t1}
  NoKey = NoKey
  NoUser = NoUser
  NoInstall = NoInstall
  MaxRequests = 3
  MaxFaults = 0
INVARIANTS BundleIsOfOneInstall
CHECK_DEADLOCK FALSE
