\* One refresh token in two requests at once.
SPECIFICATION Spec
CONSTANTS
  Devices = {d1}
  SessionIds = {s1, s2}
  Tasks = {t1, t2}
  NoDevice = NoDevice
  NoSession = NoSession
  MaxFaults = 0
INVARIANTS
  RefreshTokenIsUsedOnce
CHECK_DEADLOCK FALSE
