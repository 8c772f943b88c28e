\* Two requests at once, of two devices, in up to two sessions.
SPECIFICATION Spec
CONSTANTS
  Devices = {d1, d2}
  SessionIds = {s1, s2}
  Tasks = {t1, t2}
  NoDevice = NoDevice
  NoSession = NoSession
  MaxFaults = 1
SYMMETRY Symmetry
INVARIANTS
  SessionIsRenewable
  LogoutSticks
PROPERTIES
  GoneForGood
CHECK_DEADLOCK FALSE
