\* Two handler tasks at once: both may have checked before either inserts.
SPECIFICATION Spec
CONSTANTS
  Users = {u1, u2}
  CallIds = {c1, c2}
  Tasks = {t1, t2}
  NoUser = NoUser
  NoCall = NoCall
  MaxFaults = 0
  MaxCrashes = 0
INVARIANTS
  OneActiveCall
CHECK_DEADLOCK FALSE
