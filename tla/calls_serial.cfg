\* One handler task at a time, two calls among three users.
SPECIFICATION Spec
CONSTANTS
  Users = {u1, u2, u3}
  CallIds = {c1, c2}
  Tasks = {t1}
  NoUser = NoUser
  NoCall = NoCall
  MaxFaults = 1
  MaxCrashes = 0
SYMMETRY Symmetry
PROPERTIES
  ImplementsBook
CHECK_DEADLOCK FALSE
