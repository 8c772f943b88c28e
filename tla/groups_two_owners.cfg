\* Two requests at once, in a group of three.
SPECIFICATION Spec
CONSTANTS
  Users = {u1, u2, u3}
  Tasks = {t1, t2}
  NoUser = NoUser
  MaxRequests = 2
SYMMETRY Symmetry
INVARIANTS
  AtMostOneOwner
CHECK_DEADLOCK FALSE
