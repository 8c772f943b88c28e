\* Two requests at once in a group of up to three users.
SPECIFICATION Spec
CONSTANTS
  Users = {u1, u2, u3}
  Tasks = {t1, t2}
  NoUser = NoUser
  MaxRequests = 4
SYMMETRY Symmetry
INVARIANTS
  OneOwner
  NoKeyForTheAbsent
PROPERTIES
  OwnerOnlyByTransfer
  BackAsMember
CHECK_DEADLOCK FALSE
