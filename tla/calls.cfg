\* Two handler tasks at once on one call, among three users.
SPECIFICATION Spec
CONSTANTS
  Users = {u1, u2, u3}
  CallIds = {c1}
  Tasks = {t1, t2}
  NoUser = NoUser
  NoCall = NoCall
  MaxFaults = 1
  MaxCrashes = 1
SYMMETRY Symmetry
INVARIANTS
  TimestampsAgree
  WriterIsAuthorised
  EventsAreTrue
  OutcomeIsAnnounced
PROPERTIES
  StartedIsKept
CHECK_DEADLOCK FALSE
