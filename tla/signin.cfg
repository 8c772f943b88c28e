SPECIFICATION Spec
CONSTANTS
  Tasks = {t1, t2}
  MaxCodes = 4
  MaxFaults = 1
SYMMETRY Perms
INVARIANTS TypeOK CodeOpensOneSession RegisteredOnce SecondFactorGuards FoundByContacts
CHECK_DEADLOCK FALSE
