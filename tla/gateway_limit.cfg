\* Who is refused a connection: violated.
SPECIFICATION GatewaySpec
CONSTANTS
  Conns = {c1, c2}
  Tickets = {k1, k2}
  Events = {e1}
  NoTicket = NoTicket
  Limit = 1
  MaxFaults = 0
PROPERTIES
  RefusedOnlyAtLimit
CHECK_DEADLOCK FALSE
