\* Two connections for a limit of one, a message, a fault.
SPECIFICATION GatewaySpec
CONSTANTS
  Conns = {c1, c2}
  Tickets = {k1, k2}
  Events = {e1}
  NoTicket = NoTicket
  Limit = 1
  MaxFaults = 1
INVARIANTS
  LimitHolds
  PresenceIsOwed
  HeardOrPushed
PROPERTIES
  TicketIsSpent
  PresenceEnds
CHECK_DEADLOCK FALSE
