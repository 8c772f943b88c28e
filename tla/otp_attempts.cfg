SPECIFICATION OtpSpec
CONSTANTS
  Ttl = 2
  Window = 3
  RateLimit = 2
  MaxAsks = 3
INVARIANTS ThreeFailuresInvalidate
CHECK_DEADLOCK FALSE
