SPECIFICATION OtpSpec
CONSTANTS
  Ttl = 2
  Window = 3
  RateLimit = 2
  MaxAsks = 3
PROPERTIES ImplementsCode KeysExpire
CHECK_DEADLOCK FALSE
