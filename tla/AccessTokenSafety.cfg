\* Three calls that overlap, follow each other and cross an expiry.
SPECIFICATION Spec
CONSTANTS
  Caller = {c1, c2, c3}
  Ttl = 1
  RequestTimeout = 2
  MaxTime = 6
  NoToken = NoToken
SYMMETRY Alike
INVARIANTS
  TypeOK
  TokenAgeBounded
  StampedeBounded
PROPERTIES
  ImplementsTokenContract
\* No call is left to start and the time bound is reached.
CHECK_DEADLOCK FALSE
