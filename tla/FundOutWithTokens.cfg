\* One request, whose second call may find the token of the first.
SPECIFICATION FairTokensSpec
CONSTANTS
  Req = {r1}
  AuthorizationEnabled = TRUE
  Inputs <- OneOfEachWay
  Ttl = 1
  RequestTimeout = 2
  MaxTime = 6
  NoToken = NoToken
INVARIANTS
  CallsMatch
  TokenFailureStopsOrder
  OrderTokenAge
PROPERTIES
  ImplementsFundOut
  CallsSettle
\* The requests are answered and the time bound is reached.
CHECK_DEADLOCK FALSE
