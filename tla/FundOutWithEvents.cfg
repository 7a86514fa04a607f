\* One request, whose two publications outlive it.
SPECIFICATION FairEventsSpec
CONSTANTS
  Req = {r1}
  AuthorizationEnabled = TRUE
  Inputs <- OneOfEachWay
INVARIANTS
  BrokerAgrees
  AuditComplete
PROPERTIES
  ImplementsFundOut
\* The request is answered and its publications have settled.
CHECK_DEADLOCK FALSE
