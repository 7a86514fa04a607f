\* One request of every kind, crash included.
SPECIFICATION FairSpec
CONSTANTS
  Req = {r1}
  AuthorizationEnabled = TRUE
  Inputs <- AllRequests
INVARIANTS
  TypeOK
  ConfirmedMoved
  PresumedOrdered
  RefusalIsFinal
  OneExecution
  AuditTrail
  SameParties
  OrderComplete
PROPERTIES
  ImplementsContract
  EventuallyAnswered
\* All requests answered and all orders settled: the service is idle.
CHECK_DEADLOCK FALSE
