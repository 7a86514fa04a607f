\* An order of a body that gives as little as is accepted.
SPECIFICATION Spec
CONSTANTS
  Req = {r1}
  AuthorizationEnabled = TRUE
  Inputs <- SparseRequests
INVARIANTS
  OrderAsDeclared
CHECK_DEADLOCK FALSE
