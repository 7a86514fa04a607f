\* An order without a transfer id.
SPECIFICATION Spec
CONSTANTS
  Req = {r1}
  AuthorizationEnabled = TRUE
  Inputs <- AdmittedRequests
INVARIANTS
  TransferIdGiven
CHECK_DEADLOCK FALSE
