\* An approval without an authorization code.
SPECIFICATION Spec
CONSTANTS
  Req = {r1}
  AuthorizationEnabled = TRUE
  Inputs <- AdmittedRequests
INVARIANTS
  AuthorizationCodeGiven
CHECK_DEADLOCK FALSE
