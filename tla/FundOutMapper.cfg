\* A validated body the mapper throws on.
SPECIFICATION Spec
CONSTANTS
  Req = {r1}
  AuthorizationEnabled = TRUE
  Inputs <- AllRequests
PROPERTIES
  MapperNeverThrows
CHECK_DEADLOCK FALSE
