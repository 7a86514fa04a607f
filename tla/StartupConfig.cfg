\* The port the schema sets by default, and the port the service listens on.
SPECIFICATION Spec
CONSTANTS
  Process = {p1}
  Environments <- RequiredOnly
INVARIANTS
  RunsWithValidated
CHECK_DEADLOCK FALSE
