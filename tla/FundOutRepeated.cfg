\* Three attempts at a payment.
SPECIFICATION RepeatedSpec
CONSTANTS
  Req = {r1, r2, r3}
  AuthorizationEnabled = TRUE
  Inputs <- PaymentRequest
SYMMETRY Alike
INVARIANTS
  PaidTwiceOnlyInDoubt
PROPERTIES
  ImplementsPayment
\* All attempts made or none allowed any more: the service is idle.
CHECK_DEADLOCK FALSE
