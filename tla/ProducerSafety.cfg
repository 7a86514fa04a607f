\* Two publications with any arguments.
SPECIFICATION Spec
CONSTANTS
  Publication = {p1, p2}
  Asked <- AnyArgs
SYMMETRY Alike
INVARIANTS
  TypeOK
  ResolvedIsRouted
  AtMostTwice
  SameDelay
PROPERTIES
  ImplementsDelivery
\* Every publication has settled and every copy is routed.
CHECK_DEADLOCK FALSE
