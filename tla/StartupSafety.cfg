\* Two processes, whose settings may name the same topology or different ones.
SPECIFICATION Spec
CONSTANTS
  Process = {p1, p2}
  Environments <- SomeEnvironments
INVARIANTS
  TypeOK
  ReadyWhenListening
\* No process whose settings are rejected can start.
CHECK_DEADLOCK FALSE
