------------------------- MODULE MCFundOutWithEvents -------------------------
(***************************************************************************)
(* An instance of FundOutWithEvents for TLC: one request of each way through *)
(* the handler.                                                            *)
(***************************************************************************)
EXTENDS FundOutWithEvents, TLC

Well(header, body) ==
  [country |-> "configured", timeout |-> header,
   authorization |-> [scheme |-> "supported", key |-> "right"], body |-> body]

Valid == {b \in FundOutDto : ValidFundOut(b)}

Plain == CHOOSE b \in Valid : ~InterbankMapperThrows(b) /\ ~HeadersThrow(b)

\* A request with a timer, one without, one whose body the interbank mapper
\* cannot map, one whose headers cannot be built, and one that is turned away.
OneOfEachWay ==
  {Well("millis", Plain), Well("zero", Plain),
   Well("millis", CHOOSE b \in Valid : InterbankMapperThrows(b)),
   Well("millis", CHOOSE b \in Valid : HeadersThrow(b) /\ ~InterbankMapperThrows(b)),
   Well("word", Plain)}
=============================================================================
