-------------------------- MODULE MCFundOutRepeated --------------------------
(***************************************************************************)
(* An instance of FundOutRepeated for TLC.                                  *)
(***************************************************************************)
EXTENDS FundOutRepeated, TLC

\* The payment, under every x-flow-timeout the checks admit.
PaymentRequest ==
  {[country |-> "configured", timeout |-> header,
    authorization |-> [scheme |-> "supported", key |-> "right"],
    body |-> CHOOSE b \in FundOutDto :
               /\ ValidFundOut(b)
               /\ ~InterbankMapperThrows(b) /\ ~HeadersThrow(b)] :
     header \in {"millis", "zero", "unusable"}}

Alike == Permutations(Req)
=============================================================================
