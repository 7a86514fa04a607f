---------------------------- MODULE RequestChecks ----------------------------
(***************************************************************************)
(* What a request to POST /fund-out/create-transaction must pass before the *)
(* handler runs: the three interceptors of FundOutController, in the order  *)
(* of @UseInterceptors, then the ValidationPipe on the body.                *)
(***************************************************************************)
EXTENDS Orders

CONSTANTS
  AuthorizationEnabled   \* appConfig.authorization.enabled

ASSUME AuthorizationAssumption == AuthorizationEnabled \in BOOLEAN

\* A request as the checks tell it apart.  key is the word after the first
\* blank of the Authorization header, compared with appConfig's api_key.
Request ==
  [country : {Undefined, "configured", "other"},
   timeout : TimeoutHeader,
   authorization :
     {[scheme |-> "missing", key |-> "wrong"]}
       \cup [scheme : {"supported", "unsupported"}, key : {"right", "wrong"}],
   body : FundOutDto]

CheckCountry(q) ==
  IF q.country = "configured" THEN "none" ELSE "BadRequestException"

\* isNaN(Number(header)) || !header, of a header that is there.
CheckTimeout(q) ==
  IF q.timeout \in {"word", "empty"} THEN "BadRequestException" ELSE "none"

CheckApiKey(q) ==
  IF AuthorizationEnabled
       /\ q.authorization # [scheme |-> "supported", key |-> "right"]
    THEN "UnauthorizedException" ELSE "none"

\* The ValidationPipe runs inside the interceptors, just before the handler.
ValidationPipe(q) ==
  IF ValidFundOut(q.body) THEN "none" ELSE "BadRequestException"

\* The exception of the first check that fails, "none" when all pass.
Rejection(q) ==
  CASE CheckCountry(q) # "none" -> CheckCountry(q)
    [] CheckCountry(q) = "none" /\ CheckTimeout(q) # "none" -> CheckTimeout(q)
    [] CheckCountry(q) = "none" /\ CheckTimeout(q) = "none"
         /\ CheckApiKey(q) # "none" -> CheckApiKey(q)
    [] OTHER -> ValidationPipe(q)
=============================================================================
