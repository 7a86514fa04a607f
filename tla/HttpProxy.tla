------------------------------ MODULE HttpProxy ------------------------------
(***************************************************************************)
(* ProxyService.doRequest (src/utils/proxy.service.ts): the one function    *)
(* through which the service talks HTTP, and the translation of everything  *)
(* that can go wrong with a call into one of the seven Nest exceptions of    *)
(* src/utils/create-new-error.  Constant-level: a component that makes a     *)
(* call chooses an outcome in OutcomesUnder(timer) and reads Thrown of it.   *)
(*                                                                         *)
(* JavaScript's undefined is the string "undefined"; HTTP statuses are the   *)
(* strings JavaScript uses as keys of statusDictionary.                      *)
(***************************************************************************)
EXTENDS Integers

Undefined == "undefined"

TIME_OUT_CODES == {"ETIMEDOUT", "ECONNABORTED", "ESOCKETTIMEDOUT"}

\* response.status of a rejected answer: axios rejects what is not 2xx.
ErrorStatus ==
  {"302", "400", "401", "403", "404", "408", "422", "500", "503", "504"}

\* What a rejected call carries, as far as the choice of an exception goes: the
\* code, the response status, and whether the stack mentions "Error: timeout".
\* (The body of the answer only decides the message the client reads.)
Error(code, status, timeoutStack) ==
  [code |-> code, status |-> status, timeoutStack |-> timeoutStack]

\* The server answered, outside 2xx.
Refusals ==
  {Error(CASE s = "302" -> Undefined
           [] s \in {"500", "503", "504"} -> "ERR_BAD_RESPONSE"
           [] OTHER -> "ERR_BAD_REQUEST", s, FALSE) : s \in ErrorStatus}

\* No answer: the host could not be reached, the connection broke, the
\* operating system gave up, or the client's own timer fired.
Unreachable ==
  {Error(c, Undefined, FALSE) : c \in {"ENOTFOUND", "ECONNREFUSED"}}
Broken ==
  {Error(c, Undefined, FALSE) : c \in {"ECONNRESET", "ETIMEDOUT"}}
TimerFired ==
  {Error(c, Undefined, FALSE) : c \in {"ECONNABORTED", "ESOCKETTIMEDOUT"}}
    \cup {Error(Undefined, Undefined, TRUE)}

\* axios does not send a request whose timeout is not a duration.
Unsent == Error("ERR_BAD_OPTION_VALUE", Undefined, FALSE)

AxiosError == Refusals \cup Unreachable \cup Broken \cup TimerFired \cup {Unsent}

\* Parsed bodies of a 2xx answer: an object with or without a transfer id, the
\* JSON value null, and text JSON.parse does not accept (an empty body too).
Data == {"withId", "withoutId", "null", "unparsable"}

\* What a JavaScript SyntaxError or TypeError shows to handlerError.
PlainError == Error(Undefined, Undefined, FALSE)

\* What axiosClient.request settles with.
Answer(d) == [answered |-> TRUE, data |-> d, error |-> PlainError]
Failure(e) == [answered |-> FALSE, data |-> "null", error |-> e]

Outcome == {Answer(d) : d \in Data} \cup {Failure(e) : e \in AxiosError}

----------------------------------------------------------------------------

\* The x-flow-timeout header as the code and axios tell its values apart: no
\* header, a positive whole number, "0", and a number that parseInt makes
\* unusable ("Infinity", ".5", a negative number).  "empty" and "word" never
\* get past CheckTimeoutMiddleware.
TimeoutHeader == {Undefined, "empty", "word", "millis", "zero", "unusable"}

\* requestTimeout: the header, else the configured duration, which is never 0.
\* The header stays a string, so "0" is truthy, and axios reads it as no timer.
Timer(header) ==
  CASE header = "zero" -> "none"
    [] header = "unusable" -> "unusable"
    [] OTHER -> "armed"

OutcomesUnder(timer) ==
  CASE timer = "unusable" -> {Failure(Unsent)}
    [] timer = "none" -> Outcome \ {Failure(e) : e \in TimerFired \cup {Unsent}}
    [] OTHER -> Outcome \ {Failure(Unsent)}

----------------------------------------------------------------------------

IsTimeoutError(e) == e.timeoutStack \/ e.code \in TIME_OUT_CODES

\* As a bug: a call without a response is one whose host was not found.
IsNotFoundErrorUnanswered(e) == e.status = Undefined

IsNotFoundError(e) == e.code = "ENOTFOUND"

BuildStatusError(e) ==
  IF IsTimeoutError(e) THEN "ERROR_OF_TIMEOUT"
  ELSE IF IsNotFoundError(e) THEN "ERROR_NOT_FOUND"
  ELSE e.status

statusDictionary ==
  [ s \in {"400", "401", "403", "404", "408", "500", "504",
           "ERROR_OF_TIMEOUT", "ERROR_OF_CONNECTION", "ERROR_NOT_FOUND"} |->
      CASE s = "400" -> "BadRequestException"
        [] s = "401" -> "UnauthorizedException"
        [] s = "403" -> "ForbiddenException"
        [] s \in {"404", "ERROR_NOT_FOUND"} -> "NotFoundException"
        [] s \in {"408", "ERROR_OF_TIMEOUT"} -> "RequestTimeoutException"
        [] s \in {"500", "ERROR_OF_CONNECTION"} -> "InternalServerErrorException"
        [] s = "504" -> "GatewayTimeoutException" ]

\* The exceptions the create-*-error files throw.
HttpException ==
  {"BadRequestException", "UnauthorizedException", "ForbiddenException",
   "NotFoundException", "RequestTimeoutException",
   "InternalServerErrorException", "GatewayTimeoutException"}

\* What a catch block may hold: a Nest exception or a JavaScript TypeError.
Throwable == HttpException \cup {"TypeError"}

\* As a bug: what the dictionary does not know reads as the client's fault.
CreateNewErrorBlamingClient(s) ==
  IF s \in DOMAIN statusDictionary THEN statusDictionary[s] ELSE "BadRequestException"

CreateNewError(s) ==
  IF s \in DOMAIN statusDictionary
    THEN statusDictionary[s]
    ELSE "InternalServerErrorException"

HandlerError(e) ==
  IF e.status # Undefined \/ IsTimeoutError(e) \/ IsNotFoundError(e)
    THEN CreateNewError(BuildStatusError(e))
    ELSE CreateNewError("ERROR_OF_CONNECTION")

\* The exception doRequest throws on outcome o, or "none" when it returns the
\* parsed body.  A body JSON.parse rejects is caught by the same handler.
Thrown(o) ==
  IF ~o.answered THEN HandlerError(o.error)
  ELSE IF o.data = "unparsable" THEN HandlerError(PlainError)
  ELSE "none"
=============================================================================
