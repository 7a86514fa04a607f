------------------------------- MODULE FundOut -------------------------------
(***************************************************************************)
(* The life of a request to POST /fund-out/create-transaction:              *)
(* FundOutController.createTransaction with the two services it awaits,     *)
(* CustomerInterbankInfoService.get and TransferExecuteService.get, and the *)
(* bank's side of the transfer.                                            *)
(*                                                                         *)
(* One action is what the event loop runs between two awaits.  The access   *)
(* token service is here only what get() settles with; AccessToken has its  *)
(* inside.  A publication is recorded where the controller issues it;       *)
(* Producer has what becomes of it.                                        *)
(***************************************************************************)
EXTENDS RequestChecks, Sequences

CONSTANTS
  Req,    \* requests
  Inputs  \* what a request may look like

ASSUME InputsAssumption == Inputs \subseteq Request

VARIABLES
  pc,          \* where the handling of each request is
  input,       \* the request as received
  transferId,  \* transactionIdentifier of createTransaction
  published,   \* events handed to the producer, in order
  order,       \* the transfer order at the bank
  executions,  \* how often the bank moved the money
  reply        \* what the client gets

vars == <<pc, input, transferId, published, order, executions, reply>>

InFlight == {"token1", "interbank", "token2", "transfer"}

----------------------------------------------------------------------------
\* Events and replies.

RequestToInterbankInfo == [type |-> "RequestInterbankInfo", error |-> "none"]
ResponseFromInterbankInfo(e) == [type |-> "ResponseInterbankInfo", error |-> e]
ResponseFromTransferExecute(e) == [type |-> "ResponseTransferExecute", error |-> e]

\* The prefix PY makes a string of whatever identifier there is.
ApprovalCode(id) == IF id = Undefined THEN "PYundefined" ELSE "PYid"

NoReply == [kind |-> "none", detail |-> "none", auth |-> "none"]

LostReply == [kind |-> "lost", detail |-> "none", auth |-> "none"]

\* ResponseMapper.transform, response_code "00".
Approved(description, code) ==
  [kind |-> "approved", detail |-> description, auth |-> code]

\* Nest's exception filter: what is no HttpException reads as a 500.
Failed(e) ==
  [kind |-> "failed",
   detail |-> IF e \in HttpException THEN e ELSE "InternalServerErrorException",
   auth |-> "none"]

Reply ==
  {NoReply, LostReply}
    \cup [kind : {"approved"},
          detail : {"TRANSACCION OK", "APPROVE_ERR_REQUEST_TRANSFER"},
          auth : {"id", Undefined, "PYid", "PYundefined"}]
    \cup [kind : {"failed"}, detail : HttpException, auth : {"none"}]

Event ==
  {RequestToInterbankInfo}
    \cup {ResponseFromInterbankInfo(e) : e \in Throwable}
    \cup {ResponseFromTransferExecute(e) : e \in Throwable \cup {"none"}}

\* As a bug: the body stands for the identifier in it.
BodyAsTransferId(o) == o.data

\* The identifier in a parsed body, response?.transfer?.transferId.
TransferIdIn(o) == IF o.data = "withId" THEN "id" ELSE Undefined

----------------------------------------------------------------------------
\* Pieces of the handler.

Goto(r, label) == pc' = [pc EXCEPT ![r] = label]

Publish(r, events) == published' = [published EXCEPT ![r] = @ \o events]

Respond(r, answer) ==
  /\ Goto(r, "answered")
  /\ reply' = [reply EXCEPT ![r] = answer]

\* The first catch block of createTransaction.
CatchInterbankInfo(r, e) ==
  /\ Publish(r, <<ResponseFromInterbankInfo(e)>>)
  /\ Respond(r, Failed(e))

\* As a bug: the second catch block answers and publishes nothing.
CatchTransferExecuteSilently(r, e) == Respond(r, Failed(e)) /\ UNCHANGED published

\* The second one.
CatchTransferExecute(r, e) ==
  /\ Publish(r, <<ResponseFromTransferExecute(e)>>)
  /\ Respond(r, Failed(e))

ReturnResult(r, answer) ==
  /\ Publish(r, <<ResponseFromTransferExecute("none")>>)
  /\ Respond(r, answer)

TimerOf(r) == Timer(input[r].timeout)

----------------------------------------------------------------------------
Init ==
  /\ pc = [r \in Req |-> "new"]
  /\ input \in [Req -> Inputs]
  /\ transferId = [r \in Req |-> Undefined]
  /\ published = [r \in Req |-> << >>]
  /\ order = [r \in Req |-> "none"]
  /\ executions = [r \in Req |-> 0]
  /\ reply = [r \in Req |-> NoReply]

\* An interceptor or the ValidationPipe throws: the handler never runs.
Reject(r) ==
  /\ pc[r] = "new"
  /\ Rejection(input[r]) # "none"
  /\ Respond(r, Failed(Rejection(input[r])))
  /\ UNCHANGED <<input, transferId, published, order, executions>>

\* createTransaction as far as the first await: publish the request, map it
\* for the bank and ask for a token.
CreateTransaction(r) ==
  /\ pc[r] = "new"
  /\ Rejection(input[r]) = "none"
  /\ ~InterbankMapperThrows(input[r].body)
  /\ Goto(r, "token1")
  /\ Publish(r, <<RequestToInterbankInfo>>)
  /\ UNCHANGED <<input, transferId, order, executions, reply>>

\* CustomerInterbankInfoMapper.transform throws before the first await, into the
\* catch block.
MapperThrows(r) ==
  /\ pc[r] = "new"
  /\ Rejection(input[r]) = "none"
  /\ InterbankMapperThrows(input[r].body)
  /\ Publish(r, <<RequestToInterbankInfo, ResponseFromInterbankInfo("TypeError")>>)
  /\ Respond(r, Failed("TypeError"))
  /\ UNCHANGED <<input, transferId, order, executions>>

\* accessTokenService.get() resolves in CustomerInterbankInfoService.get, which
\* then builds the headers and sends the request.
AskInterbankInfo(r) ==
  /\ pc[r] = "token1"
  /\ \/ /\ ~HeadersThrow(input[r].body)
        /\ Goto(r, "interbank")
        /\ UNCHANGED <<published, reply>>
     \/ /\ HeadersThrow(input[r].body)
        /\ CatchInterbankInfo(r, "TypeError")
  /\ UNCHANGED <<input, transferId, order, executions>>

\* accessTokenService.get() rejects in CustomerInterbankInfoService.get.
InterbankTokenFails(r, e) ==
  /\ pc[r] = "token1"
  /\ CatchInterbankInfo(r, e)
  /\ UNCHANGED <<input, transferId, order, executions>>

\* The bank's information arrives, and transferExcecute.get is called.
InterbankInfo(r, o) ==
  /\ pc[r] = "interbank"
  /\ Thrown(o) = "none"
  /\ transferId' = [transferId EXCEPT ![r] = TransferIdIn(o)]
  /\ Goto(r, "token2")
  /\ UNCHANGED <<input, published, order, executions, reply>>

\* As a bug: the call is tried again, and again, instead of failing.
InterbankInfoFailsRetried(r, o) ==
  /\ pc[r] = "interbank"
  /\ Thrown(o) # "none"
  /\ Goto(r, "token1")
  /\ UNCHANGED <<input, transferId, published, order, executions, reply>>

InterbankInfoFails(r, o) ==
  /\ pc[r] = "interbank"
  /\ Thrown(o) # "none"
  /\ CatchInterbankInfo(r, Thrown(o))
  /\ UNCHANGED <<input, transferId, order, executions>>

\* As a bug: the call to the bank is not awaited.
OrderTransferNotAwaited(r) ==
  /\ pc[r] = "token2"
  /\ order' = [order EXCEPT ![r] = "sent"]
  /\ ReturnResult(r, Approved("TRANSACCION OK", Undefined))
  /\ UNCHANGED <<input, transferId, executions>>

\* As a bug: the result is published as soon as the order is sent.
OrderTransferAnnounced(r) ==
  /\ pc[r] = "token2"
  /\ Goto(r, "transfer")
  /\ order' = [order EXCEPT ![r] = "sent"]
  /\ Publish(r, <<ResponseFromTransferExecute("none")>>)
  /\ UNCHANGED <<input, transferId, executions, reply>>

\* accessTokenService.get() resolves in TransferExecuteService.get, which sends
\* the order.  (A timeout axios rejects has already failed the call before.)
OrderTransfer(r) ==
  /\ pc[r] = "token2"
  /\ Goto(r, "transfer")
  /\ order' = [order EXCEPT ![r] = "sent"]
  /\ UNCHANGED <<input, transferId, published, executions, reply>>

\* As a bug: one try block around the token and the transfer, so that a timeout
\* of either is approved.
TransferTokenFailsInOneTry(r, e) ==
  /\ pc[r] = "token2"
  /\ IF e = "RequestTimeoutException"
       THEN ReturnResult(r, Approved("APPROVE_ERR_REQUEST_TRANSFER",
                                     ApprovalCode(transferId[r])))
       ELSE CatchTransferExecute(r, e)
  /\ UNCHANGED <<input, transferId, order, executions>>

\* accessTokenService.get() rejects in TransferExecuteService.get: a timeout of
\* the token service is thrown on, not approved.
TransferTokenFails(r, e) ==
  /\ pc[r] = "token2"
  /\ CatchTransferExecute(r, e)
  /\ UNCHANGED <<input, transferId, order, executions>>

\* As a bug: a timeout is logged and not thrown.
TransferErrorUnlessTimeout(o) ==
  IF Thrown(o) = "RequestTimeoutException" THEN "none" ELSE Thrown(o)

\* What the try block of TransferExecuteService.get throws on outcome o: a body
\* null is read through without optional chaining, response.transfer.
TransferError(o) ==
  IF o.answered /\ o.data = "null" THEN "TypeError" ELSE Thrown(o)

\* The bank approved.
TransferApproved(r, o) ==
  /\ pc[r] = "transfer"
  /\ TransferError(o) = "none"
  /\ ReturnResult(r, Approved("TRANSACCION OK", TransferIdIn(o)))
  /\ UNCHANGED <<input, transferId, order, executions>>

\* As a bug: the order is sent again on a timeout.
TransferRetried(r, o) ==
  /\ pc[r] = "transfer"
  /\ TransferError(o) = "RequestTimeoutException"
  /\ order' = [order EXCEPT ![r] = "sent"]
  /\ UNCHANGED <<pc, input, transferId, published, executions, reply>>

\* RequestTimeoutException: the service approves on its own.
TransferPresumed(r, o) ==
  /\ pc[r] = "transfer"
  /\ TransferError(o) = "RequestTimeoutException"
  /\ ReturnResult(r, Approved("APPROVE_ERR_REQUEST_TRANSFER",
                              ApprovalCode(transferId[r])))
  /\ UNCHANGED <<input, transferId, order, executions>>

TransferFails(r, o) ==
  /\ pc[r] = "transfer"
  /\ TransferError(o) \notin {"none", "RequestTimeoutException"}
  /\ CatchTransferExecute(r, TransferError(o))
  /\ UNCHANGED <<input, transferId, order, executions>>

----------------------------------------------------------------------------
\* The bank, as the code relies on it.

BankSettles(r, result) ==
  /\ order[r] = "sent"
  /\ order' = [order EXCEPT ![r] = result]
  /\ UNCHANGED <<pc, input, transferId, published, reply>>

BankExecutes(r) ==
  /\ BankSettles(r, "executed")
  /\ executions' = [executions EXCEPT ![r] = @ + 1]

BankRefuses(r) == BankSettles(r, "refused") /\ UNCHANGED executions

\* The order never gets there.
OrderLost(r) == BankSettles(r, "dropped") /\ UNCHANGED executions

\* The outcomes of the call while the order is in state s.  The bank answers
\* 2xx only when it has executed the order, and a 4xx other than 408 only when
\* it will not; what is not an answer of the bank itself (a gateway's 408 or
\* 5xx, a broken connection, a timeout) says nothing about the order.
Permitted(s, o) ==
  /\ o.answered => s = "executed"
  /\ o.error.status \in {"400", "401", "403", "404", "422"} => s = "refused"
  /\ o.error \in Unreachable => s = "dropped"

InterbankInfoSettles(r) ==
  \E o \in OutcomesUnder(TimerOf(r)) :
    InterbankInfo(r, o) \/ InterbankInfoFails(r, o)

TransferSettles(r) ==
  \E o \in OutcomesUnder(TimerOf(r)) :
    /\ Permitted(order[r], o)
    /\ TransferApproved(r, o) \/ TransferPresumed(r, o) \/ TransferFails(r, o)

TokenSettles(r) ==
  \/ AskInterbankInfo(r) \/ OrderTransfer(r)
  \/ \E e \in Throwable : InterbankTokenFails(r, e) \/ TransferTokenFails(r, e)

\* The process dies: nobody answers the requests it was handling.
Crash ==
  /\ \E r \in Req : pc[r] \in InFlight
  /\ pc' = [r \in Req |-> IF pc[r] \in InFlight THEN "answered" ELSE pc[r]]
  /\ reply' = [r \in Req |-> IF pc[r] \in InFlight THEN LostReply ELSE reply[r]]
  /\ UNCHANGED <<input, transferId, published, order, executions>>

Next ==
  \/ \E r \in Req :
       \/ Reject(r) \/ CreateTransaction(r) \/ MapperThrows(r)
       \/ TokenSettles(r) \/ InterbankInfoSettles(r) \/ TransferSettles(r)
       \/ BankExecutes(r) \/ BankRefuses(r) \/ OrderLost(r)
  \/ Crash

Spec == Init /\ [][Next]_vars

\* An access token always arrives or fails (its own call has a timer).  A call
\* to the bank settles by itself only when a timer is armed: under "0" the code
\* sets none, and under an unusable one axios rejects it at once.
Fairness ==
  \A r \in Req :
    /\ WF_vars(TokenSettles(r))
    /\ WF_vars(TimerOf(r) # "none" /\ InterbankInfoSettles(r))
    /\ WF_vars(TimerOf(r) # "none" /\ TransferSettles(r))

FairSpec == Spec /\ Fairness

----------------------------------------------------------------------------
\* Properties.

\* Type invariant.
TypeOK ==
  /\ pc \in [Req -> {"new", "answered"} \cup InFlight]
  /\ input \in [Req -> Inputs]
  /\ transferId \in [Req -> {"id", Undefined}]
  /\ published \in [Req -> Seq(Event)]
  /\ order \in [Req -> {"none", "sent", "executed", "refused", "dropped"}]
  /\ executions \in [Req -> Nat]
  /\ reply \in [Req -> Reply]

Told(r, description) ==
  reply[r].kind = "approved" /\ reply[r].detail = description

\* "TRANSACCION OK" is only ever said of money that moved, whatever timers,
\* refusals and broken answers came before (transfer-execute.service.ts:60-65).
ConfirmedMoved ==
  \A r \in Req : Told(r, "TRANSACCION OK") => executions[r] = 1

\* The approval on timeout is given only once an order has left for the bank: a
\* timeout of the token service or of the interbank information, which throws
\* the same RequestTimeoutException, never approves a transfer that was not
\* ordered (the two try blocks of transfer-execute.service.ts:36-86).
PresumedOrdered ==
  \A r \in Req : Told(r, "APPROVE_ERR_REQUEST_TRANSFER") => order[r] # "none"

\* Exceptions that tell the client nothing about its money.
DoubtfulException == {"InternalServerErrorException", "GatewayTimeoutException"}

\* A client answered 400, 401, 403, 404 or 408 may pay again: the money did not
\* move and no order of it is still on its way, so it never will.
RefusalIsFinal ==
  \A r \in Req :
    reply[r].kind = "failed" /\ reply[r].detail \notin DoubtfulException
      => executions[r] = 0 /\ order[r] \in {"none", "refused", "dropped"}

\* A request moves money at most once: nothing on the way retries the transfer,
\* though a late answer and a timeout can both happen.
OneExecution == \A r \in Req : executions[r] <= 1

\* The event that goes with a reply: a response without an error if the request
\* was approved, else one with the error the client saw.  A failure of the
\* interbank stage means no transfer was ordered.
Tells(event, r) ==
  \/ /\ reply[r].kind = "approved"
     /\ event = ResponseFromTransferExecute("none")
  \/ \E e \in Throwable :
       /\ reply[r] = Failed(e)
       /\ \/ event = ResponseFromTransferExecute(e)
          \/ event = ResponseFromInterbankInfo(e) /\ order[r] = "none"

\* The audit log, read event by event, agrees with what the client was told:
\* nothing about a request not received or rejected; else the request first and
\* then, unless the process died, one response (fund-out.controller.ts:59-97).
Audited(r) ==
  \/ /\ pc[r] = "new" \/ Rejection(input[r]) # "none"
     /\ published[r] = << >>
  \/ /\ pc[r] \in InFlight \/ reply[r].kind = "lost"
     /\ published[r] = <<RequestToInterbankInfo>>
  \/ /\ pc[r] = "answered" /\ Rejection(input[r]) = "none"
     /\ \E event \in Event :
          Tells(event, r) /\ published[r] = <<RequestToInterbankInfo, event>>

AuditTrail == \A r \in Req : Audited(r)

Ordered(r) == order[r] # "none"

\* The order the bank was sent.
OrderSent(r) == TransferOrder(input[r].body, transferId[r])

AskedAbout(r) == InterbankInfoOrder(input[r].body)

\* A side of the order is of an account and a customer the bank was asked about:
\* its id, what is cut from it (nothing, when it is short) and the document.
SideOf(side, account, customer) ==
  /\ side.CCI = account /\ side.entityCode = account /\ side.productId \in {"", account}
  /\ side.documentType = customer.documentType
  /\ side.documentNumber = customer.documentNumber

\* Money is ordered between the accounts, in the direction and for the document
\* the bank was asked about before, although nothing but the body links the two
\* requests: each mapper has its own table of document types and reads the body
\* on its own (customer-interbank-info.mapper.ts:7-36, transfer-execute.mapper.ts:6-97).
SameParties ==
  \A r \in Req :
    Ordered(r) =>
      /\ SideOf(OrderSent(r).origin, AskedAbout(r).origin.accountNumber, AskedAbout(r).origin)
      /\ SideOf(OrderSent(r).destiny, AskedAbout(r).destiny.accountNumber, AskedAbout(r).origin)

\* A body that gives everything there is to give.
Complete(b) ==
  /\ b.transaction.kind = "object" /\ b.transaction.amount.kind = "object"
  /\ b.metadata.payer.kind = "object" /\ b.metadata.payer.named
  /\ BankAccountOf(b).account_id = "cci" /\ BankAccountOf(b).destination_account_id = "cci"
  /\ BankAccountOf(b).owner.kind = "object"
  /\ BankAccountOf(b).owner.document_type \in {"DNI", "CE"}

\* The order of a complete body lacks, of all its fields, the transferId exactly
\* when the interbank information had none, the email of the beneficiary, which no
\* request carries, and nothing else (transfer-execute.mapper.ts:16-101).
OrderComplete ==
  \A r \in Req :
    Ordered(r) /\ Complete(input[r].body) =>
      /\ Lacking(OrderSent(r).order)
           = IF transferId[r] = Undefined THEN {"transferId"} ELSE {}
      /\ Lacking(OrderSent(r).origin) = {}
      /\ Lacking(OrderSent(r).destiny) = {"emailAddress"}

\* A reply and an order in the words of FundOutContract.
StatusOf(answer) ==
  CASE answer.kind = "none" -> "open"
    [] answer.kind = "lost" -> "lost"
    [] answer.kind = "approved" /\ answer.detail = "TRANSACCION OK" -> "confirmed"
    [] answer.kind = "approved" /\ answer.detail = "APPROVE_ERR_REQUEST_TRANSFER" ->
         "unconfirmed"
    [] answer.kind = "failed" /\ answer.detail \in DoubtfulException -> "doubtful"
    [] answer.kind = "failed" /\ answer.detail \notin DoubtfulException -> "refused"

MoneyOf(state) ==
  CASE state = "none" -> "untouched"
    [] state = "sent" -> "ordered"
    [] state = "executed" -> "moved"
    [] state \in {"refused", "dropped"} -> "kept"

Contract ==
  INSTANCE FundOutContract WITH
    status <- [r \in Req |-> StatusOf(reply[r])],
    money <- [r \in Req |-> MoneyOf(order[r])]

\* Every behaviour of the service and the bank is one of the contract: a
\* transfer is ordered once, for a client still waiting, and what the client is
\* told is true then and stays true.
ImplementsContract == Contract!Spec

\* Every request that reaches the handler is answered or lost with the process,
\* when its x-flow-timeout leaves the calls to the bank a timer.
EventuallyAnswered ==
  \A r \in Req :
    pc[r] \in InFlight /\ TimerOf(r) # "none" ~> pc[r] = "answered"

\* transfer-execute/dtos/transaction.dto.ts declares authorization_code
\* @IsNotEmpty() @IsString() in the answer of an approved transfer.
AuthorizationCodeGiven ==
  \A r \in Req : reply[r].kind = "approved" => reply[r].auth # Undefined

\* transfer-execute/dtos/transfer.dto.ts declares transferId @IsNotEmpty()
\* @IsString() in the order sent to the bank.
TransferIdGiven ==
  \A r \in Req : Ordered(r) => OrderSent(r).order.transferId # Undefined

\* transfer-execute/dtos/transfer-execute.dto.ts and the DTOs below it declare
\* every field of the order @IsNotEmpty(): the parties' documents, names, emails
\* and account numbers among them.
OrderAsDeclared == \A r \in Req : Ordered(r) => Declared(OrderSent(r))

\* customer-interbank-info.mapper.ts:4-5: the mapper needs no optional chaining,
\* because every field is validated when the request arrives; so it never throws.
MapperNeverThrows == [][\A r \in Req : ~MapperThrows(r)]_vars
=============================================================================
