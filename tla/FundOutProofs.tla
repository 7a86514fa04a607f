---------------------------- MODULE FundOutProofs ----------------------------
(***************************************************************************)
(* Proofs about FundOut, for any set of requests and any inputs.            *)
(*                                                                         *)
(* The inductive invariant IInv says, request by request, how far the order, *)
(* the events and the reply have come at each place of the handler; the      *)
(* safety properties follow from it, and so does each step of the refinement *)
(* of FundOutContract.                                                      *)
(***************************************************************************)
EXTENDS FundOut, SequenceTheorems, TLAPS

\* Nothing has happened to a request that waits for its checks.
Untouched(r) ==
  pc[r] = "new" =>
    reply[r] = NoReply /\ order[r] = "none" /\ published[r] = << >>

\* A request in the handler has passed the checks, has one event and no reply;
\* its order leaves with the last call.
Handled(r) ==
  pc[r] \in InFlight =>
    /\ Rejection(input[r]) = "none"
    /\ reply[r] = NoReply
    /\ published[r] = <<RequestToInterbankInfo>>
    /\ order[r] = "none" <=> pc[r] # "transfer"

\* A request that is done has a reply, and the reply is true of its order.
Replied(r) ==
  pc[r] = "answered" =>
    /\ reply[r].kind # "none"
    /\ reply[r].kind = "lost" => Rejection(input[r]) = "none"
    /\ Told(r, "TRANSACCION OK") => order[r] = "executed"
    /\ Told(r, "APPROVE_ERR_REQUEST_TRANSFER") => order[r] # "none"
    /\ reply[r].kind = "failed" /\ reply[r].detail \notin DoubtfulException
         => order[r] \in {"none", "refused", "dropped"}
    /\ Rejection(input[r]) # "none" => order[r] = "none"

\* The bank moves the money with the order.
Counted(r) == executions[r] = IF order[r] = "executed" THEN 1 ELSE 0

Local(r) ==
  Untouched(r) /\ Handled(r) /\ Replied(r) /\ Counted(r) /\ Audited(r)

IInv == TypeOK /\ \A r \in Req : Local(r)

----------------------------------------------------------------------------
\* Facts about the operators FundOut is built from.

\* The checks throw Nest exceptions.
LEMMA RejectionType ==
  ASSUME NEW q PROVE Rejection(q) \in HttpException \cup {"none"}
BY DEF Rejection, CheckCountry, CheckTimeout, CheckApiKey, ValidationPipe,
       HttpException

\* Whatever the status, the dictionary names one of the seven exceptions.
LEMMA CreateNewErrorType ==
  ASSUME NEW s PROVE CreateNewError(s) \in HttpException
BY DEF CreateNewError, statusDictionary, HttpException

\* doRequest returns or throws a Nest exception, whatever a call settles with.
LEMMA ThrownType ==
  ASSUME NEW o PROVE Thrown(o) \in HttpException \cup {"none"}
BY CreateNewErrorType DEF Thrown, HandlerError

\* doRequest only returns what was answered.
LEMMA ReturnedIsAnswered ==
  ASSUME NEW o \in Outcome, Thrown(o) = "none" PROVE o.answered
BY CreateNewErrorType DEF Thrown, HandlerError, HttpException

\* A failed call reads as a definite refusal only on an answer that says so or
\* when the bank could not be reached; either tells what became of the order.
LEMMA DefiniteError ==
  ASSUME NEW o \in Outcome, NEW s, Permitted(s, o),
         Thrown(o) \in HttpException
           \ (DoubtfulException \cup {"RequestTimeoutException"})
  PROVE  s \in {"refused", "dropped"}
<1> DEFINE e == o.error
<1>1. ~o.answered /\ Thrown(o) = HandlerError(e) /\ e \in AxiosError
  <2>1. CASE o \in {Answer(d) : d \in Data}
    <3>1. Thrown(o) \in {HandlerError(PlainError), "none"}
      BY <2>1 DEF Answer, Thrown
    <3>2. HandlerError(PlainError) = "InternalServerErrorException"
      BY DEF HandlerError, PlainError, Error, IsTimeoutError, IsNotFoundError,
             TIME_OUT_CODES, Undefined, CreateNewError, statusDictionary
    <3> QED
      BY <3>1, <3>2 DEF DoubtfulException, HttpException
  <2>2. CASE o \in {Failure(f) : f \in AxiosError}
    BY <2>2 DEF Failure, Thrown
  <2> QED
    BY <2>1, <2>2 DEF Outcome
<1>2. CASE e \in Refusals
  <2>1. /\ e.status \in ErrorStatus
        /\ ~IsTimeoutError(e)
        /\ ~IsNotFoundError(e)
    BY <1>2 DEF Refusals, Error, IsTimeoutError, IsNotFoundError,
                TIME_OUT_CODES, Undefined
  <2>2. HandlerError(e) = CreateNewError(e.status)
    BY <2>1 DEF HandlerError, BuildStatusError, ErrorStatus, Undefined
  <2>3. e.status \in {"400", "401", "403", "404"}
    BY <1>1, <2>1, <2>2 DEF ErrorStatus, CreateNewError, statusDictionary,
                            DoubtfulException
  <2> QED
    BY <2>3 DEF Permitted
<1>3. CASE e \in Unreachable
  BY <1>3 DEF Permitted
<1>4. CASE e \in {f \in Broken : IsTimeoutError(f)} \cup TimerFired
  <2>1. IsTimeoutError(e)
    BY <1>4 DEF TimerFired, Error, IsTimeoutError, TIME_OUT_CODES
  <2>2. HandlerError(e) = "RequestTimeoutException"
    BY <2>1 DEF HandlerError, BuildStatusError, CreateNewError, statusDictionary
  <2> QED
    BY <1>1, <2>2
<1>5. CASE e \in {f \in Broken : ~IsTimeoutError(f)} \cup {Unsent}
  <2>1. e.status = Undefined /\ ~IsTimeoutError(e) /\ ~IsNotFoundError(e)
    BY <1>5 DEF Broken, Unsent, Error, IsTimeoutError, IsNotFoundError,
                TIME_OUT_CODES, Undefined
  <2>2. HandlerError(e) = "InternalServerErrorException"
    BY <2>1 DEF HandlerError, CreateNewError, statusDictionary
  <2> QED
    BY <1>1, <2>2 DEF DoubtfulException
<1> QED
  BY <1>1, <1>2, <1>3, <1>4, <1>5 DEF AxiosError

\* The catch blocks of transfer-execute.service.ts, in the same terms.
LEMMA DefiniteTransferError ==
  ASSUME NEW o \in Outcome, NEW s, Permitted(s, o),
         TransferError(o) \notin
           DoubtfulException \cup {"none", "RequestTimeoutException", "TypeError"}
  PROVE  s \in {"refused", "dropped"}
BY DefiniteError, ThrownType DEF TransferError, HttpException

\* A transfer is approved by the bank's answer only.
LEMMA ApprovalIsAnswered ==
  ASSUME NEW o \in Outcome, NEW s, Permitted(s, o), TransferError(o) = "none"
  PROVE  s = "executed"
BY ReturnedIsAnswered DEF TransferError, Permitted

LEMMA TransferErrorType ==
  ASSUME NEW o PROVE TransferError(o) \in Throwable \cup {"none"}
BY ThrownType DEF TransferError, Throwable

LEMMA OutcomesAreOutcomes ==
  ASSUME NEW t PROVE OutcomesUnder(t) \subseteq Outcome
BY DEF OutcomesUnder, Outcome, AxiosError

\* What Nest's filter makes of a thrown error.
LEMMA FailedType ==
  ASSUME NEW e
  PROVE  /\ Failed(e) \in Reply
         /\ Failed(e).kind = "failed"
         /\ Failed(e).detail = IF e \in HttpException
                                  THEN e ELSE "InternalServerErrorException"
BY DEF Failed, Reply, HttpException

LEMMA Concatenation ==
  ASSUME NEW S, NEW a \in S, NEW b \in S
  PROVE  /\ << >> \o <<a>> = <<a>>
         /\ << >> \o <<a, b>> = <<a, b>>
         /\ <<a>> \o <<b>> = <<a, b>>
         /\ <<a>> \o (<< >> \o <<b>>) = <<a, b>>
<1>1. << >> \o <<a>> = <<a>>
  OBVIOUS
<1>2. << >> \o <<b>> = <<b>>
  OBVIOUS
<1>3. << >> \o <<a, b>> = <<a, b>>
  OBVIOUS
<1>4. <<a>> \o <<b>> = <<a, b>>
  <2>1. <<a>> \in Seq(S) /\ <<b>> \in Seq(S) /\ <<a, b>> \in Seq(S)
    OBVIOUS
  <2>2. /\ <<a>> \o <<b>> \in Seq(S)
        /\ Len(<<a>> \o <<b>>) = 2
        /\ (<<a>> \o <<b>>)[1] = a
        /\ (<<a>> \o <<b>>)[2] = b
    BY <2>1, ConcatProperties
  <2>3. \A i \in 1 .. 2 : (<<a>> \o <<b>>)[i] = <<a, b>>[i]
    BY <2>2
  <2>4. Len(<<a>> \o <<b>>) = Len(<<a, b>>)
    BY <2>2
  <2> QED
    BY <2>1, <2>2, <2>3, <2>4, SeqEqual
<1> QED
  BY <1>1, <1>2, <1>3, <1>4

----------------------------------------------------------------------------
\* The inductive invariant.

LEMMA InitIInv == Init => IInv
<1> SUFFICES ASSUME Init PROVE IInv
  OBVIOUS
<1>1. TypeOK
  BY DEF Init, TypeOK, Reply, Undefined
<1>2. ASSUME NEW r \in Req PROVE Local(r)
  BY DEF Init, Local, Untouched, Handled, Replied, Counted, Audited, InFlight
<1> QED
  BY <1>1, <1>2 DEF IInv

\* A request a step does not touch keeps what holds of it.
Same(s) ==
  /\ pc'[s] = pc[s]
  /\ input'[s] = input[s]
  /\ published'[s] = published[s]
  /\ order'[s] = order[s]
  /\ executions'[s] = executions[s]
  /\ reply'[s] = reply[s]

LEMMA Frame ==
  ASSUME NEW s \in Req, Local(s), Same(s)
  PROVE  Local(s)'
BY DEF Same, Local, Untouched, Handled, Replied, Counted, Audited, Told, Tells

LEMMA EventType ==
  /\ RequestToInterbankInfo \in Event
  /\ \A e \in Throwable : ResponseFromInterbankInfo(e) \in Event
  /\ \A e \in Throwable \cup {"none"} : ResponseFromTransferExecute(e) \in Event
BY DEF Event

\* What an answer may say while the order is in state s.
TrueOf(answer, s) ==
  /\ answer.kind \in {"approved", "failed"}
  /\ answer.kind = "approved" /\ answer.detail = "TRANSACCION OK"
       => s = "executed"
  /\ answer.kind = "approved" /\ answer.detail = "APPROVE_ERR_REQUEST_TRANSFER"
       => s # "none"
  /\ answer.kind = "failed" /\ answer.detail \notin DoubtfulException
       => s \in {"none", "refused", "dropped"}

\* Every way out of the handler publishes one event that goes with the answer.
LEMMA AnswerStep ==
  ASSUME NEW r \in Req, TypeOK, Local(r), pc[r] \in InFlight,
         NEW e \in Event, NEW answer \in Reply,
         Publish(r, <<e>>), Respond(r, answer),
         UNCHANGED <<input, transferId, order, executions>>,
         TrueOf(answer, order[r]), Tells(e, r)'
  PROVE  TypeOK' /\ Local(r)' /\ \A s \in Req \ {r} : Same(s)
<1>1. /\ published[r] = <<RequestToInterbankInfo>>
      /\ Rejection(input[r]) = "none"
  BY DEF Local, Handled
<1>2. published' = [published EXCEPT ![r] = <<RequestToInterbankInfo, e>>]
  BY <1>1, EventType, Concatenation DEF Publish
<1>3. <<RequestToInterbankInfo, e>> \in Seq(Event)
  BY EventType
<1>4. published' \in [Req -> Seq(Event)]
  BY <1>2, <1>3 DEF TypeOK
<1>5. TypeOK'
  BY <1>4 DEF TypeOK, Respond, Goto
<1>6. /\ pc'[r] = "answered" /\ reply'[r] = answer
      /\ published'[r] = <<RequestToInterbankInfo, e>>
  BY <1>2 DEF TypeOK, Respond, Goto
<1>7. Local(r)'
  BY <1>1, <1>6 DEF Local, Untouched, Handled, Replied, Counted, Audited, Told,
                    TrueOf, InFlight
<1>8. \A s \in Req \ {r} : Same(s)
  BY <1>2 DEF Same, TypeOK, Respond, Goto
<1> QED
  BY <1>5, <1>7, <1>8

LEMMA CatchInterbankInfoStep ==
  ASSUME NEW r \in Req, TypeOK, Local(r), NEW e \in Throwable,
         pc[r] \in {"token1", "interbank"}, CatchInterbankInfo(r, e),
         UNCHANGED <<input, transferId, order, executions>>
  PROVE  TypeOK' /\ Local(r)' /\ \A s \in Req \ {r} : Same(s)
<1>1. pc[r] \in InFlight /\ order[r] = "none"
  BY DEF Local, Handled, InFlight
<1>2. TrueOf(Failed(e), order[r])
  BY <1>1, FailedType DEF TrueOf
<1>3. Tells(ResponseFromInterbankInfo(e), r)'
  BY <1>1, FailedType DEF Tells, CatchInterbankInfo, Respond, TypeOK
<1> QED
  BY <1>1, <1>2, <1>3, AnswerStep, EventType, FailedType DEF CatchInterbankInfo

LEMMA CatchTransferExecuteStep ==
  ASSUME NEW r \in Req, TypeOK, Local(r), NEW e \in Throwable,
         pc[r] \in {"token2", "transfer"}, CatchTransferExecute(r, e),
         UNCHANGED <<input, transferId, order, executions>>,
         TrueOf(Failed(e), order[r])
  PROVE  TypeOK' /\ Local(r)' /\ \A s \in Req \ {r} : Same(s)
<1>1. pc[r] \in InFlight
  BY DEF InFlight
<1>2. Tells(ResponseFromTransferExecute(e), r)'
  BY DEF Tells, CatchTransferExecute, Respond, TypeOK
<1> QED
  BY <1>1, <1>2, AnswerStep, EventType, FailedType DEF CatchTransferExecute

LEMMA ReturnResultStep ==
  ASSUME NEW r \in Req, TypeOK, Local(r), pc[r] = "transfer",
         NEW answer \in Reply, answer.kind = "approved",
         ReturnResult(r, answer),
         UNCHANGED <<input, transferId, order, executions>>,
         TrueOf(answer, order[r])
  PROVE  TypeOK' /\ Local(r)' /\ \A s \in Req \ {r} : Same(s)
<1>1. pc[r] \in InFlight
  BY DEF InFlight
<1>2. Tells(ResponseFromTransferExecute("none"), r)'
  BY DEF Tells, ReturnResult, Respond, TypeOK
<1> QED
  BY <1>1, <1>2, AnswerStep, EventType DEF ReturnResult

\* A step of the handling of r, or of the bank on r's order, keeps the types and
\* what holds of r, and touches no other request.
Kept(r) == TypeOK' /\ Local(r)' /\ \A s \in Req \ {r} : Same(s)

LEMMA ReceiveStep ==
  ASSUME NEW r \in Req, TypeOK, Local(r),
         Reject(r) \/ CreateTransaction(r) \/ MapperThrows(r)
  PROVE  Kept(r)
<1>1. CASE Reject(r)
  <2>1. TypeOK'
    BY <1>1, RejectionType, FailedType DEF Reject, Respond, Goto, TypeOK
  <2>2. Local(r)'
    BY <1>1, RejectionType, FailedType
    DEF Reject, Respond, Goto, TypeOK, Local, Untouched, Handled, Replied,
        Counted, Audited, Told, InFlight
  <2> QED
    BY <1>1, <2>1, <2>2 DEF Reject, Respond, Goto, TypeOK, Same, Kept
<1>2. CASE CreateTransaction(r)
  <2>1. published' = [published EXCEPT ![r] = <<RequestToInterbankInfo>>]
    BY <1>2, Concatenation
    DEF CreateTransaction, Publish, Local, Untouched
  <2>2. <<RequestToInterbankInfo>> \in Seq(Event)
    BY EventType
  <2>3. TypeOK'
    BY <1>2, <2>1, <2>2 DEF CreateTransaction, Goto, TypeOK, InFlight
  <2>4. Local(r)'
    BY <1>2, <2>1
    DEF CreateTransaction, Goto, TypeOK, Local, Untouched, Handled, Replied,
        Counted, Audited, InFlight
  <2> QED
    BY <1>2, <2>1, <2>3, <2>4 DEF CreateTransaction, Goto, TypeOK, Same, Kept
<1>3. CASE MapperThrows(r)
  <2> DEFINE event == ResponseFromInterbankInfo("TypeError")
             trail == <<RequestToInterbankInfo, event>>
  <2>1. event \in Event /\ "TypeError" \in Throwable
    BY EventType DEF Throwable
  <2>2. published' = [published EXCEPT ![r] = trail]
    <3>1. published[r] = << >>
      BY <1>3 DEF MapperThrows, Local, Untouched
    <3>2. << >> \o trail = trail
      BY <2>1, EventType, Concatenation
    <3> QED
      BY <1>3, <3>1, <3>2 DEF MapperThrows, Publish
  <2>3. trail \in Seq(Event)
    BY <2>1, EventType
  <2> HIDE DEF trail
  <2>4. TypeOK'
    BY <1>3, <2>2, <2>3, FailedType DEF MapperThrows, Respond, Goto, TypeOK
  <2>5. /\ pc'[r] = "answered" /\ reply'[r] = Failed("TypeError")
        /\ published'[r] = trail /\ order'[r] = "none"
        /\ input'[r] = input[r] /\ executions'[r] = executions[r]
    BY <1>3, <2>2 DEF MapperThrows, Respond, Goto, TypeOK, Local, Untouched
  <2>6. Tells(event, r)'
    BY <2>1, <2>5 DEF Tells
  <2>7. Local(r)'
    BY <1>3, <2>1, <2>5, <2>6, FailedType
    DEF MapperThrows, Local, Untouched, Handled, Replied, Counted, Audited,
        Told, InFlight, trail
  <2> QED
    BY <1>3, <2>2, <2>4, <2>7 DEF MapperThrows, Respond, Goto, TypeOK, Same, Kept
<1> QED
  BY <1>1, <1>2, <1>3

\* Steps that only move the handler on, keeping everything the client or the
\* bank could see.
LEMMA MoveStep ==
  ASSUME NEW r \in Req, TypeOK, Local(r),
         NEW from \in {"token1", "interbank"}, NEW to \in {"interbank", "token2"},
         pc[r] = from, Goto(r, to),
         transferId' \in [Req -> {"id", Undefined}],
         UNCHANGED <<input, published, order, executions, reply>>
  PROVE  Kept(r)
<1>1. TypeOK'
  BY DEF Goto, TypeOK, InFlight
<1>2. Local(r)'
  BY DEF Goto, TypeOK, Local, Untouched, Handled, Replied, Counted, Audited,
         Told, InFlight
<1> QED
  BY <1>1, <1>2 DEF Goto, TypeOK, Same, Kept

LEMMA TokenStep ==
  ASSUME NEW r \in Req, TypeOK, Local(r), TokenSettles(r)
  PROVE  Kept(r)
<1>1. CASE AskInterbankInfo(r)
  <2>1. CASE ~HeadersThrow(input[r].body)
    BY <1>1, <2>1, MoveStep DEF AskInterbankInfo, HeadersThrow, TypeOK
  <2>2. CASE HeadersThrow(input[r].body)
    BY <1>1, <2>2, CatchInterbankInfoStep
    DEF AskInterbankInfo, HeadersThrow, Throwable, Kept
  <2> QED
    BY <2>1, <2>2
<1>2. CASE OrderTransfer(r)
  <2>1. TypeOK'
    BY <1>2 DEF OrderTransfer, Goto, TypeOK, InFlight
  <2>2. Local(r)'
    BY <1>2
    DEF OrderTransfer, Goto, TypeOK, Local, Untouched, Handled, Replied,
        Counted, Audited, InFlight
  <2> QED
    BY <1>2, <2>1, <2>2 DEF OrderTransfer, Goto, TypeOK, Same, Kept
<1>3. ASSUME NEW e \in Throwable, InterbankTokenFails(r, e)
      PROVE  Kept(r)
  BY <1>3, CatchInterbankInfoStep DEF InterbankTokenFails, Kept
<1>4. ASSUME NEW e \in Throwable, TransferTokenFails(r, e)
      PROVE  Kept(r)
  <2>1. order[r] = "none"
    BY <1>4 DEF TransferTokenFails, Local, Handled, InFlight
  <2>2. TrueOf(Failed(e), order[r])
    BY <2>1, FailedType DEF TrueOf
  <2> QED
    BY <1>4, <2>2, CatchTransferExecuteStep DEF TransferTokenFails, Kept
<1> QED
  BY <1>1, <1>2, <1>3, <1>4 DEF TokenSettles

LEMMA InterbankStep ==
  ASSUME NEW r \in Req, TypeOK, Local(r), InterbankInfoSettles(r)
  PROVE  Kept(r)
<1>1. PICK o \in OutcomesUnder(TimerOf(r)) :
        InterbankInfo(r, o) \/ InterbankInfoFails(r, o)
  BY DEF InterbankInfoSettles
<1>2. CASE InterbankInfo(r, o)
  <2>1. transferId' \in [Req -> {"id", Undefined}]
    BY <1>2 DEF InterbankInfo, TransferIdIn, TypeOK
  <2> QED
    BY <1>2, <2>1, MoveStep DEF InterbankInfo
<1>3. CASE InterbankInfoFails(r, o)
  BY <1>3, ThrownType, CatchInterbankInfoStep
  DEF InterbankInfoFails, Throwable, Kept
<1> QED
  BY <1>1, <1>2, <1>3

LEMMA TransferStep ==
  ASSUME NEW r \in Req, TypeOK, Local(r), TransferSettles(r)
  PROVE  Kept(r)
<1>1. PICK o \in Outcome :
        /\ Permitted(order[r], o)
        /\ TransferApproved(r, o) \/ TransferPresumed(r, o) \/ TransferFails(r, o)
  BY OutcomesAreOutcomes DEF TransferSettles
<1>2. CASE TransferApproved(r, o)
  <2> DEFINE answer == Approved("TRANSACCION OK", TransferIdIn(o))
  <2>1. answer \in Reply /\ answer.kind = "approved"
        /\ answer.detail = "TRANSACCION OK"
    BY DEF Approved, Reply, TransferIdIn
  <2>2. order[r] = "executed"
    BY <1>1, <1>2, ApprovalIsAnswered DEF TransferApproved
  <2>3. TrueOf(answer, order[r])
    BY <2>1, <2>2 DEF TrueOf
  <2> QED
    BY <1>2, <2>1, <2>3, ReturnResultStep DEF TransferApproved, Kept
<1>3. CASE TransferPresumed(r, o)
  <2> DEFINE answer == Approved("APPROVE_ERR_REQUEST_TRANSFER",
                                ApprovalCode(transferId[r]))
  <2>1. answer \in Reply /\ answer.kind = "approved"
        /\ answer.detail = "APPROVE_ERR_REQUEST_TRANSFER"
    BY DEF Approved, Reply, ApprovalCode
  <2>2. order[r] # "none"
    BY <1>3 DEF TransferPresumed, Local, Handled, InFlight
  <2>3. TrueOf(answer, order[r])
    BY <2>1, <2>2 DEF TrueOf
  <2> QED
    BY <1>3, <2>1, <2>3, ReturnResultStep DEF TransferPresumed, Kept
<1>4. CASE TransferFails(r, o)
  <2> DEFINE e == TransferError(o)
  <2>1. e \in Throwable
    BY <1>4, TransferErrorType DEF TransferFails
  <2>2. Failed(e).detail \notin DoubtfulException
          => order[r] \in {"none", "refused", "dropped"}
    BY <1>1, <1>4, <2>1, FailedType, DefiniteTransferError
    DEF TransferFails, Throwable, DoubtfulException, HttpException
  <2>3. TrueOf(Failed(e), order[r])
    BY <2>2, FailedType DEF TrueOf
  <2> QED
    BY <1>4, <2>1, <2>3, CatchTransferExecuteStep DEF TransferFails, Kept
<1> QED
  BY <1>1, <1>2, <1>3, <1>4

LEMMA BankStep ==
  ASSUME NEW r \in Req, TypeOK, Local(r),
         BankExecutes(r) \/ BankRefuses(r) \/ OrderLost(r)
  PROVE  Kept(r)
<1>1. order[r] = "sent" /\ order'[r] \in {"executed", "refused", "dropped"}
      /\ UNCHANGED <<pc, input, published, reply, transferId>>
  BY DEF BankExecutes, BankRefuses, OrderLost, BankSettles, TypeOK
<1>2. executions[r] = 0
  BY <1>1 DEF Local, Counted
<1>3. TypeOK'
  <2>1. executions' \in [Req -> Nat]
    <3>1. CASE BankExecutes(r)
      BY <1>2, <3>1 DEF BankExecutes, TypeOK
    <3>2. CASE BankRefuses(r) \/ OrderLost(r)
      BY <3>2 DEF BankRefuses, OrderLost, TypeOK
    <3> QED
      BY <3>1, <3>2
  <2>2. order' \in [Req -> {"none", "sent", "executed", "refused", "dropped"}]
    BY DEF BankExecutes, BankRefuses, OrderLost, BankSettles, TypeOK
  <2>3. UNCHANGED input
    BY DEF BankExecutes, BankRefuses, OrderLost, BankSettles
  <2> QED
    BY <1>1, <2>1, <2>2, <2>3 DEF TypeOK
<1>4. Counted(r)'
  BY <1>2 DEF BankExecutes, BankRefuses, OrderLost, BankSettles, TypeOK, Counted
<1>5. Local(r)'
  BY <1>1, <1>4
  DEF Local, Untouched, Handled, Replied, Audited, Told, Tells, InFlight
<1>6. \A s \in Req \ {r} : Same(s)
  BY <1>1 DEF BankExecutes, BankRefuses, OrderLost, BankSettles, TypeOK, Same
<1> QED
  BY <1>3, <1>5, <1>6 DEF Kept

\* The crash answers what is in flight with nothing.
LEMMA CrashStep ==
  ASSUME IInv, Crash
  PROVE  IInv'
<1>1. TypeOK'
  BY DEF IInv, Crash, TypeOK, LostReply, Reply
<1>2. ASSUME NEW r \in Req PROVE Local(r)'
  <2>1. CASE pc[r] \in InFlight
    BY <2>1
    DEF IInv, Crash, TypeOK, LostReply, Local, Untouched, Handled, Replied,
        Counted, Audited, Told, InFlight
  <2>2. CASE pc[r] \notin InFlight
    <3>1. Same(r)
      BY <2>2 DEF Crash, Same, IInv, TypeOK
    <3> QED
      BY <3>1, Frame DEF IInv
  <2> QED
    BY <2>1, <2>2
<1> QED
  BY <1>1, <1>2 DEF IInv

\* Whatever is done for request r keeps what holds of it and touches no other.
LEMMA RequestKept ==
  ASSUME IInv, NEW r \in Req,
         \/ Reject(r) \/ CreateTransaction(r) \/ MapperThrows(r)
         \/ TokenSettles(r) \/ InterbankInfoSettles(r) \/ TransferSettles(r)
         \/ BankExecutes(r) \/ BankRefuses(r) \/ OrderLost(r)
  PROVE  Kept(r)
BY ReceiveStep, TokenStep, InterbankStep, TransferStep, BankStep DEF IInv

LEMMA NextIInv == IInv /\ [Next]_vars => IInv'
<1> SUFFICES ASSUME IInv, [Next]_vars PROVE IInv'
  OBVIOUS
<1>1. ASSUME NEW r \in Req, Kept(r) PROVE IInv'
  BY <1>1, Frame DEF Kept, IInv
<1>2. CASE UNCHANGED vars
  <2>1. TypeOK'
    BY <1>2 DEF IInv, TypeOK, vars
  <2>2. \A r \in Req : Same(r)
    BY <1>2 DEF Same, vars
  <2> QED
    BY <2>1, <2>2, Frame DEF IInv
<1> QED
  BY <1>1, <1>2, RequestKept, CrashStep DEF Next

THEOREM Invariance == Spec => []IInv
BY InitIInv, NextIInv, PTL DEF Spec

----------------------------------------------------------------------------
\* What the runs check, for any set of requests.

\* A client that has a reply is one the handler or the crash is done with.
LEMMA ReplyIsLast ==
  ASSUME IInv, NEW r \in Req, reply[r].kind # "none"
  PROVE  pc[r] = "answered"
<1>1. reply[r] # NoReply
  BY DEF NoReply
<1>2. pc[r] \in {"new", "answered"} \cup InFlight
  BY DEF IInv, TypeOK
<1> QED
  BY <1>1, <1>2 DEF IInv, Local, Untouched, Handled

\* The variables keep their types.
THEOREM TypeCorrect == Spec => []TypeOK
BY Invariance, PTL DEF IInv

\* "TRANSACCION OK" is only said of money that moved, once.
THEOREM ConfirmedMovedHolds == Spec => []ConfirmedMoved
<1>1. IInv => ConfirmedMoved
  BY ReplyIsLast DEF IInv, ConfirmedMoved, Local, Replied, Counted, Told
<1> QED
  BY <1>1, Invariance, PTL

\* No approval on timeout without an order.
THEOREM PresumedOrderedHolds == Spec => []PresumedOrdered
<1>1. IInv => PresumedOrdered
  BY ReplyIsLast DEF IInv, PresumedOrdered, Local, Replied, Told
<1> QED
  BY <1>1, Invariance, PTL

\* A client that reads a definite refusal keeps its money, then and later.
THEOREM RefusalIsFinalHolds == Spec => []RefusalIsFinal
<1>1. IInv => RefusalIsFinal
  BY ReplyIsLast DEF IInv, RefusalIsFinal, Local, Replied, Counted
<1> QED
  BY <1>1, Invariance, PTL

\* No request moves money twice.
THEOREM OneExecutionHolds == Spec => []OneExecution
<1>1. IInv => OneExecution
  BY DEF IInv, OneExecution, Local, Counted
<1> QED
  BY <1>1, Invariance, PTL

\* The events and the replies agree.
THEOREM AuditTrailHolds == Spec => []AuditTrail
<1>1. IInv => AuditTrail
  BY DEF IInv, AuditTrail, Local
<1> QED
  BY <1>1, Invariance, PTL

\* The two tables of document types agree, and so do the two readings.
LEMMA SameDocumentType ==
  ASSUME NEW b PROVE TransferDocumentType(b) = InterbankDocumentType(b)
BY DEF TransferDocumentType, InterbankDocumentType, TRANSFER_DNI_MAPPER,
       INTERBANK_DNI_MAPPER

\* The two mappers agree on the parties, whatever the body.
THEOREM SamePartiesHolds == Spec => []SameParties
<1>1. ASSUME NEW r \in Req
      PROVE  /\ SideOf(OrderSent(r).origin, AskedAbout(r).origin.accountNumber,
                       AskedAbout(r).origin)
             /\ SideOf(OrderSent(r).destiny, AskedAbout(r).destiny.accountNumber,
                       AskedAbout(r).origin)
  <2> DEFINE b == input[r].body
             asked == AskedAbout(r)
  <2>1. /\ OrderSent(r).origin = Side(b, "account_id", OfPayer(b, "email"))
        /\ OrderSent(r).destiny = Side(b, "destination_account_id", "")
    BY DEF OrderSent, TransferOrder
  <2>2. /\ asked.origin.documentType = InterbankDocumentType(b)
        /\ asked.origin.documentNumber = Field(BankAccountOf(b).owner, "document_number")
        /\ asked.origin.accountNumber = "account_id"
        /\ asked.destiny.accountNumber = "destination_account_id"
    BY DEF AskedAbout, InterbankInfoOrder
  <2> HIDE DEF b, asked
  <2>3. ASSUME NEW account, NEW email
        PROVE  SideOf(Side(b, account, email), account, asked.origin)
    <3>1. CciToNroCuenta(b, account) \in {"", account}
      BY DEF CciToNroCuenta
    <3> QED
      BY <2>2, <3>1, SameDocumentType DEF SideOf, Side
  <2> QED
    BY <2>1, <2>2, <2>3 DEF asked
<1>2. SameParties
  BY <1>1 DEF SameParties
<1> QED
  BY <1>2, PTL

\* The order of a complete body lacks the beneficiary's email, the transferId when
\* there is none, and nothing else.
THEOREM OrderCompleteHolds == Spec => []OrderComplete
<1>1. ASSUME NEW b, Complete(b), NEW id
      PROVE  /\ Lacking(TransferOrder(b, id).order)
                  = IF id \in {Undefined, ""} THEN {"transferId"} ELSE {}
             /\ Lacking(TransferOrder(b, id).origin) = {}
             /\ Lacking(TransferOrder(b, id).destiny) = {"emailAddress"}
  <2>1. /\ TransferDocumentType(b) \in {"1", "4"}
        /\ Field(BankAccountOf(b).owner, "document_number") = "document_number"
        /\ \A field : OfPayer(b, field) = field
    BY <1>1
    DEF Complete, TransferDocumentType, Lookup, Field, OfPayer, TRANSFER_DNI_MAPPER
  <2>2. ASSUME NEW account \in {"account_id", "destination_account_id"}, NEW email
        PROVE  Lacking(Side(b, account, email))
                 = IF email \in {Undefined, ""} THEN {"emailAddress"} ELSE {}
    <3> DEFINE side == Side(b, account, email)
    <3>1. DOMAIN side = {"amount", "productId", "documentType", "documentNumber",
                         "surname", "names", "emailAddress", "entityCode", "CCI"}
      BY DEF Side
    <3>2. CciToNroCuenta(b, account) = account
      BY <1>1 DEF Complete, CciToNroCuenta
    <3>3. /\ side["amount"] = "total" /\ side["productId"] = account
          /\ side["documentType"] \in {"1", "4"}
          /\ side["documentNumber"] = "document_number"
          /\ side["surname"] = "last_name" /\ side["names"] = "first_name"
          /\ side["emailAddress"] = email
          /\ side["entityCode"] = account /\ side["CCI"] = account
      BY <1>1, <2>1, <3>2 DEF Side, Complete, Field
    <3> HIDE DEF side
    <3>4. \A field \in DOMAIN side :
            side[field] \in {Undefined, ""}
              <=> (field = "emailAddress" /\ email \in {Undefined, ""})
      BY <2>2, <3>1, <3>3 DEF Undefined
    <3>5. Lacking(side) = {field \in DOMAIN side : side[field] \in {Undefined, ""}}
      BY DEF Lacking
    <3> QED
      BY <3>1, <3>4, <3>5 DEF side
  <2>3. Lacking(TransferOrder(b, id).order)
          = IF id \in {Undefined, ""} THEN {"transferId"} ELSE {}
    <3> DEFINE part == [transactionIdentifier |-> "unique_id", transferId |-> id]
    <3>1. /\ DOMAIN part = {"transactionIdentifier", "transferId"}
          /\ part["transactionIdentifier"] = "unique_id" /\ part["transferId"] = id
      OBVIOUS
    <3>2. TransferOrder(b, id).order = part
      BY DEF TransferOrder
    <3> HIDE DEF part
    <3>3. Lacking(part) = IF id \in {Undefined, ""} THEN {"transferId"} ELSE {}
      BY <3>1 DEF Lacking, Undefined
    <3> QED
      BY <3>2, <3>3
  <2> QED
    BY <2>1, <2>2, <2>3 DEF TransferOrder, Undefined
<1>2. ASSUME IInv PROVE OrderComplete
  <2>1. \A r \in Req : transferId[r] \in {"id", Undefined}
    BY <1>2 DEF IInv, TypeOK
  <2> QED
    BY <1>1, <2>1 DEF OrderComplete, OrderSent, Undefined
<1> QED
  BY <1>2, Invariance, PTL

----------------------------------------------------------------------------
\* FundOut implements FundOutContract.

LEMMA StatusFacts ==
  ASSUME NEW a \in Reply
  PROVE  /\ StatusOf(a) = "open" <=> a.kind = "none"
         /\ StatusOf(a) = "lost" <=> a.kind = "lost"
         /\ StatusOf(a) = "confirmed"
              <=> a.kind = "approved" /\ a.detail = "TRANSACCION OK"
         /\ StatusOf(a) = "unconfirmed"
              <=> a.kind = "approved" /\ a.detail = "APPROVE_ERR_REQUEST_TRANSFER"
         /\ StatusOf(a) = "refused"
              <=> a.kind = "failed" /\ a.detail \notin DoubtfulException
         /\ StatusOf(a) \in {"open", "lost", "confirmed", "unconfirmed", "refused",
                             "doubtful"}
<1>1. /\ a.kind \in {"none", "lost", "approved", "failed"}
      /\ a.kind = "approved"
           => a.detail \in {"TRANSACCION OK", "APPROVE_ERR_REQUEST_TRANSFER"}
  <2>1. CASE a = NoReply
    BY <2>1 DEF NoReply
  <2>2. CASE a = LostReply
    BY <2>2 DEF LostReply
  <2>3. CASE a \notin {NoReply, LostReply}
    BY <2>3 DEF Reply
  <2> QED
    BY <2>1, <2>2, <2>3
<1>2. CASE a.kind = "none"
  BY <1>2 DEF StatusOf
<1>3. CASE a.kind = "lost"
  BY <1>3 DEF StatusOf
<1>4. CASE a.kind = "approved" /\ a.detail = "TRANSACCION OK"
  BY <1>4 DEF StatusOf
<1>5. CASE a.kind = "approved" /\ a.detail = "APPROVE_ERR_REQUEST_TRANSFER"
  BY <1>5 DEF StatusOf
<1>6. CASE a.kind = "failed" /\ a.detail \in DoubtfulException
  BY <1>6 DEF StatusOf
<1>7. CASE a.kind = "failed" /\ a.detail \notin DoubtfulException
  BY <1>7 DEF StatusOf
<1> QED
  BY <1>1, <1>2, <1>3, <1>4, <1>5, <1>6, <1>7

LEMMA MoneyFacts ==
  ASSUME NEW s \in {"none", "sent", "executed", "refused", "dropped"}
  PROVE  /\ MoneyOf(s) = "untouched" <=> s = "none"
         /\ MoneyOf(s) = "ordered" <=> s = "sent"
         /\ MoneyOf(s) = "moved" <=> s = "executed"
         /\ MoneyOf(s) = "kept" <=> s \in {"refused", "dropped"}
BY DEF MoneyOf

\* A step that touches no request's reply or order is none of the contract's.
LEMMA Stutter ==
  ASSUME \A s \in Req : reply'[s] = reply[s] /\ order'[s] = order[s]
  PROVE  UNCHANGED Contract!vars
BY DEF Contract!vars

\* An answer is one the contract lets the service give.
LEMMA AnswerIsTell ==
  ASSUME IInv, IInv', NEW r \in Req,
         pc'[r] = "answered", reply[r] = NoReply, reply'[r].kind # "lost",
         order'[r] = order[r], \A s \in Req \ {r} : Same(s)
  PROVE  Contract!Next
<1> DEFINE st == StatusOf(reply'[r])
<1>1. /\ reply'[r] \in Reply /\ reply[r] \in Reply
      /\ order[r] \in {"none", "sent", "executed", "refused", "dropped"}
  BY DEF IInv, TypeOK
<1>2. /\ reply'[r].kind # "none"
      /\ reply'[r].kind = "approved" /\ reply'[r].detail = "TRANSACCION OK"
           => order[r] = "executed"
      /\ reply'[r].kind = "approved"
             /\ reply'[r].detail = "APPROVE_ERR_REQUEST_TRANSFER"
           => order[r] # "none"
      /\ reply'[r].kind = "failed" /\ reply'[r].detail \notin DoubtfulException
           => order[r] \in {"none", "refused", "dropped"}
  BY DEF IInv, Local, Replied, Told
<1>3. StatusOf(reply[r]) = "open"
  <2>1. reply[r].kind = "none"
    BY DEF NoReply
  <2> QED
    BY <1>1, <2>1, StatusFacts
<1>4. /\ st \in {"confirmed", "unconfirmed", "refused", "doubtful"}
      /\ st = "confirmed" => MoneyOf(order[r]) = "moved"
      /\ st = "unconfirmed" => MoneyOf(order[r]) # "untouched"
      /\ st = "refused" => MoneyOf(order[r]) \in {"untouched", "kept"}
  BY <1>1, <1>2, StatusFacts, MoneyFacts
<1>5. Contract!Tell(r, st)
  BY <1>3 DEF Contract!Tell, Same
<1> HIDE DEF st
<1>6. Contract!Confirm(r) \/ Contract!Presume(r) \/ Contract!Refuse(r)
        \/ Contract!Doubt(r)
  BY <1>4, <1>5
  DEF Contract!Confirm, Contract!Presume, Contract!Refuse, Contract!Doubt
<1> QED
  BY <1>6 DEF Contract!Next

\* What a step does to request r, as the contract sees it.
LEMMA RequestStep ==
  ASSUME IInv, IInv', NEW r \in Req, \A s \in Req \ {r} : Same(s),
         \/ reply'[r] = reply[r] /\ order'[r] = order[r]
         \/ /\ reply[r] = NoReply /\ pc'[r] = "answered"
            /\ reply'[r].kind # "lost" /\ order'[r] = order[r]
         \/ /\ reply[r] = NoReply /\ reply'[r] = reply[r]
            /\ order[r] = "none" /\ order'[r] = "sent"
         \/ /\ reply'[r] = reply[r] /\ order[r] = "sent"
            /\ order'[r] \in {"executed", "refused", "dropped"}
  PROVE  [Contract!Next]_(Contract!vars)
<1>1. CASE reply'[r] = reply[r] /\ order'[r] = order[r]
  BY <1>1, Stutter DEF Same
<1>2. CASE /\ reply[r] = NoReply /\ pc'[r] = "answered"
           /\ reply'[r].kind # "lost" /\ order'[r] = order[r]
  BY <1>2, AnswerIsTell
<1>3. CASE /\ reply[r] = NoReply /\ reply'[r] = reply[r]
           /\ order[r] = "none" /\ order'[r] = "sent"
  <2>1. StatusOf(reply[r]) = "open"
    BY <1>3 DEF StatusOf, NoReply
  <2>2. MoneyOf(order[r]) = "untouched" /\ MoneyOf(order'[r]) = "ordered"
    BY <1>3, MoneyFacts
  <2>3. Contract!Order(r)
    BY <1>3, <2>1, <2>2 DEF Contract!Order, Contract!Bank, Same
  <2> QED
    BY <2>3 DEF Contract!Next
<1>4. CASE /\ reply'[r] = reply[r] /\ order[r] = "sent"
           /\ order'[r] \in {"executed", "refused", "dropped"}
  <2>1. /\ MoneyOf(order[r]) = "ordered"
        /\ MoneyOf(order'[r]) \in {"moved", "kept"}
    BY <1>4, MoneyFacts
  <2>2. Contract!Move(r) \/ Contract!Keep(r)
    BY <1>4, <2>1 DEF Contract!Move, Contract!Keep, Contract!Bank, Same
  <2> QED
    BY <2>2 DEF Contract!Next
<1> QED
  BY <1>1, <1>2, <1>3, <1>4

LEMMA CrashIsLose ==
  ASSUME IInv, Crash
  PROVE  Contract!Next
<1> DEFINE lost == {r \in Req : pc[r] \in InFlight}
<1>1. \A r \in lost : StatusOf(reply[r]) = "open" /\ StatusOf(reply'[r]) = "lost"
  <2> SUFFICES ASSUME NEW r \in lost
               PROVE  StatusOf(reply[r]) = "open" /\ StatusOf(reply'[r]) = "lost"
    OBVIOUS
  <2>1. reply[r] = NoReply
    BY DEF IInv, Local, Handled
  <2>2. reply'[r] = LostReply
    BY DEF Crash
  <2>3. NoReply.kind = "none" /\ LostReply.kind = "lost"
    BY DEF NoReply, LostReply
  <2> HIDE DEF lost
  <2> QED
    BY <2>1, <2>2, <2>3 DEF StatusOf
<1>2. \A r \in Req \ lost : reply'[r] = reply[r]
  BY DEF Crash
<1>3. UNCHANGED order
  BY DEF Crash
<1>4. lost \in SUBSET {r \in Req : [q \in Req |-> StatusOf(reply[q])][r] = "open"}
  BY <1>1
<1> HIDE DEF lost
<1>5. [r \in Req |-> StatusOf(reply[r])]'
        = [r \in Req |-> IF r \in lost THEN "lost"
                         ELSE [q \in Req |-> StatusOf(reply[q])][r]]
  BY <1>1, <1>2
<1>6. Contract!Lose
  BY <1>3, <1>4, <1>5 DEF Contract!Lose
<1> QED
  BY <1>6 DEF Contract!Next

\* What an action of request r does to its reply and its order.
LEMMA RequestMoves ==
  ASSUME IInv, NEW r \in Req,
         \/ Reject(r) \/ CreateTransaction(r) \/ MapperThrows(r)
         \/ TokenSettles(r) \/ InterbankInfoSettles(r) \/ TransferSettles(r)
         \/ BankExecutes(r) \/ BankRefuses(r) \/ OrderLost(r)
  PROVE  \/ reply'[r] = reply[r] /\ order'[r] = order[r]
         \/ /\ reply[r] = NoReply /\ pc'[r] = "answered"
            /\ reply'[r].kind # "lost" /\ order'[r] = order[r]
         \/ /\ reply[r] = NoReply /\ reply'[r] = reply[r]
            /\ order[r] = "none" /\ order'[r] = "sent"
         \/ /\ reply'[r] = reply[r] /\ order[r] = "sent"
            /\ order'[r] \in {"executed", "refused", "dropped"}
<1> DEFINE Answers == /\ pc'[r] = "answered" /\ order'[r] = order[r]
                      /\ reply'[r].kind # "lost"
<1>1. /\ pc \in [Req -> {"new", "answered"} \cup InFlight]
      /\ order \in [Req -> {"none", "sent", "executed", "refused", "dropped"}]
      /\ reply \in [Req -> Reply]
  BY DEF IInv, TypeOK
<1>2. pc[r] \in {"new"} \cup InFlight => reply[r] = NoReply
  BY DEF IInv, Local, Untouched, Handled
<1>3. ASSUME NEW a, Respond(r, a), UNCHANGED order, a.kind # "lost" PROVE Answers
  BY <1>1, <1>3 DEF Respond, Goto
<1>4. \A e : Failed(e).kind # "lost"
  BY DEF Failed
<1>5. \A d, c : Approved(d, c).kind # "lost"
  BY DEF Approved
<1> HIDE DEF Answers
<1>6. CASE Reject(r) \/ CreateTransaction(r) \/ MapperThrows(r)
  <2>1. CASE Reject(r)
    BY <1>2, <1>3, <1>4, <2>1 DEF Reject, Answers
  <2>2. CASE CreateTransaction(r)
    BY <2>2 DEF CreateTransaction
  <2>3. CASE MapperThrows(r)
    BY <1>2, <1>3, <1>4, <2>3 DEF MapperThrows, Answers
  <2> QED
    BY <1>6, <2>1, <2>2, <2>3
<1>7. CASE TokenSettles(r)
  <2>1. CASE AskInterbankInfo(r)
    <3>1. CASE CatchInterbankInfo(r, "TypeError")
      BY <1>2, <1>3, <1>4, <2>1, <3>1
      DEF AskInterbankInfo, CatchInterbankInfo, InFlight, Answers
    <3>2. CASE UNCHANGED <<published, reply>>
      BY <2>1, <3>2 DEF AskInterbankInfo
    <3> QED
      BY <2>1, <3>1, <3>2 DEF AskInterbankInfo
  <2>2. CASE OrderTransfer(r)
    <3>1. order[r] = "none"
      BY <2>2 DEF IInv, Local, Handled, OrderTransfer, InFlight
    <3> QED
      BY <1>1, <1>2, <2>2, <3>1 DEF OrderTransfer, InFlight
  <2>3. ASSUME NEW e \in Throwable, InterbankTokenFails(r, e) \/ TransferTokenFails(r, e)
        PROVE  reply[r] = NoReply /\ Answers
    BY <1>2, <1>3, <1>4, <2>3
    DEF InterbankTokenFails, TransferTokenFails, CatchInterbankInfo,
        CatchTransferExecute, InFlight
  <2> QED
    BY <1>7, <2>1, <2>2, <2>3 DEF TokenSettles, Answers
<1>8. CASE InterbankInfoSettles(r)
  <2>1. ASSUME NEW o, InterbankInfo(r, o)
        PROVE  reply'[r] = reply[r] /\ order'[r] = order[r]
    BY <2>1 DEF InterbankInfo
  <2>2. ASSUME NEW o, InterbankInfoFails(r, o)
        PROVE  reply[r] = NoReply /\ Answers
    BY <1>2, <1>3, <1>4, <2>2 DEF InterbankInfoFails, CatchInterbankInfo, InFlight
  <2> QED
    BY <1>8, <2>1, <2>2 DEF InterbankInfoSettles, Answers
<1>9. CASE TransferSettles(r)
  <2>1. ASSUME NEW o, TransferApproved(r, o) \/ TransferPresumed(r, o)
                        \/ TransferFails(r, o)
        PROVE  reply[r] = NoReply /\ Answers
    BY <1>2, <1>3, <1>4, <1>5, <2>1
    DEF TransferApproved, TransferPresumed, TransferFails, ReturnResult,
        CatchTransferExecute, InFlight
  <2> QED
    BY <1>9, <2>1 DEF TransferSettles, Answers
<1>10. CASE BankExecutes(r) \/ BankRefuses(r) \/ OrderLost(r)
  BY <1>1, <1>10 DEF BankExecutes, BankRefuses, OrderLost, BankSettles
<1> QED
  BY <1>6, <1>7, <1>8, <1>9, <1>10

LEMMA StepRefines == IInv /\ IInv' /\ [Next]_vars => [Contract!Next]_(Contract!vars)
<1> SUFFICES ASSUME IInv, IInv', [Next]_vars
             PROVE  [Contract!Next]_(Contract!vars)
  OBVIOUS
<1>1. ASSUME NEW r \in Req,
             \/ Reject(r) \/ CreateTransaction(r) \/ MapperThrows(r)
             \/ TokenSettles(r) \/ InterbankInfoSettles(r) \/ TransferSettles(r)
             \/ BankExecutes(r) \/ BankRefuses(r) \/ OrderLost(r)
      PROVE  [Contract!Next]_(Contract!vars)
  <2>1. Kept(r)
    BY <1>1, ReceiveStep, TokenStep, InterbankStep, TransferStep, BankStep DEF IInv
  <2>2. \A s \in Req \ {r} : Same(s)
    BY <2>1 DEF Kept
  <2> QED
    BY <1>1, <2>2, RequestMoves, RequestStep
<1>2. CASE UNCHANGED vars
  BY <1>2, Stutter DEF vars
<1> QED
  BY <1>1, <1>2, CrashIsLose DEF Next

LEMMA InitRefines == Init => Contract!Init
BY DEF Init, Contract!Init, StatusOf, MoneyOf, NoReply

\* Every behaviour of the service and the bank is one the contract allows.
THEOREM Refinement == Spec => ImplementsContract
<1>1. Spec => []IInv
  BY Invariance
<1> QED
  BY <1>1, InitRefines, StepRefines, PTL DEF Spec, ImplementsContract, Contract!Spec
=============================================================================
