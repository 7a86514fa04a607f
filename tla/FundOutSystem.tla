----------------------------- MODULE FundOutSystem -----------------------------
(***************************************************************************)
(* The endpoint with all it stands on: FundOutWithTokens and                *)
(* FundOutWithEvents share the handler, the bank and nothing else, so that    *)
(* the system is what both allow.  (When the process dies with no request in   *)
(* flight, either may see it alone, which is more than can happen.)           *)
(* What is shown here is what neither of them can say.                       *)
(***************************************************************************)
EXTENDS FundOutWithTokensProofs, FundOutRepeatedProofs

VARIABLES asked, args, task, sent, routed   \* of Producer

Publishing == INSTANCE FundOutWithEventsProofs

SystemSpec == TokensSpec /\ Publishing!EventsSpec

\* A client that makes another attempt at its payment when every one before it
\* is over: refused, answered in doubt, or never answered.
RepeatedSystemSpec == SystemSpec /\ [][ClientRepeats]_vars

----------------------------------------------------------------------------

\* Who reads of an approval at the broker, however late it got there and whether
\* or not the process still lives, knows of an order: it has left for the bank,
\* no call of get() failed on the way to it, and the token it went out with was
\* no older than the cache and one request make it
\* (fund-out.controller.ts:89-92, transfer-execute.service.ts:38-72).
ApprovalAtBroker ==
  \A r \in Req :
    /\ Publishing!AtBroker(r, 2)
    /\ published[r][2] = ResponseFromTransferExecute("none")
    => /\ Ordered(r)
       /\ \A c \in {ForInterbankInfo(r), ForTransfer(r)} : call[c] = "resolved"
       /\ Bearer(r) # NoToken => at[ForTransfer(r)] - Bearer(r) <= Ttl + RequestTimeout

\* The instance may assume of the constants what is assumed of them here: its
\* requests are these.
LEMMA Assumed == Publishing!AuthorizationAssumption /\ Publishing!InputsAssumption
<1>1. Request = Publishing!Request
  BY Zenon
  DEF Request, TimeoutHeader, Undefined, FundOutDto, Transaction, Amount,
      Metadata, Payer, PaymentMethodDetail, BankAccount, AccountId, Owner, Leaf,
      Publishing!Request, Publishing!TimeoutHeader, Publishing!Undefined,
      Publishing!FundOutDto, Publishing!Transaction, Publishing!Amount,
      Publishing!Metadata, Publishing!Payer, Publishing!PaymentMethodDetail,
      Publishing!BankAccount, Publishing!AccountId, Publishing!Owner,
      Publishing!Leaf
<1> QED
  BY <1>1, AuthorizationAssumption, InputsAssumption
  DEF Publishing!AuthorizationAssumption, Publishing!InputsAssumption

\* An approval is not written like an error.
LEMMA ApprovalIsNoError ==
  ASSUME NEW e \in Throwable
  PROVE  /\ ResponseFromTransferExecute("none") # ResponseFromTransferExecute(e)
         /\ ResponseFromTransferExecute("none") # ResponseFromInterbankInfo(e)
BY DEF ResponseFromTransferExecute, ResponseFromInterbankInfo, Throwable,
       HttpException

\* Only an approved reply goes with the event of an approval.
LEMMA ApprovalTellsReply ==
  ASSUME NEW r \in Req,
         Publishing!Tells(ResponseFromTransferExecute("none"), r)
  PROVE  reply[r].kind = "approved"
BY ApprovalIsNoError
DEF Publishing!Tells, Publishing!ResponseFromTransferExecute,
    Publishing!ResponseFromInterbankInfo, Publishing!Throwable,
    Publishing!HttpException, ResponseFromTransferExecute,
    ResponseFromInterbankInfo, Throwable, HttpException

\* An approved request was ordered, and got both its tokens before.
LEMMA ApprovedIsOrdered ==
  ASSUME LinkInv, NEW r \in Req, reply[r].kind = "approved"
  PROVE  /\ Ordered(r)
         /\ \A c \in {ForInterbankInfo(r), ForTransfer(r)} : call[c] = "resolved"
<1>1. Local(r) /\ Linked(r) /\ reply[r] \in Reply
  BY DEF LinkInv, IInv, TypeOK
<1>2. pc[r] = "answered"
  <2>1. NoReply.kind = "none"
    BY DEF NoReply
  <2>2. pc[r] \in {"new", "answered"} \cup InFlight
    BY DEF LinkInv, IInv, TypeOK
  <2> QED
    BY <1>1, <2>1, <2>2 DEF Local, Untouched, Handled
<1>3. Told(r, "TRANSACCION OK") \/ Told(r, "APPROVE_ERR_REQUEST_TRANSFER")
  <2>1. reply[r] # NoReply /\ reply[r] # LostReply
    BY DEF NoReply, LostReply
  <2>2. reply[r].detail \in {"TRANSACCION OK", "APPROVE_ERR_REQUEST_TRANSFER"}
    BY <1>1, <2>1 DEF Reply
  <2> QED
    BY <2>2 DEF Told
<1>4. order[r] # "none"
  BY <1>1, <1>2, <1>3 DEF Local, Replied
<1> QED
  BY <1>1, <1>2, <1>4 DEF Ordered, Linked

\* ApprovalAtBroker needs the broker's side from FundOutWithEvents and the
\* token's from FundOutWithTokens.
THEOREM ApprovalAtBrokerHolds == SystemSpec => []ApprovalAtBroker
<1>1. LinkInv /\ OrderTokenAge /\ Publishing!BrokerAgrees => ApprovalAtBroker
  <2> SUFFICES ASSUME LinkInv, OrderTokenAge, Publishing!BrokerAgrees,
                      NEW r \in Req, Publishing!AtBroker(r, 2),
                      published[r][2] = ResponseFromTransferExecute("none")
               PROVE  /\ Ordered(r)
                      /\ \A c \in {ForInterbankInfo(r), ForTransfer(r)} :
                           call[c] = "resolved"
                      /\ Bearer(r) # NoToken =>
                           at[ForTransfer(r)] - Bearer(r) <= Ttl + RequestTimeout
    BY DEF ApprovalAtBroker
  <2>1. Publishing!Tells(ResponseFromTransferExecute("none"), r)
    BY DEF Publishing!BrokerAgrees
  <2>2. reply[r].kind = "approved"
    BY <2>1, ApprovalTellsReply
  <2>3. Ordered(r)
    BY <2>2, ApprovedIsOrdered
  <2> QED
    BY <2>2, <2>3, ApprovedIsOrdered DEF OrderTokenAge, Ordered
<1>2. Publishing!EventsSpec => []Publishing!BrokerAgrees
  BY Assumed, Publishing!BrokerAgreesHolds, PTL
<1> QED
  BY <1>1, <1>2, LinkInvariance, OrderTokenAgeHolds, PTL DEF SystemSpec

\* All that is promised of the parts is kept by the whole: to the client, to the
\* services that want a token, and to whoever listens at the broker.
THEOREM ContractsHold ==
  SystemSpec =>
    /\ ImplementsContract
    /\ TokenProofs!ImplementsTokenContract
    /\ Publishing!EventProofs!ImplementsDelivery
<1>1. Publishing!EventsSpec => Publishing!EventProofs!ImplementsDelivery
  BY Assumed, Publishing!DeliveryHolds, PTL
<1> QED
  BY <1>1, ContractRefined, TokenContractHolds, PTL DEF SystemSpec

\* A client of the whole system that repeats its request is paid once, and at
\* most once more for each attempt it was left in doubt about, whatever the
\* cache, the publications and the process do in between.
THEOREM SystemPaymentHolds == RepeatedSystemSpec => ImplementsPayment
<1>1. [Next]_vars /\ [ClientRepeats]_vars => [Next /\ ClientRepeats]_vars
  OBVIOUS
<1> QED
  BY <1>1, FundOutRefined, PaymentRefined, PTL
  DEF RepeatedSystemSpec, SystemSpec, Spec, RepeatedSpec
=============================================================================
