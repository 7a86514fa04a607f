-------------------------- MODULE FundOutWithEvents --------------------------
(***************************************************************************)
(* FundOut and Producer together: what the broker gets to hear of a request, *)
(* and what the client does.  The controller hands an event to the producer  *)
(* and goes on without awaiting it; from there the publication is retried,    *)
(* rejected or lost on its own.                                            *)
(*                                                                         *)
(* <<r, n>> is the publication of the nth event of request r.               *)
(***************************************************************************)
EXTENDS FundOut

VARIABLES asked, args, task, sent, routed   \* of Producer; task is its pc

eventVars == <<asked, args, task, sent, routed>>

allVars == <<vars, eventVars>>

Publication == Req \X {1, 2}

\* The arguments of the controller's publications: the first event of a request
\* is of type REQUEST_TO_INTERBANK_INFO, the second of a RESPONSE_FROM type.
Arguments(p) ==
  [type |-> IF p[2] = 1 THEN "Request" ELSE "Response",
   delay |-> Undefined, retry |-> TRUE]

Events ==
  INSTANCE Producer WITH
    Asked <- {Arguments(p) : p \in Publication}, pc <- task

EventsInit ==
  /\ Init
  /\ Events!Init
  /\ asked = [p \in Publication |-> Arguments(p)]

\* The events a step of the service adds to published.
Added ==
  {p \in Publication : p[2] \in Len(published[p[1]]) + 1 .. Len(published'[p[1]])}

\* A turn of the event loop, or a step of the bank: what it publishes, the
\* producer starts to publish in the same turn.
ServiceStep(A) ==
  /\ A
  /\ IF Added = {} THEN UNCHANGED eventVars
     ELSE Events!PublishToTransactionProcessor(Added)

Received(r) == ServiceStep(Reject(r) \/ CreateTransaction(r) \/ MapperThrows(r))

\* As a bug: the handler awaits the publication of the request.
TokenComesAwaitingEvent(r) ==
  ServiceStep(TokenSettles(r) /\ task[<<r, 1>>] = "resolved")

TokenComes(r) == ServiceStep(TokenSettles(r))

InterbankInfoComes(r) == ServiceStep(InterbankInfoSettles(r))

TransferEnds(r) == ServiceStep(TransferSettles(r))

AtTheBank(r) == ServiceStep(BankExecutes(r) \/ BankRefuses(r) \/ OrderLost(r))

\* What becomes of a publication: nobody in the handler hears of it.  (The
\* rejection at its end is an unhandled one: a warning to the Node of the
\* Dockerfile.  A Node that ends the process on it is a case of ProcessDies.)
PublicationStep(p) ==
  /\ \/ Events!BrokerRoutes(p)
     \/ Events!PublishResolves(p) \/ Events!PublishRejects(p)
     \/ Events!Reconnected(p) \/ Events!ReconnectionFails(p)
  /\ UNCHANGED vars

\* The process dies with its requests and its publications.
ProcessDies ==
  /\ \/ Crash
     \/ (\A r \in Req : pc[r] \notin InFlight) /\ UNCHANGED vars
  /\ Events!Crash

EventsNext ==
  \/ \E r \in Req :
       \/ Received(r) \/ TokenComes(r) \/ InterbankInfoComes(r) \/ TransferEnds(r)
       \/ AtTheBank(r)
  \/ \E p \in Publication : PublicationStep(p)
  \/ ProcessDies

EventsSpec == EventsInit /\ [][EventsNext]_allVars

\* The fairness of FundOut and nothing of the broker: a publication may hang for
\* ever.
EventsFairness ==
  \A r \in Req :
    /\ WF_allVars(TokenComes(r))
    /\ WF_allVars(TimerOf(r) # "none" /\ InterbankInfoComes(r))
    /\ WF_allVars(TimerOf(r) # "none" /\ TransferEnds(r))

FairEventsSpec == EventsSpec /\ EventsFairness
----------------------------------------------------------------------------
\* Properties.

AtBroker(r, n) == routed[<<r, n>>] # {}

\* Nothing the broker holds contradicts the client: there is no event of a
\* request that was turned away, and a response at the broker, however late it
\* was routed, retried or outlived its process, tells what the client was told
\* (fund-out.controller.ts:53-99).
BrokerAgrees ==
  \A r \in Req :
    /\ AtBroker(r, 1) => Rejection(input[r]) = "none" /\ pc[r] # "new"
    /\ AtBroker(r, 2) => Len(published[r]) = 2 /\ Tells(published[r][2], r)

Unpublished == {"publishing", "reconnecting", "rejected", "lost"}

\* When a client has its answer, an event of the request is missing at the
\* broker only while its publication is under way or because it failed or died:
\* none is forgotten or taken for published that is not.  So the broker may hold
\* the response and not the request before it, which the controller does not
\* await (fund-out.controller.ts:59), but only until that publication resolves.
AuditComplete ==
  \A r \in Req :
    pc[r] = "answered" /\ Rejection(input[r]) = "none" /\ reply[r].kind # "lost"
      => \A n \in {1, 2} : AtBroker(r, n) \/ task[<<r, n>>] \in Unpublished

\* The client waits for no publication: FundOut with its fairness, whatever the
\* broker does.
ImplementsFundOut == FairSpec
=============================================================================
