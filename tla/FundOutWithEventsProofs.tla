----------------------- MODULE FundOutWithEventsProofs -----------------------
(***************************************************************************)
(* Proofs about FundOutWithEvents, for any requests and any inputs.          *)
(*                                                                         *)
(* The composition is both FundOut and Producer; what joins them is that the  *)
(* publications that have been started are those of the events published.     *)
(***************************************************************************)
EXTENDS FundOutWithEvents, FundOutProofs

Asking == {Arguments(p) : p \in Publication}

EventProofs == INSTANCE ProducerProofs WITH Asked <- Asking, pc <- task

\* The publications of a request are under way as far as its events go.
Started(r) ==
  /\ Len(published[r]) \in 0 .. 2
  /\ \A n \in {1, 2} : task[<<r, n>>] # "idle" <=> n <= Len(published[r])

----------------------------------------------------------------------------
\* The composition implements FundOut.

LEMMA StepIsFundOuts == [EventsNext]_allVars => [Next]_vars
<1> SUFFICES ASSUME EventsNext PROVE [Next]_vars
  BY DEF allVars
<1>1. ASSUME NEW r \in Req,
             \/ Received(r) \/ TokenComes(r) \/ InterbankInfoComes(r)
             \/ TransferEnds(r) \/ AtTheBank(r)
      PROVE  Next
  BY <1>1
  DEF Received, TokenComes, InterbankInfoComes, TransferEnds, AtTheBank,
      ServiceStep, Next
<1>2. ASSUME NEW p \in Publication, PublicationStep(p) PROVE UNCHANGED vars
  BY <1>2 DEF PublicationStep
<1>3. CASE ProcessDies
  BY <1>3 DEF ProcessDies, Next
<1> QED
  BY <1>1, <1>2, <1>3 DEF EventsNext

\* Events leave what the client sees as it was.
THEOREM FundOutRefined == EventsSpec => Spec
<1>1. EventsInit => Init
  BY DEF EventsInit
<1> QED
  BY <1>1, StepIsFundOuts, PTL DEF EventsSpec, Spec

LEMMA FundOutInvariance == EventsSpec => []IInv
BY FundOutRefined, Invariance, PTL

----------------------------------------------------------------------------
\* The composition implements Producer.

LEMMA StepIsEvents == [EventsNext]_allVars => [Events!Next]_eventVars
<1> SUFFICES ASSUME EventsNext PROVE [Events!Next]_eventVars
  BY DEF allVars
<1>1. Added \in SUBSET Publication
  BY DEF Added
<1>2. ASSUME NEW r \in Req,
             \/ Received(r) \/ TokenComes(r) \/ InterbankInfoComes(r)
             \/ TransferEnds(r) \/ AtTheBank(r)
      PROVE  [Events!Next]_eventVars
  BY <1>1, <1>2
  DEF Received, TokenComes, InterbankInfoComes, TransferEnds, AtTheBank,
      ServiceStep, Events!Next
<1>3. ASSUME NEW p \in Publication, PublicationStep(p) PROVE Events!Next
  BY <1>3 DEF PublicationStep, Events!Next
<1>4. CASE ProcessDies
  BY <1>4 DEF ProcessDies, Events!Next
<1> QED
  BY <1>2, <1>3, <1>4 DEF EventsNext

\* The same for the instance that ProducerProofs speaks of.
LEMMA AskingIsArgs == Asking \subseteq EventProofs!PublishArgs
<1> SUFFICES ASSUME NEW p \in Publication
             PROVE  Arguments(p) \in EventProofs!PublishArgs
  BY DEF Asking
<1>1. (IF p[2] = 1 THEN "Request" ELSE "Response") \in {"Request", "Response"}
  OBVIOUS
<1> QED
  BY <1>1
  DEF Arguments, EventProofs!PublishArgs, Undefined, EventProofs!Undefined

LEMMA SameCardinality ==
  ASSUME NEW S PROVE Events!Cardinality(S) = EventProofs!Cardinality(S)
BY Zenon DEF Events!Cardinality, EventProofs!Cardinality, Events!IsFiniteSet, EventProofs!IsFiniteSet

LEMMA SameCopy ==
  ASSUME NEW p, NEW a PROVE Events!NextCopy(p, a) = EventProofs!NextCopy(p, a)
BY SameCardinality
DEF Events!NextCopy, Events!BuildXdelay, Events!Undefined,
    EventProofs!NextCopy, EventProofs!BuildXdelay, EventProofs!Undefined

LEMMA StepIsProofs == [EventsNext]_allVars => [EventProofs!Next]_EventProofs!vars
<1> SUFFICES ASSUME [Events!Next]_eventVars
             PROVE  [EventProofs!Next]_EventProofs!vars
  BY StepIsEvents
<1>1. ASSUME NEW turn \in SUBSET Publication,
             Events!PublishToTransactionProcessor(turn)
      PROVE  EventProofs!Next
  <2>1. EventProofs!PublishToTransactionProcessor(turn)
    BY <1>1, SameCopy
    DEF Events!PublishToTransactionProcessor, Events!PublishMessage,
        EventProofs!PublishToTransactionProcessor, EventProofs!PublishMessage
  <2> QED
    BY <2>1 DEF EventProofs!Next
<1>2. ASSUME NEW p \in Publication, Events!Reconnected(p) PROVE EventProofs!Next
  <2>1. EventProofs!Reconnected(p)
    <3> DEFINE a == [args EXCEPT ![p].retry = FALSE, ![p].delay = Undefined]
    <3>1. task[p] = "reconnecting" /\ Events!PublishMessage({p}, a)
      BY <1>2 DEF Events!Reconnected, Events!Undefined, Undefined
    <3> HIDE DEF a
    <3>2. EventProofs!PublishMessage({p}, a)
      BY <3>1, SameCopy DEF Events!PublishMessage, EventProofs!PublishMessage
    <3> QED
      BY <3>1, <3>2 DEF EventProofs!Reconnected, EventProofs!Undefined, Undefined, a
  <2> QED
    BY <2>1 DEF EventProofs!Next
<1>3. ASSUME NEW p \in Publication,
             \/ Events!BrokerRoutes(p)
             \/ Events!PublishResolves(p) \/ Events!PublishRejects(p)
             \/ Events!ReconnectionFails(p)
      PROVE  EventProofs!Next
  <2>1. \/ EventProofs!BrokerRoutes(p)
        \/ EventProofs!PublishResolves(p) \/ EventProofs!PublishRejects(p)
        \/ EventProofs!ReconnectionFails(p)
    BY <1>3, SameCardinality
    DEF Events!BrokerRoutes, Events!PublishResolves, Events!PublishRejects,
        Events!ReconnectionFails, Events!Goto,
        EventProofs!BrokerRoutes, EventProofs!PublishResolves,
        EventProofs!PublishRejects, EventProofs!ReconnectionFails,
        EventProofs!Goto
  <2> QED
    BY <2>1 DEF EventProofs!Next
<1>4. CASE Events!Crash
  BY <1>4 DEF Events!Crash, Events!Pending, EventProofs!Crash, EventProofs!Pending,
              EventProofs!Next
<1>5. CASE UNCHANGED eventVars
  BY <1>5 DEF eventVars, EventProofs!vars
<1> QED
  BY <1>1, <1>2, <1>3, <1>4, <1>5 DEF Events!Next

LEMMA ProducerInvariance == EventsSpec => []EventProofs!IInv
<1>1. EventsInit => EventProofs!Init
  BY DEF EventsInit, Events!Init, EventProofs!Init, Asking
<1>2. EventsInit => EventProofs!IInv
  BY <1>1, EventProofs!InitIInv, AskingIsArgs
<1>3. EventProofs!IInv /\ [EventsNext]_allVars => EventProofs!IInv'
  BY StepIsProofs, EventProofs!NextIInv, AskingIsArgs
<1> QED
  BY <1>2, <1>3, PTL DEF EventsSpec

\* The events of the requests are delivered as EventDelivery says.
THEOREM DeliveryHolds == EventsSpec => EventProofs!ImplementsDelivery
<1>1. EventsInit => EventProofs!Delivery!Init
  <2>1. EventsInit => EventProofs!Init
    BY DEF EventsInit, Events!Init, EventProofs!Init, Asking
  <2> QED
    BY <2>1, EventProofs!InitIsDeliverys, AskingIsArgs
<1>2. EventProofs!IInv /\ [EventsNext]_allVars
        => [EventProofs!Delivery!Next]_(EventProofs!Delivery!vars)
  BY StepIsProofs, EventProofs!StepIsDeliverys, AskingIsArgs
<1> QED
  BY <1>1, <1>2, ProducerInvariance, PTL
  DEF EventsSpec, EventProofs!ImplementsDelivery, EventProofs!Delivery!Spec

----------------------------------------------------------------------------
\* Events are published, never withdrawn.

\* The length of the audit trail at each place of the handler.
LEMMA TrailLength ==
  ASSUME IInv, NEW r \in Req
  PROVE  /\ Len(published[r]) \in 0 .. 2
         /\ Len(published[r]) = 0 <=> published[r] = << >>
         /\ pc[r] = "new" => Len(published[r]) = 0
         /\ pc[r] \in InFlight => Len(published[r]) = 1
         /\ Rejection(input[r]) # "none" => Len(published[r]) = 0
         /\ Len(published[r]) = 2 <=>
              /\ pc[r] = "answered" /\ Rejection(input[r]) = "none"
              /\ reply[r].kind # "lost"
         /\ Len(published[r]) = 2 => Tells(published[r][2], r)
<1> DEFINE P(e) == <<RequestToInterbankInfo, e>>
<1>1. Local(r) /\ pc[r] \in {"new", "answered"} \cup InFlight
  BY DEF IInv, TypeOK
<1>2. /\ Len(<< >>) = 0 /\ Len(<<RequestToInterbankInfo>>) = 1
      /\ \A e : Len(P(e)) = 2 /\ P(e)[2] = e
  OBVIOUS
<1>3. Untouched(r) /\ Handled(r) /\ Replied(r) /\ Audited(r)
  BY <1>1 DEF Local
<1>4. NoReply.kind = "none"
  BY DEF NoReply
<1>5. ASSUME NEW e, Tells(e, r) PROVE reply[r].kind \in {"approved", "failed"}
  BY <1>5, FailedType DEF Tells
<1>6. CASE (pc[r] = "new" \/ Rejection(input[r]) # "none") /\ published[r] = << >>
  <2>1. Len(published[r]) = 0
    BY <1>2, <1>6, Zenon
  <2>2. /\ pc[r] \notin InFlight
        /\ pc[r] = "answered" => Rejection(input[r]) # "none"
    BY <1>3, <1>6 DEF Handled, InFlight
  <2> QED
    BY <1>6, <2>1, <2>2
<1>7. CASE /\ pc[r] \in InFlight \/ reply[r].kind = "lost"
           /\ published[r] = <<RequestToInterbankInfo>>
  <2>1. Len(published[r]) = 1 /\ published[r] # << >>
    BY <1>2, <1>7
  <2>2. CASE pc[r] \in InFlight
    BY <1>3, <2>1, <2>2 DEF Handled, InFlight
  <2>3. CASE pc[r] \notin InFlight
    <3>1. pc[r] = "answered" /\ reply[r].kind = "lost"
      BY <1>1, <1>3, <1>4, <1>7, <2>3 DEF Untouched
    <3>2. Rejection(input[r]) = "none" /\ pc[r] # "new"
      BY <1>3, <3>1 DEF Replied
    <3> QED
      BY <2>1, <2>3, <3>1, <3>2
  <2> QED
    BY <2>2, <2>3
<1>8. CASE /\ pc[r] = "answered" /\ Rejection(input[r]) = "none"
           /\ \E event \in Event : Tells(event, r) /\ published[r] = P(event)
  BY <1>2, <1>5, <1>8 DEF InFlight
<1> QED
  BY <1>3, <1>6, <1>7, <1>8 DEF Audited

\* A step publishes or leaves the trail alone; no trail gets shorter.
LEMMA PublishGrows ==
  ASSUME TypeOK, NEW r \in Req, NEW s \in Req, NEW events \in Seq(Event),
         Publish(r, events)
  PROVE  Len(published[s]) <= Len(published'[s])
<1>1. published[r] \in Seq(Event) /\ published[s] \in Seq(Event)
  BY DEF TypeOK
<1>2. Len(published[r] \o events) = Len(published[r]) + Len(events)
  BY <1>1, ConcatProperties
<1>3. Len(events) \in Nat /\ Len(published[r]) \in Nat /\ Len(published[s]) \in Nat
  BY <1>1, LenProperties
<1>4. published'[s] = IF s = r THEN published[r] \o events ELSE published[s]
  BY DEF Publish, TypeOK
<1>5. CASE s = r
  BY <1>2, <1>3, <1>4, <1>5
<1>6. CASE s # r
  BY <1>3, <1>4, <1>6
<1> QED
  BY <1>5, <1>6

LEMMA EventsTyped ==
  /\ <<RequestToInterbankInfo>> \in Seq(Event)
  /\ <<RequestToInterbankInfo, ResponseFromInterbankInfo("TypeError")>> \in Seq(Event)
  /\ \A e \in Throwable : <<ResponseFromInterbankInfo(e)>> \in Seq(Event)
  /\ \A e \in Throwable \cup {"none"} :
       <<ResponseFromTransferExecute(e)>> \in Seq(Event)
<1>1. "TypeError" \in Throwable
  BY DEF Throwable
<1> QED
  BY <1>1, EventType

LEMMA TrailGrows ==
  ASSUME TypeOK, [Next]_vars, NEW s \in Req
  PROVE  Len(published[s]) <= Len(published'[s])
<1>1. CASE UNCHANGED published
  <2>1. Len(published[s]) \in Nat
    BY LenProperties DEF TypeOK
  <2> QED
    BY <1>1, <2>1
<1>2. ASSUME NEW r \in Req, CreateTransaction(r) \/ MapperThrows(r)
      PROVE  Len(published[s]) <= Len(published'[s])
  BY <1>2, PublishGrows, EventsTyped DEF CreateTransaction, MapperThrows
<1>3. ASSUME NEW r \in Req, TokenSettles(r)
      PROVE  Len(published[s]) <= Len(published'[s])
  <2>1. CASE AskInterbankInfo(r)
    <3>1. "TypeError" \in Throwable
      BY DEF Throwable
    <3> QED
      BY <1>1, <2>1, <3>1, PublishGrows, EventsTyped
      DEF AskInterbankInfo, CatchInterbankInfo
  <2>2. CASE OrderTransfer(r)
    BY <1>1, <2>2 DEF OrderTransfer
  <2>3. ASSUME NEW e \in Throwable, InterbankTokenFails(r, e) \/ TransferTokenFails(r, e)
        PROVE  Len(published[s]) <= Len(published'[s])
    BY <2>3, PublishGrows, EventsTyped
    DEF InterbankTokenFails, TransferTokenFails, CatchInterbankInfo,
        CatchTransferExecute
  <2> QED
    BY <1>3, <2>1, <2>2, <2>3 DEF TokenSettles
<1>4. ASSUME NEW r \in Req, InterbankInfoSettles(r)
      PROVE  Len(published[s]) <= Len(published'[s])
  <2>1. PICK o : InterbankInfo(r, o) \/ InterbankInfoFails(r, o)
    BY <1>4 DEF InterbankInfoSettles
  <2>2. CASE InterbankInfo(r, o)
    BY <1>1, <2>2 DEF InterbankInfo
  <2>3. CASE InterbankInfoFails(r, o)
    <3>1. Thrown(o) \in Throwable
      BY <2>3, ThrownType DEF InterbankInfoFails, Throwable
    <3> QED
      BY <2>3, <3>1, PublishGrows, EventsTyped DEF InterbankInfoFails, CatchInterbankInfo
  <2> QED
    BY <2>1, <2>2, <2>3
<1>5. ASSUME NEW r \in Req, TransferSettles(r)
      PROVE  Len(published[s]) <= Len(published'[s])
  <2>1. PICK o : TransferApproved(r, o) \/ TransferPresumed(r, o) \/ TransferFails(r, o)
    BY <1>5 DEF TransferSettles
  <2>2. CASE TransferApproved(r, o) \/ TransferPresumed(r, o)
    BY <2>2, PublishGrows, EventsTyped
    DEF TransferApproved, TransferPresumed, ReturnResult
  <2>3. CASE TransferFails(r, o)
    <3>1. TransferError(o) \in Throwable
      BY <2>3, TransferErrorType DEF TransferFails
    <3> QED
      BY <2>3, <3>1, PublishGrows, EventsTyped DEF TransferFails, CatchTransferExecute
  <2> QED
    BY <2>1, <2>2, <2>3
<1>6. ASSUME NEW r \in Req, Reject(r)
      PROVE  Len(published[s]) <= Len(published'[s])
  BY <1>1, <1>6 DEF Reject
<1>7. ASSUME NEW r \in Req, BankExecutes(r) \/ BankRefuses(r) \/ OrderLost(r)
      PROVE  Len(published[s]) <= Len(published'[s])
  BY <1>1, <1>7 DEF BankExecutes, BankRefuses, OrderLost, BankSettles
<1>8. CASE Crash \/ UNCHANGED vars
  BY <1>1, <1>8 DEF Crash, vars
<1> QED
  BY <1>2, <1>3, <1>4, <1>5, <1>6, <1>7, <1>8 DEF Next

----------------------------------------------------------------------------
\* The publications started are those of the events published.

LEMMA AddedOf ==
  ASSUME NEW r \in Req, NEW n \in {1, 2}
  PROVE  <<r, n>> \in Added <=>
           n \in Len(published[r]) + 1 .. Len(published'[r])
BY DEF Added, Publication

LEMMA TrailBound == IInv => \A r \in Req : Len(published[r]) \in 0 .. 2
BY TrailLength

LEMMA TrailBoundNext == IInv' => (\A r \in Req : Len(published[r]) \in 0 .. 2)'
BY TrailBound, PTL

LEMMA StartedStep ==
  ASSUME IInv, IInv', [Next]_vars, NEW r \in Req, Started(r),
         \A n \in {1, 2} :
           task'[<<r, n>>] # "idle" <=> task[<<r, n>>] # "idle" \/ <<r, n>> \in Added
  PROVE  Started(r)'
<1>1. Len(published[r]) \in 0 .. 2 /\ Len(published'[r]) \in 0 .. 2
  BY TrailBound, TrailBoundNext
<1>2. Len(published[r]) <= Len(published'[r])
  BY TrailGrows DEF IInv
<1>3. ASSUME NEW n \in {1, 2}
      PROVE  task'[<<r, n>>] # "idle" <=> n <= Len(published'[r])
  BY <1>1, <1>2, AddedOf DEF Started
<1> QED
  BY <1>1, <1>3 DEF Started

LEMMA NextStarted ==
  ASSUME IInv, IInv', EventProofs!TypeOK, \A r \in Req : Started(r),
         [EventsNext]_allVars
  PROVE  \A r \in Req : Started(r)'
<1>1. [Next]_vars
  BY StepIsFundOuts
<1>2. task \in [Publication -> {"idle", "resolved", "rejected", "lost"}
                                 \cup {"publishing", "reconnecting"}]
  BY DEF EventProofs!TypeOK, EventProofs!Pending
<1>3. \A r \in Req, n \in {1, 2} : <<r, n>> \in Publication
  BY DEF Publication
<1>4. ASSUME UNCHANGED published PROVE Added = {}
  <2>1. \A p \in Publication : p[1] \in Req /\ Len(published[p[1]]) \in 0 .. 2
    BY TrailLength DEF Publication
  <2> QED
    BY <1>4, <2>1 DEF Added
<1>5. ASSUME NEW q \in Req,
             \/ Received(q) \/ TokenComes(q) \/ InterbankInfoComes(q)
             \/ TransferEnds(q) \/ AtTheBank(q)
      PROVE  \A r \in Req : Started(r)'
  <2>1. IF Added = {} THEN UNCHANGED eventVars
        ELSE Events!PublishToTransactionProcessor(Added)
    BY <1>5
    DEF Received, TokenComes, InterbankInfoComes, TransferEnds, AtTheBank, ServiceStep
  <2>2. \A p \in Publication :
          task'[p] = IF p \in Added THEN "publishing" ELSE task[p]
    BY <2>1
    DEF Events!PublishToTransactionProcessor, Events!PublishMessage, eventVars
  <2> QED
    BY <1>1, <1>3, <2>2, StartedStep
<1>6. ASSUME NEW p \in Publication, PublicationStep(p)
      PROVE  \A r \in Req : Started(r)'
  <2>1. \A q \in Publication : task'[q] # "idle" <=> task[q] # "idle"
    BY <1>2, <1>6
    DEF PublicationStep, Events!BrokerRoutes, Events!PublishResolves,
        Events!PublishRejects, Events!Reconnected, Events!ReconnectionFails,
        Events!PublishMessage, Events!Goto
  <2>2. Added = {}
    BY <1>4, <1>6 DEF PublicationStep, vars
  <2> QED
    BY <1>1, <1>3, <2>1, <2>2, StartedStep
<1>7. CASE ProcessDies
  <2>1. \A q \in Publication : task'[q] # "idle" <=> task[q] # "idle"
    BY <1>7 DEF ProcessDies, Events!Crash, Events!Pending
  <2>2. Added = {}
    BY <1>4, <1>7 DEF ProcessDies, Crash, vars
  <2> QED
    BY <1>1, <1>3, <2>1, <2>2, StartedStep
<1>8. CASE UNCHANGED allVars
  <2>1. UNCHANGED <<published, task>>
    BY <1>8 DEF allVars, vars, eventVars
  <2> QED
    BY <2>1 DEF Started
<1> QED
  BY <1>5, <1>6, <1>7, <1>8 DEF EventsNext

JointInv == IInv /\ EventProofs!IInv /\ \A r \in Req : Started(r)

THEOREM JointInvariance == EventsSpec => []JointInv
<1>1. EventsInit => \A r \in Req : Started(r)
  <2> SUFFICES ASSUME EventsInit, NEW r \in Req PROVE Started(r)
    OBVIOUS
  <2>1. published[r] = << >> /\ \A n \in {1, 2} : task[<<r, n>>] = "idle"
    BY DEF EventsInit, Init, Events!Init, Publication
  <2> QED
    BY <2>1 DEF Started
<1>2. /\ IInv /\ IInv' /\ EventProofs!IInv /\ (\A r \in Req : Started(r))
      /\ [EventsNext]_allVars
      => (\A r \in Req : Started(r))'
  BY NextStarted DEF EventProofs!IInv
<1> QED
  BY <1>1, <1>2, FundOutInvariance, ProducerInvariance, PTL DEF EventsSpec, JointInv

\* What the broker holds was published, and what resolved is at the broker.
LEMMA BrokerFacts ==
  ASSUME JointInv, NEW r \in Req, NEW n \in {1, 2}
  PROVE  /\ AtBroker(r, n) => n <= Len(published[r])
         /\ n <= Len(published[r]) =>
              AtBroker(r, n) \/ task[<<r, n>>] \in Unpublished
<1> DEFINE p == <<r, n>>
<1>1. p \in Publication
  BY DEF Publication
<1>2. EventProofs!Progress(p) /\ (task[p] # "idle" <=> n <= Len(published[r]))
  BY <1>1 DEF JointInv, EventProofs!IInv, Started
<1>3. task[p] \in {"idle", "resolved"} \cup Unpublished
  BY <1>1
  DEF JointInv, EventProofs!IInv, EventProofs!TypeOK, EventProofs!Pending, Unpublished
<1> QED
  BY <1>2, <1>3 DEF EventProofs!Progress, AtBroker

\* The broker never contradicts the client, whatever is retried, lost or late.
THEOREM BrokerAgreesHolds == EventsSpec => []BrokerAgrees
<1>1. JointInv => BrokerAgrees
  <2> SUFFICES ASSUME JointInv, NEW r \in Req
               PROVE  /\ AtBroker(r, 1) => Rejection(input[r]) = "none" /\ pc[r] # "new"
                      /\ AtBroker(r, 2) =>
                           Len(published[r]) = 2 /\ Tells(published[r][2], r)
    BY DEF BrokerAgrees
  <2>1. IInv /\ Len(published[r]) \in 0 .. 2
    BY TrailLength DEF JointInv
  <2>2. /\ AtBroker(r, 1) => 1 <= Len(published[r])
        /\ AtBroker(r, 2) => 2 <= Len(published[r])
    BY BrokerFacts
  <2>3. AtBroker(r, 1) => Len(published[r]) # 0
    BY <2>1, <2>2
  <2>4. ASSUME AtBroker(r, 2) PROVE Len(published[r]) = 2
    <3>1. 2 <= Len(published[r]) /\ Len(published[r]) \in 0 .. 2
      BY <2>1, <2>2, <2>4
    <3>2. \A k \in 0 .. 2 : 2 <= k => k = 2
      OBVIOUS
    <3> QED
      BY <3>1, <3>2, Zenon
  <2> QED
    BY <2>1, <2>3, <2>4, TrailLength
<1> QED
  BY <1>1, JointInvariance, PTL

\* No event of an answered request is missing but by a publication that shows it.
THEOREM AuditCompleteHolds == EventsSpec => []AuditComplete
<1>1. JointInv => AuditComplete
  <2> SUFFICES ASSUME JointInv, NEW r \in Req, NEW n \in {1, 2},
                      pc[r] = "answered", Rejection(input[r]) = "none",
                      reply[r].kind # "lost"
               PROVE  AtBroker(r, n) \/ task[<<r, n>>] \in Unpublished
    BY DEF AuditComplete
  <2>1. Len(published[r]) = 2
    BY TrailLength DEF JointInv
  <2>2. n <= Len(published[r])
    BY <2>1
  <2> QED
    BY <2>2, BrokerFacts
<1> QED
  BY <1>1, JointInvariance, PTL
=============================================================================
