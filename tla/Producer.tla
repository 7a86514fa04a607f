------------------------------ MODULE Producer ------------------------------
(***************************************************************************)
(* ProducerService: what becomes of the events the controller publishes     *)
(* without awaiting them.  Each publication is a task of its own: one try,   *)
(* and if it was asked with retry, a forced reconnection and one more try.   *)
(*                                                                         *)
(* rabbitPublishEvent and rabbitConnection are library code the repository   *)
(* does not hold: a try sends a copy that the broker may route at any later   *)
(* time or never, resolves only once its copy is routed, and may reject       *)
(* either way.                                                              *)
(***************************************************************************)
EXTENDS HttpProxy, FiniteSets

CONSTANTS
  Publication,  \* calls of publishToTransactionProcessor
  Asked         \* the arguments they may have

\* type as isRequest reads it; delay is given or not; retry.
PublishArgs ==
  [type : {"Request", "Response"}, delay : {Undefined, "given"}, retry : BOOLEAN]

ASSUME AskedAssumption == Asked \subseteq PublishArgs

VARIABLES
  asked,    \* the arguments of each publication
  args,     \* the arguments of publishMessage, as the running try has them
  pc,       \* where the publication is
  sent,     \* copies handed to the network, as [try, delay]
  routed    \* those the broker took

vars == <<asked, args, pc, sent, routed>>

Pending == {"publishing", "reconnecting"}

\* As a bug: the delay given is sent as it is.
GivenXdelay(a) ==
  IF a.delay # Undefined THEN a.delay
  ELSE IF a.type = "Request" THEN "delayTimeReq" ELSE "delayTimeRes"

\* The header 'x-delay'.
BuildXdelay(a) ==
  IF a.delay # Undefined \/ a.type = "Request"
    THEN "delayTimeReq" ELSE "delayTimeRes"

Copy == [try : Nat, delay : {"delayTimeReq", "delayTimeRes"}]

\* The next copy of p, under arguments a.
NextCopy(p, a) == [try |-> Cardinality(sent[p]) + 1, delay |-> BuildXdelay(a)]

Init ==
  /\ asked \in [Publication -> Asked]
  /\ args = asked
  /\ pc = [p \in Publication |-> "idle"]
  /\ sent = [p \in Publication |-> {}]
  /\ routed = [p \in Publication |-> {}]

Goto(p, label) == pc' = [pc EXCEPT ![p] = label]

\* publishMessage up to the await of rabbitPublishEvent, for the publications of
\* one turn of the event loop; a holds their arguments.
PublishMessage(turn, a) ==
  /\ pc' = [p \in Publication |-> IF p \in turn THEN "publishing" ELSE pc[p]]
  /\ args' = [p \in Publication |-> IF p \in turn THEN a[p] ELSE args[p]]
  /\ sent' = [p \in Publication |->
                IF p \in turn THEN sent[p] \cup {NextCopy(p, a[p])} ELSE sent[p]]
  /\ UNCHANGED <<asked, routed>>

\* The controller publishes once in a turn, or twice when the mapper throws into
\* its catch block.
PublishToTransactionProcessor(turn) ==
  /\ turn # {}
  /\ \A p \in turn : pc[p] = "idle"
  /\ PublishMessage(turn, asked)

\* The broker takes a copy, whether or not the process still waits for it.
BrokerRoutes(p) ==
  /\ \E copy \in sent[p] \ routed[p] :
       routed' = [routed EXCEPT ![p] = @ \cup {copy}]
  /\ UNCHANGED <<asked, args, pc, sent>>

\* rabbitPublishEvent resolves: the copy of the running try is routed.
PublishResolves(p) ==
  /\ pc[p] = "publishing"
  /\ \E copy \in routed[p] : copy.try = Cardinality(sent[p])
  /\ Goto(p, "resolved")
  /\ UNCHANGED <<asked, args, sent, routed>>

\* As a bug: without retry the error is logged and not thrown on.
PublishErrorSwallowed(p) ==
  /\ pc[p] = "publishing"
  /\ Goto(p, IF args[p].retry THEN "reconnecting" ELSE "resolved")
  /\ UNCHANGED <<asked, args, sent, routed>>

\* It rejects: with retry, reconnect; else the error is thrown on.
PublishRejects(p) ==
  /\ pc[p] = "publishing"
  /\ Goto(p, IF args[p].retry THEN "reconnecting" ELSE "rejected")
  /\ UNCHANGED <<asked, args, sent, routed>>

\* As a bug: the second try asks for a retry too.
ReconnectedRetrying(p) ==
  /\ pc[p] = "reconnecting"
  /\ PublishMessage({p}, [args EXCEPT ![p].delay = Undefined])

\* As a bug: the second try forgets the type of the event, so that isRequest
\* takes it for a response.
ReconnectedUntyped(p) ==
  /\ pc[p] = "reconnecting"
  /\ PublishMessage({p}, [args EXCEPT ![p].retry = FALSE, ![p].delay = Undefined,
                                     ![p].type = "Response"])

\* getConnection resolves: publishMessage again with what is left of the
\* arguments, the message and retry: false.
Reconnected(p) ==
  /\ pc[p] = "reconnecting"
  /\ PublishMessage({p}, [args EXCEPT ![p].retry = FALSE, ![p].delay = Undefined])

ReconnectionFails(p) ==
  /\ pc[p] = "reconnecting"
  /\ Goto(p, "rejected")
  /\ UNCHANGED <<asked, args, sent, routed>>

\* The process dies; what it has sent may still be routed.
Crash ==
  /\ pc' = [p \in Publication |-> IF pc[p] \in Pending THEN "lost" ELSE pc[p]]
  /\ UNCHANGED <<asked, args, sent, routed>>

Next ==
  \/ \E turn \in SUBSET Publication : PublishToTransactionProcessor(turn)
  \/ \E p \in Publication :
       \/ BrokerRoutes(p)
       \/ PublishResolves(p) \/ PublishRejects(p)
       \/ Reconnected(p) \/ ReconnectionFails(p)
  \/ Crash

Spec == Init /\ [][Next]_vars
----------------------------------------------------------------------------
\* Properties.

\* Type invariant.
TypeOK ==
  /\ asked \in [Publication -> Asked]
  /\ args \in [Publication -> PublishArgs]
  /\ pc \in [Publication -> {"idle", "resolved", "rejected", "lost"} \cup Pending]
  /\ sent \in [Publication -> SUBSET Copy]
  /\ routed \in [Publication -> SUBSET Copy]

\* A publication that resolves has reached the broker at least once.
ResolvedIsRouted ==
  \A p \in Publication : pc[p] = "resolved" => routed[p] # {}

\* A retry may repeat what the broker already has, but an event never reaches it
\* more than twice, and only once when no retry was asked for.
AtMostTwice ==
  \A p \in Publication :
    Cardinality(routed[p]) <= IF asked[p].retry THEN 2 ELSE 1

\* The copies of an event published without a delay, as the controller
\* publishes all of them, carry the same x-delay, retried or not.
SameDelay ==
  \A p \in Publication :
    asked[p].delay = Undefined
      => \A c, d \in routed[p] : c.delay = d.delay

\* Where a publication is, in the words of EventDelivery.
OutcomeOf(label) == IF label \in Pending THEN "open" ELSE label

Delivery ==
  INSTANCE EventDelivery WITH
    limit <- [p \in Publication |-> IF asked[p].retry THEN 2 ELSE 1],
    outcome <- [p \in Publication |-> OutcomeOf(pc[p])],
    transit <- [p \in Publication |-> Cardinality(sent[p] \ routed[p])],
    delivered <- [p \in Publication |-> Cardinality(routed[p])]

\* A publication ends once and for good.  A copy of its event leaves only while
\* the call is open; what has left may arrive after the call has failed or the
\* process has died, so that "rejected" is not "not delivered", but there are never
\* more copies than tries allowed (producer.service.ts:34-89).
ImplementsDelivery == Delivery!Spec
=============================================================================
