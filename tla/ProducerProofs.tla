---------------------------- MODULE ProducerProofs ----------------------------
(***************************************************************************)
(* Proofs about Producer, for any publications with any arguments.          *)
(*                                                                         *)
(* The inductive invariant IInv says which copies of a publication exist at   *)
(* each place of it: never any but the first and, once it was retried, the    *)
(* second.                                                                 *)
(***************************************************************************)
EXTENDS Producer, FiniteSetTheorems, TLAPS

\* The arguments of the second try.
Again(p) == [type |-> asked[p].type, delay |-> Undefined, retry |-> FALSE]

First(p) == [try |-> 1, delay |-> BuildXdelay(asked[p])]

Second(p) == [try |-> 2, delay |-> BuildXdelay(Again(p))]

\* After one try, and after two.
Once(p) == sent[p] = {First(p)} /\ args[p] = asked[p]

Twice(p) ==
  sent[p] = {First(p), Second(p)} /\ args[p] = Again(p) /\ asked[p].retry

\* How far a publication has come at each place.
Progress(p) ==
  /\ pc[p] = "idle" => sent[p] = {} /\ args[p] = asked[p]
  /\ pc[p] = "reconnecting" => Once(p) /\ asked[p].retry
  /\ pc[p] # "idle" => Once(p) \/ Twice(p)
  /\ pc[p] = "resolved" => routed[p] # {}
  /\ routed[p] \subseteq sent[p]

IInv == TypeOK /\ \A p \in Publication : Progress(p)

----------------------------------------------------------------------------

LEMMA AskedIsArgs == TypeOK => \A p \in Publication : asked[p] \in PublishArgs
BY AskedAssumption DEF TypeOK

\* One copy, and two of different tries.
LEMMA CopiesCounted ==
  ASSUME NEW p \in Publication
  PROVE  /\ Cardinality({}) = 0
         /\ Cardinality({First(p)}) = 1
         /\ Cardinality({First(p), Second(p)}) = 2
         /\ IsFiniteSet({First(p), Second(p)})
<1>1. First(p) # Second(p)
  BY DEF First, Second
<1>2. Cardinality({First(p)}) = 1 /\ IsFiniteSet({First(p)})
  BY FS_Singleton
<1>3. {First(p), Second(p)} = {First(p)} \cup {Second(p)}
  OBVIOUS
<1>4. /\ IsFiniteSet({First(p)} \cup {Second(p)})
      /\ Cardinality({First(p)} \cup {Second(p)}) = 1 + 1
  BY <1>1, <1>2, FS_AddElement
<1> QED
  BY <1>2, <1>3, <1>4, FS_EmptySet

LEMMA CopiesTyped ==
  ASSUME TypeOK, NEW p \in Publication
  PROVE  First(p) \in Copy /\ Second(p) \in Copy
BY DEF First, Second, Copy, BuildXdelay

LEMMA InitIInv == Init => IInv
<1> SUFFICES ASSUME Init PROVE IInv
  OBVIOUS
<1>1. TypeOK
  BY AskedAssumption DEF Init, TypeOK
<1>2. ASSUME NEW p \in Publication PROVE Progress(p)
  BY DEF Init, Progress, Once, Twice
<1> QED
  BY <1>1, <1>2 DEF IInv

\* What a step does not touch of a publication.
Same(p) ==
  /\ asked'[p] = asked[p] /\ args'[p] = args[p] /\ pc'[p] = pc[p]
  /\ sent'[p] = sent[p] /\ routed'[p] = routed[p]

LEMMA Frame ==
  ASSUME NEW p \in Publication, Progress(p), Same(p)
  PROVE  Progress(p)'
BY DEF Progress, Same, Once, Twice, First, Second, Again

\* The first tries of a turn.
LEMMA PublishStep ==
  ASSUME IInv, NEW turn \in SUBSET Publication, PublishToTransactionProcessor(turn)
  PROVE  IInv'
<1>1. ASSUME NEW p \in turn
      PROVE  sent[p] = {} /\ args[p] = asked[p] /\ NextCopy(p, asked[p]) = First(p)
  <2>1. sent[p] = {} /\ args[p] = asked[p]
    BY DEF PublishToTransactionProcessor, IInv, Progress
  <2>2. Cardinality(sent[p]) = 0
    BY <2>1, CopiesCounted, Zenon
  <2> QED
    BY <2>1, <2>2 DEF NextCopy, First
<1>2. sent' = [p \in Publication |-> IF p \in turn THEN {First(p)} ELSE sent[p]]
  BY <1>1 DEF PublishToTransactionProcessor, PublishMessage
<1>3. /\ pc' = [p \in Publication |-> IF p \in turn THEN "publishing" ELSE pc[p]]
      /\ args' = [p \in Publication |-> IF p \in turn THEN asked[p] ELSE args[p]]
      /\ UNCHANGED <<asked, routed>>
  BY DEF PublishToTransactionProcessor, PublishMessage
<1>4. TypeOK'
  BY <1>2, <1>3, CopiesTyped, AskedIsArgs DEF IInv, TypeOK, Pending
<1>5. ASSUME NEW p \in Publication PROVE Progress(p)'
  <2>1. CASE p \in turn
    <3>1. /\ pc'[p] = "publishing" /\ args'[p] = asked[p] /\ asked' = asked
          /\ sent'[p] = {First(p)} /\ routed'[p] = routed[p]
      BY <1>2, <1>3, <2>1
    <3>2. routed[p] = {}
      BY <1>1, <2>1 DEF IInv, Progress
    <3> QED
      BY <3>1, <3>2 DEF Progress, Once, First
  <2>2. CASE p \notin turn
    BY <1>2, <1>3, <2>2, Frame DEF IInv, Same
  <2> QED
    BY <2>1, <2>2
<1> QED
  BY <1>4, <1>5 DEF IInv

\* The second try.
LEMMA ReconnectedStep ==
  ASSUME IInv, NEW p \in Publication, Reconnected(p)
  PROVE  IInv'
<1>1. Once(p) /\ asked[p].retry /\ asked[p] \in PublishArgs
  BY AskedIsArgs DEF IInv, Progress, Reconnected
<1> DEFINE a == [args EXCEPT ![p].retry = FALSE, ![p].delay = Undefined]
<1>2. a[p] = Again(p) /\ Again(p) \in PublishArgs
  BY <1>1 DEF IInv, TypeOK, Once, Again, PublishArgs
<1>3. NextCopy(p, a[p]) = Second(p)
  <2>1. Cardinality(sent[p]) = 1
    BY <1>1, CopiesCounted, Zenon DEF Once
  <2> QED
    BY <1>2, <2>1 DEF NextCopy, Second
<1> HIDE DEF a
<1>4. /\ sent' = [sent EXCEPT ![p] = {First(p), Second(p)}]
      /\ pc' = [pc EXCEPT ![p] = "publishing"]
      /\ args' = [args EXCEPT ![p] = Again(p)]
      /\ UNCHANGED <<asked, routed>>
  <2>1. PublishMessage({p}, a)
    BY DEF Reconnected, a
  <2>2. sent[p] \cup {Second(p)} = {First(p), Second(p)}
    BY <1>1 DEF Once
  <2> QED
    BY <1>2, <1>3, <2>1, <2>2 DEF PublishMessage, IInv, TypeOK
<1>5. TypeOK'
  BY <1>2, <1>4, CopiesTyped DEF IInv, TypeOK, Pending
<1>6. Progress(p)'
  BY <1>1, <1>4
  DEF IInv, TypeOK, Progress, Once, Twice, First, Second, Again
<1>7. \A q \in Publication \ {p} : Same(q)
  BY <1>4 DEF IInv, TypeOK, Same
<1> QED
  BY <1>5, <1>6, <1>7, Frame DEF IInv

\* The other steps of one publication, and of the broker.
LEMMA PublicationStep ==
  ASSUME IInv, NEW p \in Publication,
         \/ BrokerRoutes(p) \/ PublishResolves(p) \/ PublishRejects(p)
         \/ ReconnectionFails(p)
  PROVE  IInv'
<1>1. CASE BrokerRoutes(p)
  <2>1. PICK copy \in sent[p] \ routed[p] :
          routed' = [routed EXCEPT ![p] = @ \cup {copy}]
    BY <1>1 DEF BrokerRoutes
  <2>2. UNCHANGED <<asked, args, pc, sent>>
    BY <1>1 DEF BrokerRoutes
  <2>3. TypeOK'
    BY <2>1, <2>2 DEF IInv, TypeOK
  <2>4. routed'[p] = routed[p] \cup {copy} /\ Progress(p)
    BY <2>1 DEF IInv, TypeOK
  <2>5. Progress(p)'
    BY <2>1, <2>2, <2>4 DEF Progress, Once, Twice, First, Second, Again
  <2>6. \A q \in Publication \ {p} : Same(q)
    BY <2>1, <2>2 DEF IInv, TypeOK, Same
  <2> QED
    BY <2>3, <2>5, <2>6, Frame DEF IInv
<1>2. ASSUME NEW label \in {"resolved", "rejected", "reconnecting"}, Goto(p, label),
             UNCHANGED <<asked, args, sent, routed>>,
             pc[p] \in Pending,
             label = "resolved" => routed[p] # {},
             label = "reconnecting" => Once(p) /\ asked[p].retry
      PROVE  IInv'
  <2>1. TypeOK'
    BY <1>2 DEF IInv, TypeOK, Goto, Pending
  <2>2. pc'[p] = label
    BY <1>2 DEF IInv, TypeOK, Goto
  <2>3. Progress(p)'
    BY <1>2, <2>2
    DEF IInv, Progress, Pending, Once, Twice, First, Second, Again
  <2>4. \A q \in Publication \ {p} : Same(q)
    BY <1>2 DEF IInv, TypeOK, Same, Goto
  <2> QED
    BY <2>1, <2>3, <2>4, Frame DEF IInv
<1>3. CASE PublishResolves(p)
  BY <1>2, <1>3 DEF PublishResolves, Pending
<1>4. CASE PublishRejects(p)
  <2>1. CASE args[p].retry
    <3>1. Once(p) \/ Twice(p)
      BY <1>4 DEF PublishRejects, IInv, Progress
    <3>2. ~Twice(p)
      BY <2>1 DEF Twice, Again
    <3>3. asked[p].retry
      BY <2>1, <3>1, <3>2 DEF Once
    <3> QED
      BY <1>2, <1>4, <2>1, <3>1, <3>2, <3>3 DEF PublishRejects, Pending
  <2>2. CASE ~args[p].retry
    BY <1>2, <1>4, <2>2 DEF PublishRejects, Pending
  <2> QED
    BY <2>1, <2>2
<1>5. CASE ReconnectionFails(p)
  BY <1>2, <1>5 DEF ReconnectionFails, Pending
<1> QED
  BY <1>1, <1>3, <1>4, <1>5

LEMMA NextIInv == IInv /\ [Next]_vars => IInv'
<1> SUFFICES ASSUME IInv, [Next]_vars PROVE IInv'
  OBVIOUS
<1>1. CASE Crash
  <2>1. TypeOK'
    BY <1>1 DEF IInv, TypeOK, Crash, Pending
  <2>2. ASSUME NEW p \in Publication PROVE Progress(p)'
    BY <1>1, <2>2
    DEF IInv, TypeOK, Crash, Pending, Progress, Once, Twice, First, Second, Again
  <2> QED
    BY <2>1, <2>2 DEF IInv
<1>2. CASE UNCHANGED vars
  <2>1. TypeOK'
    BY <1>2 DEF IInv, TypeOK, vars
  <2>2. \A p \in Publication : Same(p)
    BY <1>2 DEF Same, vars
  <2> QED
    BY <2>1, <2>2, Frame DEF IInv
<1> QED
  BY <1>1, <1>2, PublishStep, ReconnectedStep, PublicationStep DEF Next

THEOREM Invariance == Spec => []IInv
BY InitIInv, NextIInv, PTL DEF Spec

\* The variables keep their types.
THEOREM TypeCorrect == Spec => []TypeOK
BY Invariance, PTL DEF IInv

\* A publication is taken for published only when the broker has it.
THEOREM ResolvedIsRoutedHolds == Spec => []ResolvedIsRouted
<1>1. IInv => ResolvedIsRouted
  BY DEF IInv, Progress, ResolvedIsRouted
<1> QED
  BY <1>1, Invariance, PTL

\* Copies sent are few, and those the broker has not taken yet and those it has
\* make them up.
LEMMA SentCounted ==
  ASSUME IInv, NEW p \in Publication
  PROVE  /\ IsFiniteSet(sent[p]) /\ routed[p] \subseteq sent[p]
         /\ Cardinality(sent[p]) <= IF asked[p].retry THEN 2 ELSE 1
<1>1. sent[p] = {} \/ Once(p) \/ Twice(p)
  BY DEF IInv, Progress
<1>2. IsFiniteSet({}) /\ IsFiniteSet({First(p)})
  BY FS_EmptySet, FS_Singleton
<1>3. routed[p] \subseteq sent[p]
  BY DEF IInv, Progress
<1>4. CASE sent[p] = {}
  <2>1. IsFiniteSet(sent[p]) /\ Cardinality(sent[p]) = 0
    BY <1>2, <1>4, CopiesCounted, Zenon
  <2> QED
    BY <1>3, <2>1
<1>5. CASE Once(p)
  <2>1. IsFiniteSet(sent[p]) /\ Cardinality(sent[p]) = 1
    BY <1>2, <1>5, CopiesCounted, Zenon DEF Once
  <2> QED
    BY <1>3, <2>1
<1>6. CASE Twice(p)
  <2>1. IsFiniteSet(sent[p]) /\ Cardinality(sent[p]) = 2
    BY <1>6, CopiesCounted, Zenon DEF Twice
  <2>2. asked[p].retry
    BY <1>6 DEF Twice
  <2> QED
    BY <1>3, <2>1, <2>2
<1> QED
  BY <1>1, <1>4, <1>5, <1>6

LEMMA CopiesSplit ==
  ASSUME IInv, NEW p \in Publication
  PROVE  /\ IsFiniteSet(sent[p]) /\ IsFiniteSet(routed[p])
         /\ IsFiniteSet(sent[p] \ routed[p])
         /\ Cardinality(sent[p]) \in Nat
         /\ Cardinality(routed[p]) \in Nat
         /\ Cardinality(sent[p] \ routed[p]) \in Nat
         /\ Cardinality(sent[p] \ routed[p]) + Cardinality(routed[p])
              = Cardinality(sent[p])
<1> DEFINE R == routed[p]  S == sent[p]
<1>1. IsFiniteSet(S) /\ R \subseteq S
  BY SentCounted
<1>2. IsFiniteSet(R) /\ IsFiniteSet(S \ R)
  BY <1>1, FS_Subset
<1>3. (S \ R) \cup R = S /\ (S \ R) \cap R = {}
  BY <1>1
<1>4. Cardinality((S \ R) \cup R)
        = Cardinality(S \ R) + Cardinality(R) - Cardinality((S \ R) \cap R)
  BY <1>2, FS_Union
<1>5. Cardinality((S \ R) \cap R) = 0
  BY <1>3, FS_EmptySet, Zenon
<1>6. Cardinality((S \ R) \cup R) = Cardinality(S)
  BY <1>3, Zenon
<1>7. Cardinality(S) \in Nat /\ Cardinality(R) \in Nat /\ Cardinality(S \ R) \in Nat
  BY <1>1, <1>2, FS_CardinalityType
<1> QED
  BY <1>1, <1>2, <1>4, <1>5, <1>6, <1>7

\* The broker never holds more than one copy, or two when a retry was asked for.
THEOREM AtMostTwiceHolds == Spec => []AtMostTwice
<1>1. IInv => AtMostTwice
  <2> SUFFICES ASSUME IInv, NEW p \in Publication
               PROVE  Cardinality(routed[p]) <= IF asked[p].retry THEN 2 ELSE 1
    BY DEF AtMostTwice
  <2>1. Cardinality(sent[p]) <= IF asked[p].retry THEN 2 ELSE 1
    BY SentCounted
  <2>2. /\ Cardinality(sent[p] \ routed[p]) + Cardinality(routed[p]) = Cardinality(sent[p])
        /\ Cardinality(sent[p] \ routed[p]) \in Nat /\ Cardinality(routed[p]) \in Nat
        /\ Cardinality(sent[p]) \in Nat
    BY CopiesSplit
  <2> QED
    BY <2>1, <2>2
<1> QED
  BY <1>1, Invariance, PTL

\* The retry keeps the delay of an event that was published without one.
THEOREM SameDelayHolds == Spec => []SameDelay
<1>1. IInv => SameDelay
  <2> SUFFICES ASSUME IInv, NEW p \in Publication, asked[p].delay = Undefined,
                      NEW c \in routed[p], NEW d \in routed[p]
               PROVE  c.delay = d.delay
    BY DEF SameDelay
  <2>1. {c, d} \subseteq {First(p), Second(p)}
    BY DEF IInv, Progress, Once, Twice
  <2>2. First(p).delay = Second(p).delay
    BY DEF First, Second, Again, BuildXdelay
  <2> QED
    BY <2>1, <2>2
<1> QED
  BY <1>1, Invariance, PTL

----------------------------------------------------------------------------
\* Producer implements EventDelivery.

LEMMA OutcomesMapped ==
  /\ OutcomeOf("idle") = "idle" /\ OutcomeOf("publishing") = "open"
  /\ OutcomeOf("reconnecting") = "open" /\ OutcomeOf("resolved") = "resolved"
  /\ OutcomeOf("rejected") = "rejected" /\ OutcomeOf("lost") = "lost"
BY DEF OutcomeOf, Pending

LEMMA InitIsDeliverys == Init => Delivery!Init
<1> SUFFICES ASSUME Init PROVE Delivery!Init
  OBVIOUS
<1>1. \A p \in Publication :
        /\ Cardinality(routed[p]) = 0
        /\ Cardinality(sent[p] \ routed[p]) = 0
  <2>1. \A p \in Publication : routed[p] = {} /\ sent[p] \ routed[p] = {}
    BY DEF Init
  <2> QED
    BY <2>1, FS_EmptySet, Zenon
<1>2. \A p \in Publication : OutcomeOf(pc[p]) = "idle"
  BY OutcomesMapped DEF Init
<1> QED
  BY <1>1, <1>2 DEF Delivery!Init

\* The mapped variables, where a step changes them for one publication.
LEMMA OutcomeMoves ==
  ASSUME IInv, NEW p \in Publication, NEW label, Goto(p, label)
  PROVE  [q \in Publication |-> OutcomeOf(pc[q])]'
           = [[q \in Publication |-> OutcomeOf(pc[q])] EXCEPT ![p] = OutcomeOf(label)]
<1>1. pc \in [Publication -> {"idle", "resolved", "rejected", "lost"} \cup Pending]
  BY DEF IInv, TypeOK
<1>2. \A q \in Publication :
        OutcomeOf(pc'[q]) = IF q = p THEN OutcomeOf(label) ELSE OutcomeOf(pc[q])
  BY <1>1 DEF Goto
<1>3. [[q \in Publication |-> OutcomeOf(pc[q])] EXCEPT ![p] = OutcomeOf(label)]
        = [q \in Publication |-> IF q = p THEN OutcomeOf(label) ELSE OutcomeOf(pc[q])]
  OBVIOUS
<1>4. [q \in Publication |-> OutcomeOf(pc[q])]' = [q \in Publication |-> OutcomeOf(pc'[q])]
  BY DEF OutcomeOf
<1> QED
  BY <1>2, <1>3, <1>4

\* The end of a call leaves its copies where they are.
LEMMA EndIsDeliverys ==
  ASSUME IInv, NEW p \in Publication, NEW how, Goto(p, how),
         pc[p] \in Pending, UNCHANGED <<asked, sent, routed>>
  PROVE  Delivery!End(p, OutcomeOf(how))
<1>1. OutcomeOf(pc[p]) = "open"
  BY DEF OutcomeOf
<1> QED
  BY <1>1, OutcomeMoves DEF Delivery!End

LEMMA PublishIsDeliverys ==
  ASSUME IInv, NEW turn \in SUBSET Publication, PublishToTransactionProcessor(turn)
  PROVE  Delivery!Publish(turn)
<1>1. /\ \A p \in turn : pc[p] = "idle"
      /\ pc' = [p \in Publication |-> IF p \in turn THEN "publishing" ELSE pc[p]]
      /\ sent' = [p \in Publication |->
                    IF p \in turn THEN sent[p] \cup {NextCopy(p, asked[p])} ELSE sent[p]]
      /\ UNCHANGED <<asked, routed>>
  BY DEF PublishToTransactionProcessor, PublishMessage
<1>2. ASSUME NEW p \in turn PROVE Cardinality(sent'[p] \ routed'[p]) = 1
  <2>1. sent[p] = {} /\ routed[p] = {}
    BY <1>1 DEF IInv, Progress
  <2>2. sent'[p] \ routed'[p] = {NextCopy(p, asked[p])}
    BY <1>1, <2>1
  <2> QED
    BY <2>2, FS_Singleton
<1>3. \A p \in Publication : OutcomeOf(pc'[p]) = IF p \in turn THEN "open" ELSE OutcomeOf(pc[p])
  BY <1>1, OutcomesMapped
<1>4. \A p \in turn : OutcomeOf(pc[p]) = "idle"
  BY <1>1, OutcomesMapped
<1>5. \A p \in Publication \ turn : sent'[p] = sent[p] /\ routed'[p] = routed[p]
  BY <1>1
<1> QED
  BY <1>1, <1>2, <1>3, <1>4, <1>5 DEF Delivery!Publish

\* The second try is within the limit: it adds a copy to one.
LEMMA ReconnectedIsDeliverys ==
  ASSUME IInv, NEW p \in Publication, Reconnected(p)
  PROVE  Delivery!Repeat(p)
<1>1. Once(p) /\ asked[p].retry /\ pc[p] = "reconnecting"
  BY DEF IInv, Progress, Reconnected
<1>2. Cardinality(sent[p]) = 1
  BY <1>1, CopiesCounted, Zenon DEF Once
<1>3. PICK copy : /\ copy.try = 2
                  /\ sent' = [q \in Publication |->
                                IF q = p THEN sent[q] \cup {copy} ELSE sent[q]]
                  /\ pc' = [q \in Publication |-> IF q = p THEN "publishing" ELSE pc[q]]
                  /\ UNCHANGED <<asked, routed>>
  <2> DEFINE a == [args EXCEPT ![p].retry = FALSE, ![p].delay = Undefined]
  <2>1. PublishMessage({p}, a)
    BY DEF Reconnected
  <2>2. NextCopy(p, a[p]).try = 2
    BY <1>2 DEF NextCopy
  <2> HIDE DEF a
  <2> QED
    BY <2>1, <2>2 DEF PublishMessage
<1>4. copy \notin sent[p]
  BY <1>1, <1>3 DEF Once, First
<1>5. routed[p] \subseteq sent[p]
  BY SentCounted
<1>6. sent'[p] \ routed'[p] = (sent[p] \ routed[p]) \cup {copy}
  BY <1>3, <1>4, <1>5
<1>7. Cardinality(sent'[p] \ routed'[p]) = Cardinality(sent[p] \ routed[p]) + 1
  BY <1>4, <1>6, CopiesSplit, FS_AddElement
<1>8. Cardinality(sent[p] \ routed[p]) + Cardinality(routed[p]) < 2
  BY <1>2, CopiesSplit
<1>9. /\ OutcomeOf(pc[p]) = "open"
      /\ \A q \in Publication : OutcomeOf(pc'[q]) = OutcomeOf(pc[q])
  BY <1>1, <1>3, OutcomesMapped
<1>10. \A q \in Publication \ {p} : sent'[q] = sent[q]
  BY <1>3
<1> QED
  BY <1>1, <1>3, <1>7, <1>8, <1>9, <1>10 DEF Delivery!Repeat

LEMMA RoutedIsDeliverys ==
  ASSUME IInv, NEW p \in Publication, BrokerRoutes(p)
  PROVE  Delivery!Deliver(p)
<1>1. PICK copy \in sent[p] \ routed[p] : routed' = [routed EXCEPT ![p] = @ \cup {copy}]
  BY DEF BrokerRoutes
<1>2. UNCHANGED <<asked, pc, sent>> /\ routed \in [Publication -> SUBSET Copy]
  BY DEF BrokerRoutes, IInv, TypeOK
<1>3. /\ routed'[p] = routed[p] \cup {copy}
      /\ sent'[p] \ routed'[p] = (sent[p] \ routed[p]) \ {copy}
      /\ \A q \in Publication \ {p} : routed'[q] = routed[q]
  BY <1>1, <1>2
<1>4. Cardinality(routed'[p]) = Cardinality(routed[p]) + 1
  BY <1>1, <1>3, CopiesSplit, FS_AddElement
<1>5. Cardinality(sent'[p] \ routed'[p]) = Cardinality(sent[p] \ routed[p]) - 1
  <2>1. IsFiniteSet(sent[p] \ routed[p])
    BY CopiesSplit
  <2>2. Cardinality((sent[p] \ routed[p]) \ {copy}) = Cardinality(sent[p] \ routed[p]) - 1
    BY <1>1, <2>1, FS_RemoveElement
  <2> QED
    BY <1>3, <2>2
<1>6. Cardinality(sent[p] \ routed[p]) > 0
  <2>1. sent[p] \ routed[p] # {}
    BY <1>1
  <2>2. Cardinality(sent[p] \ routed[p]) # 0
    BY <2>1, CopiesSplit, FS_EmptySet
  <2>3. Cardinality(sent[p] \ routed[p]) \in Nat
    BY CopiesSplit
  <2> QED
    BY <2>2, <2>3
<1> QED
  BY <1>2, <1>3, <1>4, <1>5, <1>6 DEF Delivery!Deliver, OutcomeOf

LEMMA StepIsDeliverys == IInv /\ [Next]_vars => [Delivery!Next]_(Delivery!vars)
<1> SUFFICES ASSUME IInv, [Next]_vars PROVE [Delivery!Next]_(Delivery!vars)
  OBVIOUS
<1>1. ASSUME NEW turn \in SUBSET Publication, PublishToTransactionProcessor(turn)
      PROVE  Delivery!Next
  BY <1>1, PublishIsDeliverys DEF Delivery!Next
<1>2. ASSUME NEW p \in Publication, BrokerRoutes(p) PROVE Delivery!Next
  BY <1>2, RoutedIsDeliverys DEF Delivery!Next
<1>3. ASSUME NEW p \in Publication, PublishResolves(p) PROVE Delivery!Next
  <2>1. routed[p] # {}
    BY <1>3 DEF PublishResolves
  <2>2. Cardinality(routed[p]) > 0
    <3>1. Cardinality(routed[p]) # 0
      BY <2>1, CopiesSplit, FS_EmptySet
    <3>2. Cardinality(routed[p]) \in Nat
      BY CopiesSplit
    <3> QED
      BY <3>1, <3>2
  <2>3. Delivery!End(p, OutcomeOf("resolved"))
    BY <1>3, EndIsDeliverys DEF PublishResolves, Pending
  <2>4. Delivery!Resolve(p)
    BY <2>2, <2>3, OutcomesMapped DEF Delivery!Resolve
  <2> QED
    BY <2>4 DEF Delivery!Next
<1>4. ASSUME NEW p \in Publication, PublishRejects(p)
      PROVE  Delivery!Next \/ UNCHANGED Delivery!vars
  <2>1. CASE args[p].retry
    <3>1. Goto(p, "reconnecting") /\ pc[p] = "publishing" /\ UNCHANGED <<asked, sent, routed>>
      BY <1>4, <2>1 DEF PublishRejects
    <3>2. \A q \in Publication : OutcomeOf(pc'[q]) = OutcomeOf(pc[q])
      BY <3>1, OutcomesMapped DEF Goto, IInv, TypeOK
    <3> QED
      BY <3>1, <3>2 DEF Delivery!vars
  <2>2. CASE ~args[p].retry
    <3>1. Goto(p, "rejected") /\ pc[p] \in Pending /\ UNCHANGED <<asked, sent, routed>>
      BY <1>4, <2>2 DEF PublishRejects, Pending
    <3>2. Delivery!Reject(p)
      BY <3>1, EndIsDeliverys, OutcomesMapped DEF Delivery!Reject
    <3> QED
      BY <3>2 DEF Delivery!Next
  <2> QED
    BY <2>1, <2>2
<1>5. ASSUME NEW p \in Publication, Reconnected(p) PROVE Delivery!Next
  BY <1>5, ReconnectedIsDeliverys DEF Delivery!Next
<1>6. ASSUME NEW p \in Publication, ReconnectionFails(p) PROVE Delivery!Next
  <2>1. Goto(p, "rejected") /\ pc[p] \in Pending /\ UNCHANGED <<asked, sent, routed>>
    BY <1>6 DEF ReconnectionFails, Pending
  <2>2. Delivery!Reject(p)
    BY <2>1, EndIsDeliverys, OutcomesMapped DEF Delivery!Reject
  <2> QED
    BY <2>2 DEF Delivery!Next
<1>7. CASE Crash
  <2>1. \A p \in Publication :
          OutcomeOf(pc'[p]) = IF OutcomeOf(pc[p]) = "open" THEN "lost" ELSE OutcomeOf(pc[p])
    <3>1. pc \in [Publication -> {"idle", "resolved", "rejected", "lost"} \cup Pending]
      BY DEF IInv, TypeOK
    <3> QED
      BY <1>7, <3>1, OutcomesMapped DEF Crash, Pending
  <2>2. Delivery!Die
    BY <1>7, <2>1 DEF Crash, Delivery!Die
  <2> QED
    BY <2>2 DEF Delivery!Next
<1>8. CASE UNCHANGED vars
  BY <1>8 DEF vars, Delivery!vars, OutcomeOf
<1> QED
  BY <1>1, <1>2, <1>3, <1>4, <1>5, <1>6, <1>7, <1>8 DEF Next

\* What the controller hands over is delivered as EventDelivery says, for any
\* events and arguments.
THEOREM DeliveryRefined == Spec => ImplementsDelivery
BY InitIsDeliverys, StepIsDeliverys, Invariance, PTL
DEF Spec, ImplementsDelivery, Delivery!Spec
=============================================================================
