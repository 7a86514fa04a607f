------------------------ MODULE FundOutRepeatedProofs ------------------------
(***************************************************************************)
(* What a client that tries again pays, for any number of attempts.  Of the    *)
(* attempts made all but one are over, a refusal is final, and so an attempt    *)
(* that is over can move money only when it left the client in doubt.  From     *)
(* outside, the attempts are one payment, of PaymentContract.                 *)
(***************************************************************************)
EXTENDS FundOutRepeated, FundOutProofs

OneOpen ==
  \A r, s \in Req : r # s /\ Attempted(r) /\ Attempted(s) => Over(r) \/ Over(s)

\* The client's choice leaves every step a step of the service.
THEOREM RepeatedIsService == RepeatedSpec => Spec
BY PTL DEF RepeatedSpec, Spec

LEMMA RepeatedInvariance == RepeatedSpec => []IInv
BY RepeatedIsService, Invariance, PTL

LEMMA RefusedIsOver == ASSUME NEW r, Refused(r) PROVE Over(r)
BY DEF Refused, Over

LEMMA OverIsAnswered ==
  ASSUME IInv, NEW r \in Req, Over(r) PROVE pc[r] = "answered"
<1>1. pc[r] \in {"new", "answered"} \cup InFlight /\ Local(r) /\ NoReply.kind = "none"
  BY DEF IInv, TypeOK, NoReply
<1> QED
  BY <1>1 DEF Over, Local, Untouched, Handled

\* What was answered stays as it was answered.
LEMMA AnswerStays ==
  ASSUME IInv, [Next]_vars, NEW r \in Req, pc[r] = "answered"
  PROVE  pc'[r] = "answered" /\ reply'[r] = reply[r]
<1>1. ASSUME NEW q \in Req,
             \/ Reject(q) \/ CreateTransaction(q) \/ MapperThrows(q)
             \/ TokenSettles(q) \/ InterbankInfoSettles(q) \/ TransferSettles(q)
      PROVE  pc'[r] = "answered" /\ reply'[r] = reply[r]
  <2>1. pc[q] # "answered"
    BY <1>1
    DEF Reject, CreateTransaction, MapperThrows, TokenSettles, AskInterbankInfo,
        OrderTransfer, InterbankTokenFails, TransferTokenFails,
        InterbankInfoSettles, InterbankInfo, InterbankInfoFails, TransferSettles,
        TransferApproved, TransferPresumed, TransferFails
  <2>2. Kept(q)
    BY <1>1, RequestKept
  <2> QED
    BY <2>1, <2>2 DEF Kept, Same
<1>2. ASSUME NEW q \in Req, BankExecutes(q) \/ BankRefuses(q) \/ OrderLost(q)
      PROVE  pc'[r] = "answered" /\ reply'[r] = reply[r]
  BY <1>2 DEF BankExecutes, BankRefuses, OrderLost, BankSettles
<1>3. CASE Crash \/ UNCHANGED vars
  BY <1>3 DEF Crash, InFlight, vars
<1> QED
  BY <1>1, <1>2, <1>3 DEF Next

\* One step starts one attempt at most.
LEMMA StartsOne ==
  ASSUME IInv, [Next]_vars, NEW r \in Req, NEW s \in Req, r # s,
         ~Attempted(r), Attempted(r)'
  PROVE  Attempted(s)' => Attempted(s)
<1>1. ASSUME NEW q \in Req,
             \/ Reject(q) \/ CreateTransaction(q) \/ MapperThrows(q)
             \/ TokenSettles(q) \/ InterbankInfoSettles(q) \/ TransferSettles(q)
             \/ BankExecutes(q) \/ BankRefuses(q) \/ OrderLost(q)
      PROVE  pc'[s] = pc[s]
  <2>1. \A t \in Req \ {q} : pc'[t] = pc[t]
    BY <1>1, RequestKept DEF Kept, Same
  <2> QED
    BY <2>1 DEF Attempted
<1>2. CASE Crash \/ UNCHANGED vars
  BY <1>2 DEF Crash, InFlight, vars, Attempted
<1> QED
  BY <1>1, <1>2 DEF Next, Attempted

\* An attempt is over for good, and a new one begins when the others are.
LEMMA NextOneOpen ==
  ASSUME IInv, OneOpen, [Next /\ ClientRepeats]_vars
  PROVE  OneOpen'
<1>1. [Next]_vars
  OBVIOUS
<1>2. ASSUME NEW r \in Req, Over(r) PROVE Over(r)'
  BY <1>1, <1>2, OverIsAnswered, AnswerStays DEF Over
<1>3. ASSUME NEW r \in Req, NEW s \in Req, r # s, Attempted(r)', Attempted(s)',
             ~Attempted(r)
      PROVE  Over(s)'
  <2>1. Attempted(s)
    BY <1>1, <1>3, StartsOne
  <2>2. ClientRepeats
    BY <1>3 DEF Attempted, vars
  <2> QED
    BY <1>2, <1>3, <2>1, <2>2 DEF ClientRepeats
<1>4. ASSUME NEW r \in Req, NEW s \in Req, r # s, Attempted(r)', Attempted(s)'
      PROVE  Over(r)' \/ Over(s)'
  BY <1>2, <1>3, <1>4 DEF OneOpen
<1> QED
  BY <1>4 DEF OneOpen

LEMMA OpenInvariance == RepeatedSpec => []OneOpen
<1>1. Init => OneOpen
  BY DEF Init, OneOpen, Attempted
<1>2. IInv /\ OneOpen /\ [Next /\ ClientRepeats]_vars => OneOpen'
  BY NextOneOpen
<1> QED
  BY <1>1, <1>2, RepeatedInvariance, PTL DEF RepeatedSpec

\* An attempt that gives the client no answer to stay with: not made, or over.
\* Its order can move money, or has, only where it left the client in doubt.
Settled(s) ==
  /\ StatusOf(reply[s]) \in {"open", "refused", "doubtful", "lost"}
  /\ InDoubt(s) \/ MoneyOf(order[s]) \in {"untouched", "kept"}

LEMMA OverIsSettled ==
  ASSUME IInv, NEW s \in Req, Attempted(s) => Over(s)
  PROVE  Settled(s)
<1>1. reply[s] \in Reply /\ order[s] \in {"none", "sent", "executed", "refused", "dropped"}
  BY DEF IInv, TypeOK
<1>2. CASE ~Attempted(s)
  <2>1. reply[s].kind = "none" /\ order[s] = "none"
    BY <1>2 DEF Attempted, IInv, Local, Untouched, NoReply
  <2> QED
    BY <1>1, <2>1, StatusFacts, MoneyFacts DEF Settled
<1>3. CASE Over(s) /\ Refused(s)
  <2>1. order[s] \in {"none", "refused", "dropped"}
    BY <1>3, OverIsAnswered DEF IInv, Local, Replied, Refused
  <2>2. StatusOf(reply[s]) = "refused"
    BY <1>1, <1>3, StatusFacts DEF Refused
  <2> QED
    BY <1>1, <2>1, <2>2, MoneyFacts DEF Settled
<1>4. CASE Over(s) /\ ~Refused(s)
  <2>1. StatusOf(reply[s]) \in {"doubtful", "lost"}
    BY <1>1, <1>4, StatusFacts DEF Over, Refused
  <2> QED
    BY <2>1 DEF Settled, InDoubt
<1> QED
  BY <1>2, <1>3, <1>4

\* Money that moved twice moved for a client in doubt.
THEOREM PaidTwiceHolds == RepeatedSpec => []PaidTwiceOnlyInDoubt
<1>1. IInv /\ OneOpen => PaidTwiceOnlyInDoubt
  <2> SUFFICES ASSUME IInv, OneOpen, NEW r \in Req, NEW s \in Req, r # s,
                      executions[r] + executions[s] > 1
               PROVE  InDoubt(r) \/ InDoubt(s)
    BY DEF PaidTwiceOnlyInDoubt
  <2>1. ASSUME NEW q \in Req PROVE executions[q] = IF order[q] = "executed" THEN 1 ELSE 0
    BY DEF IInv, Local, Counted
  <2>2. order[r] = "executed" /\ order[s] = "executed"
    BY <2>1
  <2>3. Attempted(r) /\ Attempted(s)
    BY <2>2 DEF IInv, Local, Untouched, Attempted
  <2>4. Over(r) \/ Over(s)
    BY <2>3 DEF OneOpen
  <2>5. MoneyOf("executed") \notin {"untouched", "kept"}
    BY MoneyFacts
  <2> QED
    BY <2>2, <2>4, <2>5, OverIsSettled DEF Settled
<1> QED
  BY <1>1, RepeatedInvariance, OpenInvariance, PTL

----------------------------------------------------------------------------
\* FundOutRepeated implements PaymentContract.

Answers == {StatusOf(reply[r]) : r \in Req} \cap {"confirmed", "unconfirmed"}

Doubted == {r \in Req : InDoubt(r)}

LEMMA UnansweredIsOpen ==
  ASSUME NEW r \in Req, reply[r] = NoReply
  PROVE  StatusOf(reply[r]) = "open" /\ ~Over(r) /\ ~InDoubt(r)
<1>1. NoReply.kind = "none"
  BY DEF NoReply
<1> QED
  BY <1>1 DEF StatusOf, Over, InDoubt

\* Beside an attempt that is under way, or that a step begins, there are only
\* settled ones.
LEMMA OthersSettled ==
  ASSUME IInv, OneOpen, [Next /\ ClientRepeats]_vars,
         NEW r \in Req, ~Over(r), Attempted(r) \/ Attempted(r)'
  PROVE  \A s \in Req \ {r} : Settled(s)
<1> SUFFICES ASSUME NEW s \in Req \ {r}, Attempted(s) PROVE Over(s)
  BY OverIsSettled
<1>1. CASE Attempted(r)
  BY <1>1 DEF OneOpen
<1>2. CASE ~Attempted(r) /\ Attempted(r)'
  <2>1. ClientRepeats
    BY <1>2 DEF Attempted, vars
  <2> QED
    BY <1>2, <2>1 DEF ClientRepeats
<1> QED
  BY <1>1, <1>2

\* The answer to an attempt is the answer to the payment, leaves it in doubt, or is
\* a refusal.
LEMMA AnswerIsPayments ==
  ASSUME IInv, IInv', OneOpen, [Next /\ ClientRepeats]_vars, NEW r \in Req,
         pc'[r] = "answered", reply[r] = NoReply, reply'[r].kind # "lost",
         order'[r] = order[r], \A s \in Req \ {r} : Same(s)
  PROVE  [Payment!Next]_(Payment!vars)
<1> DEFINE st == StatusOf(reply'[r])
<1>1. /\ reply'[r] \in Reply
      /\ \A s \in Req : order[s] \in {"none", "sent", "executed", "refused", "dropped"}
  BY DEF IInv, TypeOK
<1>2. StatusOf(reply[r]) = "open" /\ ~Over(r) /\ ~InDoubt(r)
  BY UnansweredIsOpen
<1>3. \A s \in Req \ {r} : Settled(s)
  BY <1>2, OthersSettled DEF Attempted
<1>4. \A s \in Req : order'[s] = order[s]
  BY DEF Same
<1>5. \A state : WithMoney(state)' = WithMoney(state)
  BY <1>4 DEF WithMoney
<1>6. Answers = {}
  BY <1>2, <1>3 DEF Answers, Settled
<1>7. Answers' = {st} \cap {"confirmed", "unconfirmed"}
  BY <1>3 DEF Answers, Settled, Same
<1>8. /\ st \in {"confirmed", "unconfirmed", "refused", "doubtful"}
      /\ st = "confirmed" => order[r] = "executed"
      /\ st = "unconfirmed" => order[r] # "none"
  BY <1>1, StatusFacts DEF IInv, Local, Replied, Told
<1>9. /\ \A s \in Req \ {r} : InDoubt(s)' <=> InDoubt(s)
      /\ InDoubt(r)' <=> st = "doubtful"
  BY <1>8 DEF InDoubt, Same
<1>10. Doubted' = IF st = "doubtful" THEN Doubted \cup {r} ELSE Doubted
  BY <1>2, <1>9 DEF Doubted
<1> HIDE DEF st
<1>11. r \notin Doubted
  BY <1>2 DEF Doubted
<1>12. CASE st = "refused"
  BY <1>5, <1>6, <1>7, <1>10, <1>12 DEF Payment!vars, Answers, Doubted
<1>13. CASE st = "doubtful"
  <2>1. Payment!Doubt(r)
    BY <1>5, <1>6, <1>7, <1>10, <1>11, <1>13 DEF Payment!Doubt, Answers, Doubted
  <2> QED
    BY <2>1 DEF Payment!Next
<1>14. CASE st \in {"confirmed", "unconfirmed"}
  <2>1. Payment!Tell(st)
    BY <1>5, <1>6, <1>7, <1>10, <1>14 DEF Payment!Tell, Answers, Doubted
  <2>2. st = "confirmed" => r \in WithMoney("moved")
    BY <1>1, <1>8, MoneyFacts DEF WithMoney
  <2>3. st = "unconfirmed"
          => r \in WithMoney("ordered") \cup WithMoney("moved") \cup WithMoney("kept")
    BY <1>1, <1>8, MoneyFacts DEF WithMoney
  <2>4. Payment!Confirm(r) \/ Payment!Presume(r)
    BY <1>11, <1>14, <2>1, <2>2, <2>3 DEF Payment!Confirm, Payment!Presume, Doubted
  <2> QED
    BY <2>4 DEF Payment!Next
<1> QED
  BY <1>8, <1>12, <1>13, <1>14

\* An order leaves for a payment whose other orders are over or in doubt.
LEMMA OrderIsPayments ==
  ASSUME IInv, IInv', OneOpen, [Next /\ ClientRepeats]_vars, NEW r \in Req,
         reply[r] = NoReply, reply'[r] = reply[r], order[r] = "none", order'[r] = "sent",
         \A s \in Req \ {r} : Same(s)
  PROVE  Payment!Next
<1>1. StatusOf(reply[r]) = "open" /\ ~Over(r) /\ ~InDoubt(r)
  BY UnansweredIsOpen
<1>2. Attempted(r)'
  BY DEF IInv, Local, Untouched, Attempted
<1>3. \A s \in Req \ {r} : Settled(s)
  BY <1>1, <1>2, OthersSettled
<1>4. Answers = {} /\ Answers' = Answers /\ Doubted' = Doubted
  BY <1>1, <1>3 DEF Answers, Doubted, InDoubt, Settled, Same
<1>5. MoneyOf(order[r]) = "untouched" /\ MoneyOf(order'[r]) = "ordered"
  BY MoneyFacts
<1>6. /\ WithMoney("ordered") \cup WithMoney("moved") \subseteq Doubted
      /\ r \notin Doubted \cup WithMoney("ordered") \cup WithMoney("moved")
                  \cup WithMoney("kept")
  BY <1>1, <1>3, <1>5 DEF WithMoney, Doubted, Settled
<1>7. /\ WithMoney("ordered")' = WithMoney("ordered") \cup {r}
      /\ WithMoney("moved")' = WithMoney("moved")
      /\ WithMoney("kept")' = WithMoney("kept")
  BY <1>5 DEF WithMoney, Same
<1>8. Payment!Order(r)
  BY <1>4, <1>6, <1>7 DEF Payment!Order, Answers, Doubted
<1> QED
  BY <1>8 DEF Payment!Next

\* The bank settles an order.
LEMMA BankIsPayments ==
  ASSUME NEW r \in Req, reply'[r] = reply[r], order[r] = "sent",
         order'[r] \in {"executed", "refused", "dropped"}, \A s \in Req \ {r} : Same(s)
  PROVE  Payment!Next
<1>1. /\ MoneyOf(order[r]) = "ordered"
      /\ MoneyOf(order'[r]) \in {"moved", "kept"}
  BY MoneyFacts
<1>2. Answers' = Answers /\ Doubted' = Doubted
  BY DEF Answers, Doubted, InDoubt, Same
<1>3. r \in WithMoney("ordered") /\ WithMoney("ordered")' = WithMoney("ordered") \ {r}
  BY <1>1 DEF WithMoney, Same
<1>4. \/ /\ WithMoney("moved")' = WithMoney("moved") \cup {r}
         /\ WithMoney("kept")' = WithMoney("kept")
      \/ /\ WithMoney("kept")' = WithMoney("kept") \cup {r}
         /\ WithMoney("moved")' = WithMoney("moved")
  BY <1>1 DEF WithMoney, Same
<1>5. Payment!Move(r) \/ Payment!ComeToNothing(r)
  BY <1>2, <1>3, <1>4 DEF Payment!Move, Payment!ComeToNothing, Answers, Doubted
<1> QED
  BY <1>5 DEF Payment!Next

\* A crash leaves the client in doubt of the one attempt under way.
LEMMA CrashIsPayments ==
  ASSUME IInv, OneOpen, [Next /\ ClientRepeats]_vars, Crash
  PROVE  Payment!Next
<1>1. PICK r \in Req : pc[r] \in InFlight
  BY DEF Crash
<1>2. reply[r] = NoReply /\ reply'[r] = LostReply /\ order' = order
  BY <1>1 DEF Crash, IInv, TypeOK, Local, Handled
<1>3. ~Over(r) /\ Attempted(r)
  BY <1>1, <1>2, UnansweredIsOpen DEF Attempted, InFlight
<1>4. \A s \in Req \ {r} : Settled(s)
  BY <1>3, OthersSettled
<1>5. \A s \in Req \ {r} : reply'[s] = reply[s]
  <2> SUFFICES ASSUME NEW s \in Req \ {r}, pc[s] \in InFlight PROVE FALSE
    BY DEF Crash
  <2>1. Attempted(s) /\ reply[s] = NoReply
    BY DEF Attempted, InFlight, IInv, Local, Handled
  <2>2. Over(s)
    BY <1>3, <2>1 DEF OneOpen
  <2> QED
    BY <2>1, <2>2, UnansweredIsOpen
<1>6. StatusOf(reply[r]) = "open" /\ StatusOf(reply'[r]) = "lost"
  <2>1. NoReply.kind = "none" /\ LostReply.kind = "lost"
    BY DEF NoReply, LostReply
  <2> QED
    BY <1>2, <2>1 DEF StatusOf
<1>7. Answers = {} /\ Answers' = {}
  BY <1>4, <1>5, <1>6 DEF Answers, Settled
<1>8. r \notin Doubted /\ Doubted' = Doubted \cup {r}
  BY <1>5, <1>6 DEF Doubted, InDoubt
<1>9. \A state : WithMoney(state)' = WithMoney(state)
  BY <1>2 DEF WithMoney
<1>10. Payment!Doubt(r)
  BY <1>7, <1>8, <1>9 DEF Payment!Doubt, Answers, Doubted
<1> QED
  BY <1>10 DEF Payment!Next

LEMMA StepIsPayments ==
  IInv /\ IInv' /\ OneOpen /\ [Next /\ ClientRepeats]_vars
    => [Payment!Next]_(Payment!vars)
<1> SUFFICES ASSUME IInv, IInv', OneOpen, [Next /\ ClientRepeats]_vars
             PROVE  [Payment!Next]_(Payment!vars)
  OBVIOUS
<1>1. ASSUME NEW r \in Req,
             \/ Reject(r) \/ CreateTransaction(r) \/ MapperThrows(r)
             \/ TokenSettles(r) \/ InterbankInfoSettles(r) \/ TransferSettles(r)
             \/ BankExecutes(r) \/ BankRefuses(r) \/ OrderLost(r)
      PROVE  [Payment!Next]_(Payment!vars)
  <2>1. \A s \in Req \ {r} : Same(s)
    BY <1>1, RequestKept DEF Kept
  <2>2. CASE reply'[r] = reply[r] /\ order'[r] = order[r]
    <3>1. \A s \in Req : reply'[s] = reply[s] /\ order'[s] = order[s]
      BY <2>1, <2>2 DEF Same
    <3> QED
      BY <3>1 DEF Payment!vars, WithMoney, InDoubt
  <2> QED
    BY <1>1, <2>1, <2>2, RequestMoves, AnswerIsPayments, OrderIsPayments, BankIsPayments
<1>2. CASE UNCHANGED vars
  BY <1>2 DEF vars, Payment!vars, WithMoney, InDoubt, StatusOf, MoneyOf
<1> QED
  BY <1>1, <1>2, CrashIsPayments DEF Next

LEMMA InitIsPayments == Init => Payment!Init
<1> SUFFICES ASSUME Init PROVE Payment!Init
  OBVIOUS
<1>1. \A r \in Req : StatusOf(reply[r]) = "open" /\ MoneyOf(order[r]) = "untouched"
  BY DEF Init, StatusOf, MoneyOf, NoReply
<1> QED
  BY <1>1 DEF Payment!Init, WithMoney, InDoubt

\* However often a client tries, it makes one payment, and one more at most for each
\* attempt that left it in doubt.
THEOREM PaymentRefined == RepeatedSpec => ImplementsPayment
<1>1. Init => Payment!Init
  BY InitIsPayments
<1>2. IInv /\ IInv' /\ OneOpen /\ [Next /\ ClientRepeats]_vars
        => [Payment!Next]_(Payment!vars)
  BY StepIsPayments
<1> QED
  BY <1>1, <1>2, RepeatedInvariance, OpenInvariance, PTL
  DEF RepeatedSpec, ImplementsPayment, Payment!Spec

----------------------------------------------------------------------------
\* A client that gives up when it is in doubt.

\* It makes an attempt only when every one before it was refused.
CarefulRepeats ==
  \A r \in Req :
    ~Attempted(r) /\ Attempted(r)' => \A s \in Req \ {r} : Attempted(s) => Refused(s)

CarefulSpec == Init /\ [][Next /\ CarefulRepeats]_vars

\* Two attempts never both move money.
MovedOnce == \A r, s \in Req : r # s => executions[r] + executions[s] <= 1

OneUnrefused ==
  \A r, s \in Req : r # s /\ Attempted(r) /\ Attempted(s) => Refused(r) \/ Refused(s)

LEMMA CarefulIsRepeated == CarefulSpec => RepeatedSpec
<1>1. [Next /\ CarefulRepeats]_vars => [Next /\ ClientRepeats]_vars
  BY RefusedIsOver DEF CarefulRepeats, ClientRepeats
<1> QED
  BY <1>1, PTL DEF CarefulSpec, RepeatedSpec

LEMMA NextOneUnrefused ==
  ASSUME IInv, OneUnrefused, [Next /\ CarefulRepeats]_vars
  PROVE  OneUnrefused'
<1>1. [Next]_vars
  OBVIOUS
<1>2. ASSUME NEW r \in Req, Refused(r) PROVE Refused(r)'
  BY <1>1, <1>2, RefusedIsOver, OverIsAnswered, AnswerStays DEF Refused
<1>3. ASSUME NEW r \in Req, NEW s \in Req, r # s, Attempted(r)', Attempted(s)',
             ~Attempted(r)
      PROVE  Refused(s)'
  <2>1. Attempted(s)
    BY <1>1, <1>3, StartsOne
  <2>2. CarefulRepeats
    BY <1>3 DEF Attempted, vars
  <2> QED
    BY <1>2, <1>3, <2>1, <2>2 DEF CarefulRepeats
<1>4. ASSUME NEW r \in Req, NEW s \in Req, r # s, Attempted(r)', Attempted(s)'
      PROVE  Refused(r)' \/ Refused(s)'
  BY <1>2, <1>3, <1>4 DEF OneUnrefused
<1> QED
  BY <1>4 DEF OneUnrefused

\* A client that repeats only what was refused pays once, even if the order of a
\* refused attempt had left for the bank.
THEOREM MovedOnceHolds == CarefulSpec => []MovedOnce
<1>1. Init => OneUnrefused
  BY DEF Init, OneUnrefused, Attempted
<1>2. IInv /\ OneUnrefused /\ [Next /\ CarefulRepeats]_vars => OneUnrefused'
  BY NextOneUnrefused
<1>3. IInv /\ OneUnrefused => MovedOnce
  <2> SUFFICES ASSUME IInv, OneUnrefused, NEW r \in Req, NEW s \in Req, r # s
               PROVE  executions[r] + executions[s] <= 1
    BY DEF MovedOnce
  <2>1. ASSUME NEW q \in Req PROVE executions[q] = IF order[q] = "executed" THEN 1 ELSE 0
    BY DEF IInv, Local, Counted
  <2>2. ASSUME NEW q \in Req, ~Attempted(q) \/ Refused(q) PROVE order[q] # "executed"
    BY <2>2, RefusedIsOver, OverIsAnswered
    DEF IInv, Local, Untouched, Replied, Attempted, Refused
  <2>3. order[r] # "executed" \/ order[s] # "executed"
    BY <2>2 DEF OneUnrefused
  <2> QED
    BY <2>1, <2>3
<1>4. CarefulSpec => []IInv
  BY CarefulIsRepeated, RepeatedInvariance, PTL
<1> QED
  BY <1>1, <1>2, <1>3, <1>4, PTL DEF CarefulSpec
=============================================================================
