--------------------------- MODULE PaymentContract ---------------------------
(***************************************************************************)
(* One payment as the client sees it that makes it: however many attempts it  *)
(* takes, from outside there is one order of it, and an answer that ends it   *)
(* (told), but for the attempts that left the client in doubt: each of these   *)
(* may have ordered the payment once more.  FundOutRepeated implements it:      *)
(* refusals are steps of nobody's concern.                                  *)
(***************************************************************************)
CONSTANTS
  Attempt   \* the requests the client may make

VARIABLES
  told,    \* the approvals the client got
  doubted, \* attempts that it knows no end of: a 5xx answer, or none at all
  pending, \* attempts whose order is on its way
  moved,   \* those that moved the money
  void     \* those whose order came to nothing

vars == <<told, doubted, pending, moved, void>>

Init == told = {} /\ doubted = {} /\ pending = {} /\ moved = {} /\ void = {}

\* The money is ordered again only when an order that can still move it, or has,
\* is one the client is in doubt of, and not once the client has its answer.
Order(a) ==
  /\ told = {}
  /\ pending \cup moved \subseteq doubted
  /\ a \notin doubted \cup pending \cup moved \cup void
  /\ pending' = pending \cup {a}
  /\ UNCHANGED <<told, doubted, moved, void>>

\* The bank, before or after the answer.
Move(a) ==
  /\ a \in pending
  /\ pending' = pending \ {a}
  /\ moved' = moved \cup {a}
  /\ UNCHANGED <<told, doubted, void>>

ComeToNothing(a) ==
  /\ a \in pending
  /\ pending' = pending \ {a}
  /\ void' = void \cup {a}
  /\ UNCHANGED <<told, doubted, moved>>

\* The client gets one approval, and of an attempt it is not in doubt of.
Tell(answer) ==
  /\ told = {}
  /\ told' = {answer}
  /\ UNCHANGED <<doubted, pending, moved, void>>

Confirm(a) == a \in moved \ doubted /\ Tell("confirmed")
Presume(a) == a \in (pending \cup moved \cup void) \ doubted /\ Tell("unconfirmed")

Doubt(a) ==
  /\ told = {}
  /\ a \notin doubted
  /\ doubted' = doubted \cup {a}
  /\ UNCHANGED <<told, pending, moved, void>>

Next ==
  \E a \in Attempt :
    \/ Order(a) \/ Move(a) \/ ComeToNothing(a)
    \/ Confirm(a) \/ Presume(a) \/ Doubt(a)

Spec == Init /\ [][Next]_vars
=============================================================================
