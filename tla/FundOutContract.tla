--------------------------- MODULE FundOutContract ---------------------------
(***************************************************************************)
(* What POST /fund-out/create-transaction promises, seen from outside: what *)
(* the client has been told about each request (status) against what became *)
(* of the payer's money at the bank (money).  FundOut implements it.        *)
(***************************************************************************)
CONSTANTS
  Req   \* the requests

VARIABLES
  status,  \* [Req -> what the client knows]
  money    \* [Req -> what the bank did]

vars == <<status, money>>

\* confirmed: approved by the bank; unconfirmed: approved by the service after
\* the bank did not answer in time; refused: a 4xx answer; doubtful: a 5xx
\* answer; lost: the process died before it answered.
Status == {"open", "confirmed", "unconfirmed", "refused", "doubtful", "lost"}

\* ordered: a transfer is on its way to the bank, which will move the money,
\* keep it where it is, or never see the order (kept as well).
Money == {"untouched", "ordered", "moved", "kept"}

Init ==
  /\ status = [r \in Req |-> "open"]
  /\ money = [r \in Req |-> "untouched"]

Bank(r, from, to) ==
  /\ money[r] = from
  /\ money' = [money EXCEPT ![r] = to]
  /\ UNCHANGED status

\* A transfer is ordered for an unanswered request, once.
Order(r) == status[r] = "open" /\ Bank(r, "untouched", "ordered")

\* The bank settles an order whenever it likes, the client answered or not.
Move(r) == Bank(r, "ordered", "moved")
Keep(r) == Bank(r, "ordered", "kept")

Tell(r, s) ==
  /\ status[r] = "open"
  /\ status' = [status EXCEPT ![r] = s]
  /\ UNCHANGED money

Confirm(r) == money[r] = "moved" /\ Tell(r, "confirmed")
Presume(r) == money[r] # "untouched" /\ Tell(r, "unconfirmed")
Refuse(r) == money[r] \in {"untouched", "kept"} /\ Tell(r, "refused")
Doubt(r) == Tell(r, "doubtful")

\* A crash loses requests that nobody had answered.
Lose ==
  /\ \E lost \in SUBSET {r \in Req : status[r] = "open"} :
       status' = [r \in Req |-> IF r \in lost THEN "lost" ELSE status[r]]
  /\ UNCHANGED money

Next ==
  \/ \E r \in Req : \/ Order(r) \/ Move(r) \/ Keep(r)
                    \/ Confirm(r) \/ Presume(r) \/ Refuse(r) \/ Doubt(r)
  \/ Lose

Spec == Init /\ [][Next]_vars
=============================================================================
