--------------------------- MODULE FundOutRepeated ---------------------------
(***************************************************************************)
(* A client that wants to pay once and tries again: every request is an       *)
(* attempt at the same payment, with its unique_id.  createTransaction keeps  *)
(* no record of what it has handled and takes each attempt for a payment of   *)
(* its own, so that only the replies can keep the client from paying twice.   *)
(***************************************************************************)
EXTENDS FundOut

Attempted(r) == pc[r] # "new"

\* The client was told 400, 401, 403, 404 or 408.
Refused(r) == reply[r].kind = "failed" /\ reply[r].detail \notin DoubtfulException

\* It was told 500 or 504, or nothing: the process died with its request.
InDoubt(r) == StatusOf(reply[r]) \in {"doubtful", "lost"}

\* The attempt has failed: no approval, and no wait for one.
Over(r) == reply[r].kind \in {"failed", "lost"}

\* It makes an attempt when every one before it is over, whether that was refused
\* or left in doubt.
ClientRepeats ==
  \A r \in Req :
    ~Attempted(r) /\ Attempted(r)' => \A s \in Req \ {r} : Attempted(s) => Over(s)

RepeatedSpec == Init /\ [][Next /\ ClientRepeats]_vars

\* Two attempts both move money only if one of them left the client in doubt: not
\* even when the order of a refused one has left for the bank, and never two that
\* were approved (fund-out.controller.ts:53, transfer-execute.service.ts:48-86).
PaidTwiceOnlyInDoubt ==
  \A r, s \in Req :
    r # s /\ executions[r] + executions[s] > 1 => InDoubt(r) \/ InDoubt(s)

\* The attempts that the bank has brought this far.
WithMoney(state) == {r \in Req : MoneyOf(order[r]) = state}

Payment ==
  INSTANCE PaymentContract WITH
    Attempt <- Req,
    told <- {StatusOf(reply[r]) : r \in Req} \cap {"confirmed", "unconfirmed"},
    doubted <- {r \in Req : InDoubt(r)},
    pending <- WithMoney("ordered"),
    moved <- WithMoney("moved"),
    void <- WithMoney("kept")

\* Attempts that end in a refusal leave no trace: but for attempts that left the
\* client in doubt there is never a second order while one may still move the money
\* or has moved it, none after an approval, and that approval is the only one and
\* true of the payment as a whole (fund-out.controller.ts:53,
\* transfer-execute.service.ts:48-86).
ImplementsPayment == Payment!Spec
=============================================================================
