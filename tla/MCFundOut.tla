------------------------------ MODULE MCFundOut ------------------------------
(***************************************************************************)
(* Instances of FundOut for TLC.                                           *)
(***************************************************************************)
EXTENDS FundOut, TLC

\* Every request the checks tell apart.
AllRequests == Request

\* The requests that get past the checks.
AdmittedRequests == {q \in Request : Rejection(q) = "none"}

Object(m) == m @@ [kind |-> "object"]

\* A body of objects alone that gives as little as it may: no name, accounts of
\* fewer than four digits and a document the mappers have no code for.
Sparse ==
  [transaction |-> Object([amount |-> [kind |-> "object"]]),
   metadata |->
     Object([payer |-> Object([named |-> FALSE]),
             payment_method_details |->
               Object([bank_account |->
                 Object([account_id |-> "short", destination_account_id |-> "short",
                         owner |-> Object([document_type |-> "other"])])])])]

SparseRequests == {q \in AdmittedRequests : q.body = Sparse}
=============================================================================
