------------------------------- MODULE Payload -------------------------------
(***************************************************************************)
(* The body of a request, as the decorators of src/fund-out/dtos validate it *)
(* and as the mappers walk it.  Constant-level.                             *)
(*                                                                         *)
(* A node of the body is an object whose own fields pass, one that is        *)
(* malformed (a field fails, or the node is missing or no object), or an     *)
(* empty list: IsNotEmpty and ValidateNested let a list through and have     *)
(* nothing in it to look at.  What a mapper reads from a list is undefined.  *)
(***************************************************************************)
EXTENDS HttpProxy

Leaf(kinds) == [kind : kinds]

\* A document type of the library's list for Peru: the two the mappers know, or
\* another one.
Owner ==
  Leaf({"list", "malformed"})
    \cup [kind : {"object"}, document_type : {"DNI", "CE", "other"}]

\* Account ids are strings of digits of any length: a CCI has twenty, a short
\* one fewer than four.
AccountId == {"cci", "short"}

BankAccount ==
  Leaf({"list", "malformed"})
    \cup [kind : {"object"}, account_id : AccountId,
          destination_account_id : AccountId, owner : Owner]

PaymentMethodDetail ==
  Leaf({"list", "malformed"}) \cup [kind : {"object"}, bank_account : BankAccount]

\* All the fields of a payer are optional: email and names are there or not.
Payer ==
  Leaf({"list", "malformed"}) \cup [kind : {"object"}, named : BOOLEAN]

Metadata ==
  Leaf({"list", "malformed"})
    \cup [kind : {"object"}, payment_method_details : PaymentMethodDetail,
          payer : Payer]

Amount == Leaf({"object", "list", "malformed"})

Transaction ==
  Leaf({"list", "malformed"}) \cup [kind : {"object"}, amount : Amount]

FundOutDto == [transaction : Transaction, metadata : Metadata]

----------------------------------------------------------------------------
\* What ValidateNested accepts.

ValidBankAccount(a) ==
  /\ a.kind # "malformed"
  /\ a.kind = "object" => a.owner.kind # "malformed"

ValidPaymentMethodDetail(d) ==
  /\ d.kind # "malformed"
  /\ d.kind = "object" => ValidBankAccount(d.bank_account)

ValidMetadata(m) ==
  /\ m.kind # "malformed"
  /\ m.kind = "object" =>
       m.payer.kind # "malformed" /\ ValidPaymentMethodDetail(m.payment_method_details)

ValidTransaction(t) ==
  /\ t.kind # "malformed"
  /\ t.kind = "object" => t.amount.kind # "malformed"

ValidFundOut(b) == ValidTransaction(b.transaction) /\ ValidMetadata(b.metadata)

----------------------------------------------------------------------------
\* Where the mappers and the services throw on a valid body.

\* CustomerInterbankInfoMapper.transform reads on as far as owner without
\* optional chaining: it throws when a node above owner is a list.
InterbankMapperThrows(b) ==
  ~ /\ b.metadata.kind = "object"
    /\ b.metadata.payment_method_details.kind = "object"
    /\ b.metadata.payment_method_details.bank_account.kind = "object"

\* getHeaders takes a substring of transaction.datetime, and throws without one.
HeadersThrow(b) == b.transaction.kind = "list"
=============================================================================
