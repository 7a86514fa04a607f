------------------------------- MODULE Orders -------------------------------
(***************************************************************************)
(* The bodies of the two requests to the bank, as two mappers make them of    *)
(* the body received, each with readings and a table of its own, and what the *)
(* DTOs declare of the second.  Constant-level.  The argument is a body        *)
(* neither mapper throws on, whose transaction is an object; the constants of  *)
(* both orders are left out.  A value read from the body is named by its field.*)
(***************************************************************************)
EXTENDS Payload

BankAccountOf(b) == b.metadata.payment_method_details.bank_account

\* An object indexed by a key, as JavaScript does.
Lookup(object, key) == IF key \in DOMAIN object THEN object[key] ELSE Undefined

\* What is read from an object; a list has no such field.
Field(node, field) == IF node.kind = "object" THEN field ELSE Undefined

----------------------------------------------------------------------------
\* CustomerInterbankInfoMapper.

INTERBANK_DNI_MAPPER == [DNI |-> "1", CE |-> "4"]

InterbankDocumentType(b) ==
  LET owner == BankAccountOf(b).owner
  IN  IF owner.kind = "object"
        THEN Lookup(INTERBANK_DNI_MAPPER, owner.document_type) ELSE Undefined

InterbankInfoOrder(b) ==
  [origin |-> [documentType |-> InterbankDocumentType(b),
               documentNumber |-> Field(BankAccountOf(b).owner, "document_number"),
               accountNumber |-> "account_id"],
   destiny |-> [accountNumber |-> "destination_account_id"]]

----------------------------------------------------------------------------
\* TransferExecuteMapper.

\* As a bug: one of the codes is missing.
TRANSFER_DNI_MAPPER_PARTIAL == [DNI |-> "1"]

\* As a bug: the bank renumbers its document types, and this table is forgotten.
TRANSFER_DNI_MAPPER_OUTDATED == [DNI |-> "1", CE |-> "3"]

TRANSFER_DNI_MAPPER == [DNI |-> "1", CE |-> "4"]

TransferDocumentType(b) ==
  LET owner == BankAccountOf(b).owner
  IN  IF owner.kind = "object"
        THEN Lookup(TRANSFER_DNI_MAPPER, owner.document_type) ELSE Undefined

\* Digits 7-8, 4-6 and 11-18 of the CCI in a field, in that order; of a short id
\* all three substrings are empty.
CciToNroCuenta(b, field) == IF BankAccountOf(b)[field] = "short" THEN "" ELSE field

OfPayer(b, field) ==
  IF b.metadata.payer.kind = "object" /\ b.metadata.payer.named
    THEN field ELSE Undefined

\* One side of the transfer.  The customer is the same on both; the code of the
\* financial entity is what the id begins with.
Side(b, account, email) ==
  [amount |-> Field(b.transaction.amount, "total"),
   productId |-> CciToNroCuenta(b, account),
   documentType |-> TransferDocumentType(b),
   documentNumber |-> Field(BankAccountOf(b).owner, "document_number"),
   surname |-> OfPayer(b, "last_name"),
   names |-> OfPayer(b, "first_name"),
   emailAddress |-> email,
   entityCode |-> account,
   CCI |-> account]

TransferOrder(b, id) ==
  [order |-> [transactionIdentifier |-> "unique_id", transferId |-> id],
   origin |-> Side(b, "account_id", OfPayer(b, "email")),
   destiny |-> Side(b, "destination_account_id", "")]

----------------------------------------------------------------------------
\* What the DTOs declare: every field is there and @IsNotEmpty.

\* The fields of a part of the order that are not there or empty.
Lacking(part) == {field \in DOMAIN part : part[field] \in {Undefined, ""}}

Declared(o) ==
  Lacking(o.order) = {} /\ Lacking(o.origin) = {} /\ Lacking(o.destiny) = {}
=============================================================================
