----------------------------- MODULE MCStartup -----------------------------
(***************************************************************************)
(* Instances of Startup for TLC.                                           *)
(***************************************************************************)
EXTENDS Startup

\* All in the environment; all in the file; the names in one of them each; and
\* one the schema rejects.
SomeEnvironments ==
  {[os |-> Setting, file |-> {}],
   [os |-> {}, file |-> Setting],
   [os |-> {"EXCHANGE_PROCESS_TRANSACTION"}, file |-> {"QUEUE_TRANSACTION_LOG"}],
   [os |-> {"QUEUE_TRANSACTION_LOG"}, file |-> {}]}

\* No more than the schema requires, all of it in the environment.
RequiredOnly == {[os |-> Required, file |-> {}]}
=============================================================================
