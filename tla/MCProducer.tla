----------------------------- MODULE MCProducer -----------------------------
(***************************************************************************)
(* An instance of Producer for TLC.                                        *)
(***************************************************************************)
EXTENDS Producer, TLC

AnyArgs == PublishArgs

Alike == Permutations(Publication)
=============================================================================
