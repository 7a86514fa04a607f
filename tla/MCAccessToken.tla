---------------------------- MODULE MCAccessToken ----------------------------
(***************************************************************************)
(* Instances of AccessToken for TLC.  The calls are alike: where no liveness *)
(* is checked they may be permuted.                                        *)
(***************************************************************************)
EXTENDS AccessToken, TLC

Alike == Permutations(Caller)
=============================================================================
