----------------------------- MODULE MCProposer -----------------------------
(***************************************************************************)
(* Every set of five validators with voting powers of 0, 1, 2 and 6: with  *)
(* two strong validators and three weak ones a debt reaches the total      *)
(* voting power.                                                           *)
(***************************************************************************)
EXTENDS Proposer

=============================================================================
