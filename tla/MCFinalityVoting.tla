-------------------------- MODULE MCFinalityVoting --------------------------
(***************************************************************************)
(* Small instances of FinalityVoting for TLC.                              *)
(***************************************************************************)
EXTENDS FinalityVoting, TLC

MCSymmetry == Permutations(Msgs)
=============================================================================
