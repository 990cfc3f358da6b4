---------------------------- MODULE MCEotsKeys ----------------------------
(* Small instances of EotsKeys for TLC. *)
EXTENDS EotsKeys, TLC

MCSymmetry == Permutations(Pks) \cup Permutations(Names) \cup Permutations(BabyKeys)
=============================================================================
