--------------------------- MODULE MCEotsManager ---------------------------
(* Instances of EotsManager for TLC. *)
EXTENDS EotsManager, TLC

\* Messages, handler goroutines and keys are interchangeable.
MCSymmetry == Permutations(Msgs) \cup Permutations(Calls) \cup Permutations(Pks) \cup Permutations(Names)
=============================================================================
