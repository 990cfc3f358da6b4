-------------------------- MODULE MCRandCommitter --------------------------
(***************************************************************************)
(* Small instances of RandCommitter for TLC.                               *)
(***************************************************************************)
EXTENDS RandCommitter
=============================================================================
