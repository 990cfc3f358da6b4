--------------------------- MODULE MCChainPoller ---------------------------
(***************************************************************************)
(* Small instances of ChainPoller for TLC.                                 *)
(***************************************************************************)
EXTENDS ChainPoller
=============================================================================
