---------------------------- MODULE MCChainAnchor ----------------------------
(***************************************************************************)
(* ChainAnchor for TLC.                                                    *)
(***************************************************************************)
EXTENDS ChainAnchor
=============================================================================
