--------------------------- MODULE MCLocalArchive ---------------------------
(***************************************************************************)
(* LocalArchive for TLC.                                                   *)
(***************************************************************************)
EXTENDS LocalArchive, TLC

Symmetric == Permutations(Threads) \cup Permutations(Messages)
=============================================================================
