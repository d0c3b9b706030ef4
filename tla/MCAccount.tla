------------------------------ MODULE MCAccount ------------------------------
(***************************************************************************)
(* Account for TLC.                                                        *)
(***************************************************************************)
EXTENDS Account, TLC

Symmetric == Permutations(Accounts) \cup Permutations(Workers)
=============================================================================
