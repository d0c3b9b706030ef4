--------------------------- MODULE MCMessageAccess ---------------------------
(***************************************************************************)
(* MessageAccess for TLC.  Accounts and requests are interchangeable: no    *)
(* action or property names one of them.                                   *)
(***************************************************************************)
EXTENDS MessageAccess, TLC

Symmetry == Permutations(Users) \cup Permutations(Requests)
=============================================================================
