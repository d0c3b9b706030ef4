--------------------------- MODULE MCKeyDirectory ---------------------------
(* The key directory on one slot with three concurrent publishes.          *)
EXTENDS KeyDirectory
=============================================================================
