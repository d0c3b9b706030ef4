---------------------------- MODULE MCAuthServer ----------------------------
(* A small instance of AuthServer for TLC. *)
EXTENDS AuthServer, TLC

CONSTANTS u1, u2, n1, a, b, h1, h2

Symmetry == Permutations(Ids) \cup Permutations(Passwords) \cup Permutations(Handlers)
=============================================================================
