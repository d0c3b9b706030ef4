-------------------------- MODULE MCClientKeystore --------------------------
(***************************************************************************)
(* ClientKeystore for TLC.                                                 *)
(***************************************************************************)
EXTENDS ClientKeystore

CONSTANTS bob, m1, m2, altered

\* What bob sealed: two messages, which may arrive in either order.
Sealed(n) == Seal(<<"text", n>>, <<"nonce", n>>, Account(bob), Account(Me), n)

FromBob == [m \in Messages |-> bob]

\* The third is the second with another number.
WireFields ==
  [m \in Messages |-> CASE m = m1 -> Sealed(1)
                        [] m = m2 -> Sealed(2)
                        [] m = altered -> [Sealed(2) EXCEPT !.seqNo = 1]]
=============================================================================
