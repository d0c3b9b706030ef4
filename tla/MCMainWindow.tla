---------------------------- MODULE MCMainWindow ----------------------------
(* A small instance of MainWindow for TLC: one peer, who writes a message and *)
(* changes its key once, and one answer or forward to it.                     *)
EXTENDS MainWindow, TLC

CONSTANTS me, p1, i1, o1, w1, w2

MCMaxKeys == p1 :> 2
MCWith    == (i1 :> p1) @@ (o1 :> p1)
=============================================================================
