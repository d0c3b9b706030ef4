--------------------------- MODULE MessageSharing ---------------------------
(***************************************************************************)
(* What the relay promises about who has a message.  Its sender and its    *)
(* recipient have it until one of them deletes it; whoever was given it    *)
(* can give it to others, and the sender or the giver can take it back.    *)
(* Every step is indivisible: a request is answered, or takes effect, at   *)
(* once.                                                                   *)
(***************************************************************************)

CONSTANTS
  Users,     (* registered accounts                                         *)
  Msgs       (* message ids                                                 *)

VARIABLES
  sender,    (* sender[m]: the sender, nobody before m is sent              *)
  parties,   (* parties[m]: sender and recipient                            *)
  gave,      (* gave[m]: the pairs <<u, v>> such that u forwarded m to v    *)
  shared,    (* shared[m]: the users it is now shared with                  *)
  gone,      (* the deleted messages                                        *)
  reads      (* the pairs <<m, u>> such that m was returned to u            *)

sharingVars == <<sender, parties, gave, shared, gone, reads>>

SharingInit ==
  /\ sender = [m \in Msgs |-> {}]
  /\ parties = [m \in Msgs |-> {}]
  /\ gave = [m \in Msgs |-> {}]
  /\ shared = [m \in Msgs |-> {}]
  /\ gone = {}
  /\ reads = {}

\* A share that was withdrawn counts: it may be while its forward is under way.
WasGiven(m, u) == u \in parties[m] \/ \E w \in Users : <<w, u>> \in gave[m]

Send(m, s, t) ==
  /\ parties[m] = {}
  /\ sender' = [sender EXCEPT ![m] = {s}]
  /\ parties' = [parties EXCEPT ![m] = {s, t}]
  /\ UNCHANGED <<gave, shared, gone, reads>>

Forward(m, u, v) ==
  /\ WasGiven(m, u)
  /\ gave' = [gave EXCEPT ![m] = @ \cup {<<u, v>>}]
  /\ shared' = [shared EXCEPT ![m] = @ \cup {v}]
  /\ UNCHANGED <<sender, parties, gone, reads>>

Withdraw(m, u, v) ==
  /\ u \in sender[m] \/ <<u, v>> \in gave[m]
  /\ shared' = [shared EXCEPT ![m] = @ \ {v}]
  /\ UNCHANGED <<sender, parties, gave, gone, reads>>

Delete(m, u) ==
  /\ u \in parties[m] /\ m \notin gone
  /\ gone' = gone \cup {m}
  /\ UNCHANGED <<sender, parties, gave, shared, reads>>

\* A delete may cross the read of a user it was forwarded to, never of a party.
Read(m, u) ==
  /\ \/ u \in parties[m] /\ m \notin gone
     \/ u \in shared[m]
  /\ reads' = reads \cup {<<m, u>>}
  /\ UNCHANGED <<sender, parties, gave, shared, gone>>

SharingNext ==
  \E m \in Msgs, u \in Users :
    \/ \E v \in Users : Send(m, u, v) \/ Forward(m, u, v) \/ Withdraw(m, u, v)
    \/ Delete(m, u)
    \/ Read(m, u)

SharingSpec == SharingInit /\ [][SharingNext]_sharingVars
=============================================================================
