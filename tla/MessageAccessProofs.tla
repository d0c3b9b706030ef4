------------------------- MODULE MessageAccessProofs -------------------------
(***************************************************************************)
(* Proofs about MessageAccess, for any accounts, messages and requests.    *)
(*                                                                         *)
(* ShareProvenance speaks of rows; what lets a step extend it is that a     *)
(* forward past its check belongs to a user some row already names          *)
(* (ServedWereGiven), and that rows, once written, keep their parties       *)
(* (SameRows, PartiesKept).                                                 *)
(***************************************************************************)
EXTENDS MessageAccess, TLAPS

\* A handler that is running knows its request.
InFlightAsked ==
  \A r \in Requests :
    pc[r] \in InFlight \cup {"served"} => req[r] \in Request

\* A forward that has not taken effect has no row.
UnsharedYet ==
  \A r \in Requests : pc[r] \in InFlight \cup {"idle"} => shares[r] = NoShare

Inv ==
  /\ TypeOK
  /\ InFlightAsked
  /\ UnsharedYet
  /\ ServedWereGiven
  /\ ShareProvenance

PartiesKept == \A m \in Msgs, u \in Users : Party(m, u) => Party(m, u)'

SameRows ==
  \A f \in Requests :
    /\ shares'[f].msg = shares[f].msg
    /\ shares'[f].by = shares[f].by
    /\ shares'[f].with = shares[f].with

----------------------------------------------------------------------------
\* A share of a message has two accounts as its parties.
LEMMA ShareParties ==
  ASSUME TypeOK, NEW m \in Msgs, NEW f \in SharesOf(m)
  PROVE  f \in Requests /\ shares[f] \in Share
<1>1. f \in Requests /\ shares[f].msg = m
  BY DEF SharesOf
<1>2. shares[f] # NoShare
  BY <1>1, NoMsgAssumption DEF NoShare
<1> QED BY <1>1, <1>2 DEF TypeOK

\* A step that keeps parties and rows keeps who was given what.
LEMMA GivenKept ==
  ASSUME PartiesKept, SameRows, NEW m \in Msgs, NEW u \in Users, GivenTo(m, u)
  PROVE  GivenTo(m, u)'
<1>1. CASE Party(m, u)
  BY <1>1 DEF PartiesKept, GivenTo
<1>2. CASE \E f \in SharesOf(m) : shares[f].with = u
  BY <1>2 DEF SameRows, SharesOf, GivenTo
<1> QED BY <1>1, <1>2 DEF GivenTo

\* Such a step keeps the provenance of every share.
LEMMA ProvenanceKept ==
  ASSUME TypeOK, ShareProvenance, PartiesKept, SameRows
  PROVE  ShareProvenance'
<1> SUFFICES ASSUME NEW m \in Msgs, NEW S \in SUBSET (SharesOf(m))', S # {}
             PROVE  \E f \in S :
                      \/ Party(m, shares[f].by)'
                      \/ \E g \in (SharesOf(m))' \ S : shares'[g].with = shares'[f].by
  BY DEF ShareProvenance
<1>1. SharesOf(m)' = SharesOf(m)
  BY DEF SharesOf, SameRows
<1>2. PICK f \in S :
        \/ Party(m, shares[f].by)
        \/ \E g \in SharesOf(m) \ S : shares[g].with = shares[f].by
  BY <1>1 DEF ShareProvenance
<1>3. f \in Requests /\ shares[f].by \in Users
  BY <1>1, ShareParties DEF Share
<1>4. shares'[f].by = shares[f].by
  BY <1>3 DEF SameRows
<1>5. CASE Party(m, shares[f].by)
  BY <1>3, <1>4, <1>5 DEF PartiesKept, Party
<1>6. CASE \E g \in SharesOf(m) \ S : shares[g].with = shares[f].by
  BY <1>1, <1>4, <1>6 DEF SameRows, SharesOf
<1> QED BY <1>2, <1>5, <1>6

LEMMA InitInv == Init => Inv
<1> SUFFICES ASSUME Init PROVE Inv
  OBVIOUS
<1>1. TypeOK
  BY DEF Init, TypeOK, Steps, InFlight
<1>2. InFlightAsked /\ UnsharedYet /\ ServedWereGiven
  BY DEF Init, InFlightAsked, UnsharedYet, ServedWereGiven, InFlight
<1>3. \A m \in Msgs : SharesOf(m) = {}
  BY NoMsgAssumption DEF Init, SharesOf, NoShare
<1>4. ShareProvenance
  BY <1>3 DEF ShareProvenance
<1> QED BY <1>1, <1>2, <1>4 DEF Inv

\* A new message has no parties to lose, and a deleted one keeps them.
LEMMA MessageStep ==
  ASSUME Inv, UNCHANGED <<shares, pc, req>>,
         NEW m \in Msgs, NEW row \in Message,
         messages' = [messages EXCEPT ![m] = row],
         \/ messages[m] = NoMessage
         \/ /\ row.sender = messages[m].sender
            /\ row.recipient = messages[m].recipient
  PROVE  Inv'
<1> USE DEF Inv
<1>1. TypeOK'
  BY DEF TypeOK
<1>2. PartiesKept
  BY NoUserAssumption DEF PartiesKept, Party, TypeOK, NoMessage
<1>3. SameRows
  BY DEF SameRows
<1>4. ServedWereGiven'
  <2> SUFFICES ASSUME NEW r \in Requests, pc[r] \in {"served", "granted"}
               PROVE  GivenTo(req[r].msg, req[r].user)'
    BY DEF ServedWereGiven
  <2>1. req[r] \in Request
    BY DEF InFlightAsked, InFlight
  <2>2. GivenTo(req[r].msg, req[r].user)
    BY DEF ServedWereGiven
  <2>3. req[r].msg \in Msgs /\ req[r].user \in Users
    BY <2>1 DEF Request
  <2>4. \A n \in Msgs, u \in Users : GivenTo(n, u) => GivenTo(n, u)'
    BY <1>2, <1>3, GivenKept
  <2> QED BY <2>2, <2>3, <2>4 DEF GivenTo, Party, SharesOf
<1>5. InFlightAsked' /\ UnsharedYet'
  BY DEF InFlightAsked, UnsharedYet
<1> QED BY <1>1, <1>2, <1>3, <1>4, <1>5, ProvenanceKept

\* Withdrawing shares, by a revoke or by the forwarder, keeps their parties.
LEMMA MarkStep ==
  ASSUME Inv, UNCHANGED <<messages, req>>,
         shares' \in [Requests -> Share \cup {NoShare}],
         SameRows,
         \A r \in Requests : shares'[r] = NoShare <=> shares[r] = NoShare,
         pc' \in [Requests -> Steps],
         \A r \in Requests : pc'[r] = pc[r] \/ pc'[r] \in {"done", "failed", "lost"}
  PROVE  Inv'
<1> USE DEF Inv
<1>1. TypeOK'
  BY DEF TypeOK
<1>2. PartiesKept
  BY DEF PartiesKept, Party
<1>3. ServedWereGiven'
  <2> SUFFICES ASSUME NEW r \in Requests, pc'[r] \in {"served", "granted"}
               PROVE  GivenTo(req[r].msg, req[r].user)'
    BY DEF ServedWereGiven
  <2>1. pc[r] \in {"served", "granted"}
    OBVIOUS
  <2>2. req[r] \in Request
    BY <2>1 DEF InFlightAsked, InFlight
  <2>3. req[r].msg \in Msgs /\ req[r].user \in Users
    BY <2>2 DEF Request
  <2>4. GivenTo(req[r].msg, req[r].user)
    BY <2>1 DEF ServedWereGiven
  <2>5. \A n \in Msgs, u \in Users : GivenTo(n, u) => GivenTo(n, u)'
    BY <1>2, GivenKept
  <2> QED BY <2>3, <2>4, <2>5 DEF GivenTo, Party, SharesOf
<1>4. InFlightAsked' /\ UnsharedYet'
  BY DEF InFlightAsked, UnsharedYet, InFlight
<1> QED BY <1>1, <1>2, <1>3, <1>4, ProvenanceKept

\* A step that only advances handlers keeps Inv when whoever it lets pass was
\* given the message.
LEMMA AdvanceStep ==
  ASSUME Inv, UNCHANGED tables,
         pc' \in [Requests -> Steps],
         req' \in [Requests -> Request \cup {NoRequest}],
         \A r \in Requests :
           \/ pc'[r] = pc[r] /\ req'[r] = req[r]
           \/ /\ pc[r] \in InFlight \cup {"idle"}
              /\ pc'[r] \in InFlight \cup {"served"} => req'[r] \in Request
              /\ pc'[r] \in {"served", "granted"} => GivenTo(req'[r].msg, req'[r].user)
  PROVE  Inv'
<1> USE DEF Inv, tables
<1>1. TypeOK'
  BY DEF TypeOK
<1>2. InFlightAsked'
  BY DEF InFlightAsked, InFlight
<1>3. UnsharedYet'
  BY DEF UnsharedYet, InFlight
<1>4. \A m, u : GivenTo(m, u) => GivenTo(m, u)'
  BY DEF GivenTo, Party, SharesOf
<1>5. ServedWereGiven'
  BY <1>4 DEF ServedWereGiven, GivenTo, Party, SharesOf
<1>6. PartiesKept /\ SameRows
  BY DEF PartiesKept, SameRows, Party
<1> QED BY <1>1, <1>2, <1>3, <1>5, <1>6, ProvenanceKept

\* The new share hangs on the one that gave its forwarder the message, which is
\* an older row: a set of shares that contains it is grounded by its old part.
LEMMA CreateShareStep ==
  ASSUME Inv, NEW r \in Requests, CreateShare(r)
  PROVE  Inv'
<1> DEFINE m0 == req[r].msg
<1> USE DEF Inv
<1>1. /\ pc[r] = "granted" /\ shares[r] = NoShare
      /\ req[r] \in Request
      /\ GivenTo(m0, req[r].user)
  BY DEF CreateShare, Goto, UnsharedYet, InFlightAsked, ServedWereGiven, InFlight
<1>2. /\ m0 \in Msgs /\ req[r].user \in Users /\ req[r].to \in Users
  BY <1>1 DEF Request
<1> DEFINE new == [msg |-> m0, by |-> req[r].user, with |-> req[r].to, revoked |-> FALSE]
<1>3. /\ shares' = [shares EXCEPT ![r] = new]
      /\ pc' = [pc EXCEPT ![r] = "done"]
      /\ UNCHANGED <<messages, req>>
  BY DEF CreateShare, Goto
<1>4. new \in Share
  BY <1>2 DEF Share
<1>5. TypeOK'
  BY <1>3, <1>4 DEF TypeOK, Steps
<1>6. InFlightAsked' /\ UnsharedYet'
  BY <1>3 DEF InFlightAsked, UnsharedYet, InFlight, TypeOK
<1>7. \A m \in Msgs : /\ r \notin SharesOf(m)
                     /\ SharesOf(m)' = IF m = m0 THEN SharesOf(m) \cup {r} ELSE SharesOf(m)
  BY <1>1, <1>3, NoMsgAssumption DEF SharesOf, NoShare, TypeOK
<1>8. \A m \in Msgs : \A f \in SharesOf(m) : shares'[f] = shares[f]
  BY <1>3, <1>7 DEF SharesOf, TypeOK
<1>9. \A m, u : Party(m, u)' = Party(m, u)
  BY <1>3 DEF Party
<1>10. ServedWereGiven'
  <2> SUFFICES ASSUME NEW q \in Requests, pc'[q] \in {"served", "granted"}
               PROVE  GivenTo(req[q].msg, req[q].user)'
    BY <1>3 DEF ServedWereGiven
  <2>1. pc[q] \in {"served", "granted"}
    BY <1>3 DEF TypeOK
  <2>2. req[q].msg \in Msgs /\ GivenTo(req[q].msg, req[q].user)
    BY <2>1 DEF ServedWereGiven, InFlightAsked, InFlight, Request
  <2>3. \A m \in Msgs : \A u : GivenTo(m, u) => GivenTo(m, u)'
    BY <1>7, <1>8, <1>9 DEF GivenTo
  <2>4. req' = req
    BY <1>3
  <2>5. PICK m1 \in Msgs, u1 \in {req[q].user} : m1 = req[q].msg /\ u1 = req[q].user
    BY <2>2
  <2>6. GivenTo(m1, u1)'
    BY <2>2, <2>3, <2>5
  <2> QED BY <2>4, <2>5, <2>6 DEF GivenTo, Party, SharesOf
<1>11. ShareProvenance'
  <2> SUFFICES ASSUME NEW m \in Msgs, NEW S \in SUBSET (SharesOf(m))', S # {}
               PROVE  \E f \in S :
                        \/ Party(m, shares[f].by)'
                        \/ \E g \in (SharesOf(m))' \ S : shares'[g].with = shares'[f].by
    BY DEF ShareProvenance
  <2> DEFINE T == S \ {r}
  <2>1. T \in SUBSET SharesOf(m)
    BY <1>7
  <2>2. CASE T = {}
    <3>1. S = {r} /\ m = m0
      BY <2>2, <1>7
    <3>2. shares'[r].by = req[r].user
      BY <1>3 DEF TypeOK
    <3>3. CASE Party(m0, req[r].user)
      BY <3>1, <3>2, <3>3, <1>9, <1>3 DEF Party
    <3>4. CASE \E f \in SharesOf(m0) : shares[f].with = req[r].user
      BY <3>1, <3>2, <3>4, <1>2, <1>7, <1>8
    <3> QED BY <1>1, <3>3, <3>4 DEF GivenTo
  <2>3. CASE T # {}
    <3>1. PICK f \in T :
            \/ Party(m, shares[f].by)
            \/ \E g \in SharesOf(m) \ T : shares[g].with = shares[f].by
      BY <2>1, <2>3 DEF ShareProvenance
    <3>2. f \in S /\ shares'[f] = shares[f]
      BY <2>1, <1>8
    <3>3. \A g \in SharesOf(m) \ T : g \in (SharesOf(m))' \ S /\ shares'[g] = shares[g]
      BY <1>7, <1>8
    <3> QED BY <3>1, <3>2, <3>3, <1>9, <1>3 DEF Party
  <2> QED BY <2>2, <2>3
<1> QED BY <1>5, <1>6, <1>10, <1>11

\* Every step of the relay keeps Inv.
LEMMA NextInv == Inv /\ [Next]_vars => Inv'
<1> SUFFICES ASSUME Inv, [Next]_vars PROVE Inv'
  OBVIOUS
<1> USE DEF Inv
<1>1. ASSUME NEW m \in Msgs, NEW s \in Users, NEW t \in Users, Send(m, s, t)
      PROVE  Inv'
  <2>1. [sender |-> s, recipient |-> t, deleted |-> FALSE] \in Message
    BY DEF Message
  <2> QED BY <1>1, <2>1, MessageStep DEF Send
<1>2. ASSUME NEW m \in Msgs, NEW u \in Users, SoftDelete(m, u)
      PROVE  Inv'
  <2>1. messages[m] \in Message
    BY <1>2 DEF SoftDelete, Exists, TypeOK
  <2> DEFINE row == [messages[m] EXCEPT !.deleted = TRUE]
  <2>2. /\ row \in Message
        /\ row.sender = messages[m].sender
        /\ row.recipient = messages[m].recipient
    BY <2>1 DEF Message
  <2>3. messages' = [messages EXCEPT ![m] = row]
    BY <1>2 DEF SoftDelete
  <2> QED BY <1>2, <2>2, <2>3, MessageStep DEF SoftDelete
<1>3. ASSUME NEW f \in Requests, NEW u \in Users, SoftDeleteShare(f, u)
      PROVE  Inv'
  <2>1. shares[f] \in Share
    BY <1>3, NoUserAssumption DEF SoftDeleteShare, TypeOK, NoShare
  <2>2. /\ [shares[f] EXCEPT !.revoked = TRUE] \in Share
        /\ NoShare \notin Share
    BY <2>1, NoMsgAssumption DEF Share, NoShare
  <2>3. shares' = [shares EXCEPT ![f] = [shares[f] EXCEPT !.revoked = TRUE]]
    BY <1>3 DEF SoftDeleteShare
  <2>4. SameRows
    BY <2>1, <2>3 DEF SameRows, TypeOK, Share
  <2>5. \A r \in Requests : shares'[r] = NoShare <=> shares[r] = NoShare
    BY <2>1, <2>2, <2>3 DEF TypeOK
  <2> QED BY <1>3, <2>2, <2>3, <2>4, <2>5, MarkStep DEF SoftDeleteShare, TypeOK
<1>4. ASSUME NEW r \in Requests, RevokeShare(r)
      PROVE  Inv'
  <2>1. req[r] \in Request
    BY <1>4 DEF RevokeShare, Goto, InFlightAsked, InFlight
  <2>2. req[r].msg \in Msgs
    BY <2>1 DEF Request
  <2>3. \A f \in Requests :
          \/ shares'[f] = shares[f]
          \/ shares[f].msg \in Msgs /\ shares'[f] = [shares[f] EXCEPT !.revoked = TRUE]
    BY <1>4, <2>2 DEF RevokeShare
  <2>4. \A f \in Requests : shares[f].msg \in Msgs => shares[f] \in Share
    BY NoMsgAssumption DEF TypeOK, NoShare
  <2>5. \A f \in Requests :
          \/ shares'[f] = shares[f]
          \/ /\ shares[f] \in Share /\ shares'[f] \in Share
             /\ shares'[f].msg = shares[f].msg
             /\ shares'[f].by = shares[f].by
             /\ shares'[f].with = shares[f].with
    BY <2>3, <2>4 DEF Share
  <2>6. NoShare \notin Share
    BY NoMsgAssumption DEF Share, NoShare
  <2>7. shares' \in [Requests -> Share \cup {NoShare}]
    BY <1>4, <2>5 DEF RevokeShare, TypeOK
  <2>8. SameRows
    BY <2>5 DEF SameRows
  <2>9. \A f \in Requests : shares'[f] = NoShare <=> shares[f] = NoShare
    BY <2>5, <2>6
  <2>10. pc' \in [Requests -> Steps] /\ \A q \in Requests : pc'[q] \in {pc[q], "done"}
    BY <1>4 DEF RevokeShare, Goto, TypeOK, Steps
  <2> QED BY <1>4, <2>7, <2>8, <2>9, <2>10, MarkStep DEF RevokeShare
<1>5. ASSUME NEW r \in Requests, NEW op \in Ops, NEW m \in Msgs, NEW u \in Users,
             NEW to \in Users, Receive(r, op, m, u, to)
      PROVE  Inv'
  <2>1. [op |-> op, msg |-> m, user |-> u, to |-> to] \in Request
    BY DEF Request
  <2> QED BY <1>5, <2>1, AdvanceStep DEF Receive, Goto, TypeOK, Steps, InFlight
<1>6. ASSUME NEW r \in Requests, FindById(r)
      PROVE  Inv'
  <2> DEFINE m == req[r].msg
             u == req[r].user
  <2>1. pc[r] = "received" /\ req[r] \in Request
    BY <1>6 DEF FindById, Goto, InFlightAsked, InFlight
  <2>2. PICK step \in {"denied", "granted", "served", "found"} :
          /\ pc' = [pc EXCEPT ![r] = step]
          /\ step \in {"served", "granted"} => Party(m, u)
    BY <1>6 DEF FindById, Goto, Granted, Party
  <2> QED
    BY <1>6, <2>1, <2>2, AdvanceStep
       DEF FindById, TypeOK, Steps, InFlight, GivenTo, tables
<1>7. ASSUME NEW r \in Requests, FindSharedWith(r)
      PROVE  Inv'
  <2>1. pc[r] = "found" /\ req[r] \in Request
    BY <1>7 DEF FindSharedWith, Goto, InFlightAsked, InFlight
  <2>2. PICK step \in {"denied", "granted", "served"} :
          /\ pc' = [pc EXCEPT ![r] = step]
          /\ step \in {"served", "granted"} => GivenTo(req[r].msg, req[r].user)
    BY <1>7 DEF FindSharedWith, Goto, Granted, SharedWith, ActiveShares, GivenTo
  <2> QED
    BY <1>7, <2>1, <2>2, AdvanceStep
       DEF FindSharedWith, TypeOK, Steps, InFlight, tables
<1>8. ASSUME NEW r \in Requests, Fail(r)
      PROVE  Inv'
  BY <1>8, AdvanceStep DEF Fail, TypeOK, Steps, InFlight, tables
<1>9. ASSUME Crash
      PROVE  Inv'
  BY <1>9, AdvanceStep DEF Crash, TypeOK, Steps, InFlight, tables
<1>10. ASSUME UNCHANGED vars
       PROVE  Inv'
  BY <1>10, AdvanceStep DEF vars, tables, TypeOK
<1> QED
  BY <1>1, <1>2, <1>3, <1>4, <1>5, <1>6, <1>7, <1>8, <1>9, <1>10, CreateShareStep
     DEF Next, HandlerStep

\* Whoever forwarded a message had it: the forwarder of a single share is a
\* party, or another forward of the message names them.
LEMMA ForwarderHadIt ==
  ASSUME ShareProvenance, NEW m \in Msgs, NEW f \in SharesOf(m)
  PROVE  GivenTo(m, shares[f].by)
<1>1. {f} \in SUBSET SharesOf(m) /\ {f} # {}
  OBVIOUS
<1>2. \E e \in {f} : \/ Party(m, shares[e].by)
                     \/ \E g \in SharesOf(m) \ {f} : shares[g].with = shares[e].by
  BY <1>1 DEF ShareProvenance
<1> QED BY <1>2 DEF GivenTo

\* The lists and getMessage agree wherever the shares have their provenance.
LEMMA ListsAgree == Inv => ListsMatchAccess
<1> SUFFICES ASSUME Inv, NEW u \in Users, NEW m \in Msgs
             PROVE  LET readable == Exists(m) /\ (Party(m, u) \/ SharedWith(m, u))
                    IN  /\ m \in Inbox(u) => readable
                        /\ readable => m \in Inbox(u) \cup Sent(u)
                        /\ m \in Sent(u) => Exists(m) /\ GivenTo(m, u)
  BY DEF ListsMatchAccess
<1> DEFINE readable == Exists(m) /\ (Party(m, u) \/ SharedWith(m, u))
<1>1. m \in Inbox(u) => readable
  BY DEF Inbox, FindByRecipient, FindSharedWithUser, Party
<1>2. readable => m \in Inbox(u) \cup Sent(u)
  BY DEF Inbox, Sent, FindByRecipient, FindSharedWithUser, FindBySender, Party
<1>3. ASSUME m \in FindSharedByUser(u)
      PROVE  Exists(m) /\ GivenTo(m, u)
  <2>1. Exists(m) /\ \E f \in SharesOf(m) : shares[f].by = u
    BY <1>3 DEF FindSharedByUser, ActiveShares
  <2> QED BY <2>1, ForwarderHadIt DEF Inv
<1>4. m \in FindBySender(u) => Exists(m) /\ GivenTo(m, u)
  BY DEF FindBySender, GivenTo, Party
<1> QED BY <1>1, <1>2, <1>3, <1>4 DEF Sent

\* Inv holds in every reachable state.
THEOREM InvHolds == Spec => []Inv
BY InitInv, NextInv, PTL DEF Spec

\* Every variable holds a value of its kind.
THEOREM TypeCorrect == Spec => []TypeOK
BY InvHolds, PTL DEF Inv

\* Every share goes back to a party of its message through a chain of forwards
\* (forwardMessage), for any number of users, messages and requests in flight.
THEOREM SharesHaveProvenance == Spec => []ShareProvenance
BY InvHolds, PTL DEF Inv

\* No request is served or let through for a user who was never given the
\* message (getMessage's two reads).
THEOREM OnlyHoldersServed == Spec => []ServedWereGiven
BY InvHolds, PTL DEF Inv

\* The inbox and sent lists and getMessage give the same answer about every
\* message and user (getInbox, getSent, getMessage).
THEOREM ListsAgreeWithReads == Spec => []ListsMatchAccess
BY InvHolds, ListsAgree, PTL

----------------------------------------------------------------------------
(* Refinement: the rows and the answers as one relation of who has what.   *)

senderBar  == [m \in Msgs |-> {u \in Users : messages[m].sender = u}]
partiesBar == [m \in Msgs |-> {u \in Users : Party(m, u)}]
gaveBar    == [m \in Msgs |-> {<<shares[f].by, shares[f].with>> : f \in SharesOf(m)}]
sharedBar  == [m \in Msgs |-> {u \in Users : SharedWith(m, u)}]
goneBar    == {m \in Msgs : messages[m].deleted}
readsBar   == {<<req[r].msg, req[r].user>> : r \in {q \in Requests : pc[q] = "served"}}

bars == <<senderBar, partiesBar, gaveBar, sharedBar, goneBar, readsBar>>

\* Only a revoke by the sender is past its check, and no revoke looks for shares.
RevokersSent ==
  \A r \in Requests :
    /\ pc[r] = "found" => req[r].op # "revoke"
    /\ pc[r] = "granted" /\ req[r].op = "revoke" =>
         messages[req[r].msg].sender = req[r].user

\* A step that sends or deletes changes no sender, and one that moves a handler
\* leaves the rows of messages alone.
LEMMA RevokersSentStep ==
  ASSUME Inv, RevokersSent, [Next]_vars
  PROVE  RevokersSent'
<1> SUFFICES ASSUME NEW r \in Requests
             PROVE  /\ pc'[r] = "found" => req'[r].op # "revoke"
                    /\ pc'[r] = "granted" /\ req'[r].op = "revoke" =>
                         messages'[req'[r].msg].sender = req'[r].user
  BY DEF RevokersSent
<1>0. /\ messages \in [Msgs -> Message \cup {NoMessage}]
      /\ pc \in [Requests -> Steps] /\ req \in [Requests -> Request \cup {NoRequest}]
      /\ pc[r] \in InFlight => req[r] \in Request
      /\ pc[r] = "found" => req[r].op # "revoke"
      /\ pc[r] = "granted" /\ req[r].op = "revoke" => messages[req[r].msg].sender = req[r].user
  BY DEF Inv, TypeOK, InFlightAsked, RevokersSent
<1>1. ASSUME NEW m \in Msgs, NEW row,
             messages' = [messages EXCEPT ![m] = row], UNCHANGED <<pc, req>>,
             messages[m] # NoMessage => row.sender = messages[m].sender
      PROVE  /\ pc'[r] = "found" => req'[r].op # "revoke"
             /\ pc'[r] = "granted" /\ req'[r].op = "revoke" =>
                  messages'[req'[r].msg].sender = req'[r].user
  <2> SUFFICES ASSUME pc[r] = "granted", req[r].op = "revoke"
               PROVE  messages'[req[r].msg].sender = req[r].user
    BY <1>0, <1>1
  <2>1. req[r].msg \in Msgs /\ req[r].user \in Users
        /\ messages[req[r].msg].sender = req[r].user
    BY <1>0 DEF InFlight, Request
  <2>2. messages[req[r].msg] # NoMessage
    BY <2>1, NoUserAssumption DEF NoMessage
  <2> QED
    BY <1>0, <1>1, <2>1, <2>2
<1>2. CASE \E m \in Msgs, s, t \in Users : Send(m, s, t)
  BY <1>1, <1>2 DEF Send
<1>3. CASE \E m \in Msgs, u \in Users : SoftDelete(m, u)
  <2> PICK m \in Msgs, u \in Users : SoftDelete(m, u)
    BY <1>3
  <2> DEFINE row == [messages[m] EXCEPT !.deleted = TRUE]
  <2>1. messages[m] \in Message /\ row.sender = messages[m].sender
    BY <1>0 DEF SoftDelete, Exists, Message
  <2>2. messages' = [messages EXCEPT ![m] = row] /\ UNCHANGED <<pc, req>>
    BY DEF SoftDelete
  <2> QED
    BY <1>1, <2>1, <2>2
<1>4. CASE \E q \in Requests : FindById(q)
  BY <1>0, <1>4 DEF FindById, Goto, Granted
<1>5. CASE \E q \in Requests : FindSharedWith(q)
  BY <1>0, <1>5 DEF FindSharedWith, Goto, Granted
<1>6. CASE \E q \in Requests : \E op \in Ops, m \in Msgs, u, to \in Users :
             Receive(q, op, m, u, to)
  BY <1>0, <1>6 DEF Receive, Goto, tables
<1>7. CASE \E q \in Requests : CreateShare(q) \/ RevokeShare(q) \/ Fail(q)
  BY <1>0, <1>7 DEF CreateShare, RevokeShare, Fail, Goto
<1>8. CASE Crash \/ (\E f \in Requests, u \in Users : SoftDeleteShare(f, u)) \/ UNCHANGED vars
  BY <1>0, <1>8 DEF Crash, SoftDeleteShare, vars, InFlight
<1> QED
  BY <1>2, <1>3, <1>4, <1>5, <1>6, <1>7, <1>8 DEF Next, HandlerStep

LEMMA RevokersAlwaysSent == Spec => []RevokersSent
<1>1. Init => RevokersSent
  BY DEF Init, RevokersSent
<1> QED
  BY <1>1, InvHolds, RevokersSentStep, PTL DEF Spec

\* What each part of the relation is read from.
LEMMA BarsFollow ==
  /\ UNCHANGED messages => UNCHANGED <<senderBar, partiesBar, goneBar>>
  /\ UNCHANGED shares => UNCHANGED <<gaveBar, sharedBar>>
<1>1. UNCHANGED messages => UNCHANGED <<senderBar, partiesBar, goneBar>>
  BY DEF senderBar, partiesBar, goneBar, Party
<1>2. UNCHANGED shares => UNCHANGED <<gaveBar, sharedBar>>
  BY DEF gaveBar, sharedBar, SharesOf, SharedWith, ActiveShares
<1> QED
  BY <1>1, <1>2

LEMMA ReadsStay ==
  ASSUME \A r \in Requests : /\ pc'[r] = "served" <=> pc[r] = "served"
                             /\ pc[r] = "served" => req'[r] = req[r]
  PROVE  UNCHANGED readsBar
<1>1. \A x : x \in readsBar' <=> x \in readsBar
  BY DEF readsBar
<1> QED
  BY <1>1 DEF readsBar

LEMMA SendShared ==
  ASSUME Inv, NEW m \in Msgs, NEW s \in Users, NEW t \in Users, Send(m, s, t)
  PROVE  Sharing!Send(m, s, t)
<1>1. /\ messages[m] = NoMessage /\ messages \in [Msgs -> Message \cup {NoMessage}]
      /\ messages' = [messages EXCEPT ![m] =
                        [sender |-> s, recipient |-> t, deleted |-> FALSE]]
      /\ UNCHANGED <<shares, pc, req>>
  BY DEF Send, Inv, TypeOK
<1>2. /\ messages'[m] = [sender |-> s, recipient |-> t, deleted |-> FALSE]
      /\ \A n \in Msgs : n # m => messages'[n] = messages[n]
  BY <1>1
<1>3. partiesBar[m] = {}
  BY <1>1, NoUserAssumption DEF partiesBar, Party, NoMessage
<1>4. senderBar' = [senderBar EXCEPT ![m] = {s}]
  <2>1. \A n \in Msgs : {u \in Users : messages[n].sender = u}' =
          IF n = m THEN {s} ELSE {u \in Users : messages[n].sender = u}
    BY <1>2
  <2> QED
    BY <2>1 DEF senderBar
<1>5. partiesBar' = [partiesBar EXCEPT ![m] = {s, t}]
  <2>1. \A n \in Msgs : {u \in Users : Party(n, u)}' =
          IF n = m THEN {s, t} ELSE {u \in Users : Party(n, u)}
    BY <1>2 DEF Party
  <2> QED
    BY <2>1 DEF partiesBar
<1>6. goneBar' = goneBar
  <2>1. messages[m].deleted = FALSE
    BY <1>1 DEF NoMessage
  <2> QED
    BY <1>2, <2>1 DEF goneBar
<1>7. UNCHANGED <<gaveBar, sharedBar>>
  BY <1>1, BarsFollow
<1>8. UNCHANGED readsBar
  BY <1>1, ReadsStay
<1> QED
  BY <1>3, <1>4, <1>5, <1>6, <1>7, <1>8
  DEF Sharing!Send, senderBar, partiesBar, gaveBar, sharedBar, goneBar, readsBar

LEMMA DeleteShared ==
  ASSUME Inv, NEW m \in Msgs, NEW u \in Users, SoftDelete(m, u)
  PROVE  Sharing!Delete(m, u)
<1> DEFINE row == [messages[m] EXCEPT !.deleted = TRUE]
<1>1. /\ messages[m] \in Message /\ ~messages[m].deleted /\ Party(m, u)
      /\ messages \in [Msgs -> Message \cup {NoMessage}]
      /\ messages' = [messages EXCEPT ![m] = row]
      /\ UNCHANGED <<shares, pc, req>>
  BY DEF SoftDelete, Exists, Inv, TypeOK
<1>2. /\ messages'[m].sender = messages[m].sender /\ messages'[m].deleted
      /\ messages'[m].recipient = messages[m].recipient
      /\ \A n \in Msgs : n # m => messages'[n] = messages[n]
  BY <1>1 DEF Message
<1>3. UNCHANGED <<senderBar, partiesBar>>
  <2>1. \A n \in Msgs : /\ messages'[n].sender = messages[n].sender
                        /\ messages'[n].recipient = messages[n].recipient
    BY <1>2
  <2>2. UNCHANGED senderBar
    BY <2>1 DEF senderBar
  <2>3. \A n \in Msgs : {v \in Users : Party(n, v)}' = {v \in Users : Party(n, v)}
    BY <2>1 DEF Party
  <2> QED
    BY <2>2, <2>3 DEF partiesBar
<1>4. goneBar' = goneBar \cup {m} /\ m \notin goneBar
  BY <1>1, <1>2 DEF goneBar
<1>5. UNCHANGED <<gaveBar, sharedBar>>
  BY <1>1, BarsFollow
<1>6. UNCHANGED readsBar
  BY <1>1, ReadsStay
<1>7. u \in partiesBar[m]
  BY <1>1 DEF partiesBar
<1> QED
  BY <1>3, <1>4, <1>5, <1>6, <1>7
  DEF Sharing!Delete, senderBar, partiesBar, gaveBar, sharedBar, goneBar, readsBar

\* A forward adds its own row and nothing else to the shares of its message.
LEMMA ForwardShared ==
  ASSUME Inv, NEW r \in Requests, CreateShare(r)
  PROVE  \E m \in Msgs, u, v \in Users : Sharing!Forward(m, u, v)
<1>0. req[r] \in Request
  BY DEF CreateShare, Goto, Inv, InFlightAsked, InFlight
<1> PICK m \in Msgs, u \in Users, v \in Users :
      m = req[r].msg /\ u = req[r].user /\ v = req[r].to
  BY <1>0 DEF Request
<1> DEFINE new == [msg |-> m, by |-> u, with |-> v, revoked |-> FALSE]
<1>1. /\ GivenTo(m, u) /\ shares[r] = NoShare /\ pc[r] = "granted"
      /\ shares \in [Requests -> Share \cup {NoShare}] /\ pc \in [Requests -> Steps]
  BY DEF CreateShare, Goto, Inv, InFlightAsked, UnsharedYet, ServedWereGiven, InFlight, TypeOK
<1>2. shares' = [shares EXCEPT ![r] = new] /\ pc' = [pc EXCEPT ![r] = "done"]
      /\ UNCHANGED <<messages, req>>
  BY DEF CreateShare, Goto
<1>3. shares'[r] = new /\ \A f \in Requests \ {r} : shares'[f] = shares[f]
  BY <1>1, <1>2
<1>4. \A n \in Msgs : /\ r \notin SharesOf(n)
                     /\ SharesOf(n)' = IF n = m THEN SharesOf(n) \cup {r} ELSE SharesOf(n)
  BY <1>1, <1>3, NoMsgAssumption DEF SharesOf, NoShare
<1>5. gaveBar' = [gaveBar EXCEPT ![m] = @ \cup {<<u, v>>}]
  <2>1. \A n \in Msgs : {<<shares[f].by, shares[f].with>> : f \in SharesOf(n)}' =
          IF n = m THEN {<<shares[f].by, shares[f].with>> : f \in SharesOf(n)} \cup {<<u, v>>}
                   ELSE {<<shares[f].by, shares[f].with>> : f \in SharesOf(n)}
    BY <1>3, <1>4 DEF SharesOf
  <2> QED
    BY <2>1 DEF gaveBar
<1>6. sharedBar' = [sharedBar EXCEPT ![m] = @ \cup {v}]
  <2>1. \A n \in Msgs, w \in Users :
          SharedWith(n, w)' <=> SharedWith(n, w) \/ (n = m /\ w = v)
    BY <1>3, <1>4 DEF SharedWith, ActiveShares, SharesOf
  <2>2. \A n \in Msgs : {w \in Users : SharedWith(n, w)}' =
          IF n = m THEN {w \in Users : SharedWith(n, w)} \cup {v}
                   ELSE {w \in Users : SharedWith(n, w)}
    BY <2>1
  <2> QED
    BY <2>2 DEF sharedBar
<1>7. UNCHANGED <<senderBar, partiesBar, goneBar>>
  BY <1>2, BarsFollow
<1>8. UNCHANGED readsBar
  BY <1>1, <1>2, ReadsStay
<1>9. u \in partiesBar[m] \/ \E w \in Users : <<w, u>> \in gaveBar[m]
  <2>1. CASE Party(m, u)
    BY <2>1 DEF partiesBar
  <2>2. CASE \E f \in SharesOf(m) : shares[f].with = u
    <3>1. PICK f \in SharesOf(m) : shares[f].with = u
      BY <2>2
    <3>2. shares[f].by \in Users
      BY <3>1, ShareParties DEF Inv, Share
    <3> QED
      BY <3>1, <3>2 DEF gaveBar
  <2> QED
    BY <1>1, <2>1, <2>2 DEF GivenTo
<1>10. Sharing!Forward(m, u, v)
  BY <1>5, <1>6, <1>7, <1>8, <1>9
  DEF Sharing!Forward, Sharing!WasGiven, senderBar, partiesBar, gaveBar, sharedBar, goneBar,
      readsBar
<1> QED
  BY <1>10

\* Marking all or one of the shares of a message with a user ends at most that
\* user's access.
LEMMA MarksShared ==
  ASSUME Inv, NEW S \in SUBSET Requests, NEW m \in Msgs, NEW v \in Users,
         \A f \in S : shares[f].msg = m /\ shares[f].with = v,
         shares' = [f \in Requests |-> IF f \in S THEN [shares[f] EXCEPT !.revoked = TRUE]
                                                  ELSE shares[f]]
  PROVE  /\ UNCHANGED gaveBar
         /\ sharedBar' \in {sharedBar, [sharedBar EXCEPT ![m] = @ \ {v}]}
<1>1. \A f \in S : shares[f] \in Share
  BY ShareParties DEF Inv, SharesOf
<1>2. \A f \in Requests :
        /\ shares'[f].msg = shares[f].msg /\ shares'[f].by = shares[f].by
        /\ shares'[f].with = shares[f].with
        /\ shares'[f].revoked <=> f \in S \/ shares[f].revoked
  BY <1>1 DEF Share
<1>3. \A n \in Msgs : SharesOf(n)' = SharesOf(n)
  BY <1>2 DEF SharesOf
<1>4. UNCHANGED gaveBar
  <2>1. \A n \in Msgs : {<<shares[f].by, shares[f].with>> : f \in SharesOf(n)}' =
          {<<shares[f].by, shares[f].with>> : f \in SharesOf(n)}
    BY <1>2, <1>3 DEF SharesOf
  <2> QED
    BY <2>1 DEF gaveBar
<1>5. \A n \in Msgs, w \in Users :
        SharedWith(n, w)' <=> \E f \in SharesOf(n) : /\ f \notin S /\ ~shares[f].revoked
                                                     /\ shares[f].with = w
  BY <1>2, <1>3 DEF SharedWith, ActiveShares, SharesOf
<1>6. \A n \in Msgs, w \in Users :
        SharedWith(n, w) <=> \E f \in SharesOf(n) : ~shares[f].revoked /\ shares[f].with = w
  BY DEF SharedWith, ActiveShares
<1>7. \A n \in Msgs, w \in Users : n # m \/ w # v => (SharedWith(n, w)' <=> SharedWith(n, w))
  BY <1>5, <1>6 DEF SharesOf
<1>8. SharedWith(m, v)' => SharedWith(m, v)
  BY <1>5, <1>6
<1>9. CASE SharedWith(m, v)'
  <2>1. \A n \in Msgs : {w \in Users : SharedWith(n, w)}' = {w \in Users : SharedWith(n, w)}
    BY <1>7, <1>8, <1>9
  <2>2. sharedBar' = sharedBar
    BY <2>1 DEF sharedBar
  <2> QED
    BY <1>4, <2>2
<1>10. CASE ~SharedWith(m, v)'
  <2>1. \A n \in Msgs : {w \in Users : SharedWith(n, w)}' =
          IF n = m THEN {w \in Users : SharedWith(n, w)} \ {v}
                   ELSE {w \in Users : SharedWith(n, w)}
    BY <1>7, <1>10
  <2>2. sharedBar' = [sharedBar EXCEPT ![m] = @ \ {v}]
    BY <2>1 DEF sharedBar
  <2> QED
    BY <1>4, <2>2
<1> QED
  BY <1>9, <1>10

LEMMA WithdrawShared ==
  ASSUME NEW m \in Msgs, NEW u \in Users, NEW v \in Users,
         u \in senderBar[m] \/ <<u, v>> \in gaveBar[m],
         UNCHANGED <<senderBar, partiesBar, gaveBar, goneBar, readsBar>>,
         sharedBar' \in {sharedBar, [sharedBar EXCEPT ![m] = @ \ {v}]}
  PROVE  Sharing!Withdraw(m, u, v) \/ UNCHANGED bars
<1>1. CASE sharedBar' = sharedBar
  BY <1>1 DEF bars
<1>2. CASE sharedBar' = [sharedBar EXCEPT ![m] = @ \ {v}]
  BY <1>2 DEF Sharing!Withdraw, senderBar, partiesBar, gaveBar, sharedBar, goneBar, readsBar
<1> QED
  BY <1>1, <1>2

LEMMA RevokeShared ==
  ASSUME Inv, RevokersSent, NEW r \in Requests, RevokeShare(r)
  PROVE  (\E m \in Msgs, u, v \in Users : Sharing!Withdraw(m, u, v)) \/ UNCHANGED bars
<1> DEFINE m == req[r].msg
           u == req[r].user
           v == req[r].to
           S == {f \in Requests : shares[f].msg = m /\ shares[f].with = v}
<1>1. /\ req[r] \in Request /\ messages[m].sender = u /\ pc[r] = "granted"
      /\ pc \in [Requests -> Steps]
  BY DEF RevokeShare, Goto, Inv, InFlightAsked, InFlight, RevokersSent, TypeOK
<1>2. m \in Msgs /\ u \in Users /\ v \in Users
  BY <1>1 DEF Request
<1>3. /\ shares' = [f \in Requests |-> IF f \in S THEN [shares[f] EXCEPT !.revoked = TRUE]
                                                  ELSE shares[f]]
      /\ pc' = [pc EXCEPT ![r] = "done"] /\ UNCHANGED <<messages, req>>
  BY DEF RevokeShare, Goto
<1>4. UNCHANGED readsBar
  BY <1>1, <1>3, ReadsStay
<1>5. UNCHANGED <<senderBar, partiesBar, goneBar>>
  BY <1>3, BarsFollow
<1>6. u \in senderBar[m]
  BY <1>1, <1>2 DEF senderBar
<1>7. S \in SUBSET Requests /\ \A f \in S : shares[f].msg = m /\ shares[f].with = v
  OBVIOUS
<1> HIDE DEF m, u, v, S
<1>8. UNCHANGED gaveBar /\ sharedBar' \in {sharedBar, [sharedBar EXCEPT ![m] = @ \ {v}]}
  BY <1>2, <1>3, <1>7, MarksShared
<1>9. Sharing!Withdraw(m, u, v) \/ UNCHANGED bars
  BY <1>2, <1>4, <1>5, <1>6, <1>8, WithdrawShared
<1> QED
  BY <1>2, <1>9

LEMMA DeleteShareShared ==
  ASSUME Inv, NEW g \in Requests, NEW u \in Users, SoftDeleteShare(g, u)
  PROVE  (\E m \in Msgs, v \in Users : Sharing!Withdraw(m, u, v)) \/ UNCHANGED bars
<1> DEFINE m == shares[g].msg
           v == shares[g].with
           S == {g}
<1>1. shares[g] \in Share /\ shares \in [Requests -> Share \cup {NoShare}]
  BY NoUserAssumption DEF SoftDeleteShare, Inv, TypeOK, NoShare
<1>2. m \in Msgs /\ v \in Users
  BY <1>1 DEF Share
<1>3. /\ shares' = [f \in Requests |-> IF f \in S THEN [shares[f] EXCEPT !.revoked = TRUE]
                                                  ELSE shares[f]]
      /\ UNCHANGED <<messages, pc, req>> /\ shares[g].by = u
  BY <1>1 DEF SoftDeleteShare
<1>4. UNCHANGED readsBar
  BY <1>3, ReadsStay
<1>5. UNCHANGED <<senderBar, partiesBar, goneBar>>
  BY <1>3, BarsFollow
<1>6. <<u, v>> \in gaveBar[m]
  BY <1>2, <1>3 DEF gaveBar, SharesOf
<1>7. S \in SUBSET Requests /\ \A f \in S : shares[f].msg = m /\ shares[f].with = v
  OBVIOUS
<1> HIDE DEF m, v, S
<1>8. UNCHANGED gaveBar /\ sharedBar' \in {sharedBar, [sharedBar EXCEPT ![m] = @ \ {v}]}
  BY <1>2, <1>3, <1>7, MarksShared
<1>9. Sharing!Withdraw(m, u, v) \/ UNCHANGED bars
  BY <1>2, <1>4, <1>5, <1>6, <1>8, WithdrawShared
<1> QED
  BY <1>2, <1>9

\* A handler that answers a get does so on what its last statement saw.
LEMMA ReadShared ==
  ASSUME Inv, RevokersSent, NEW r \in Requests, FindById(r) \/ FindSharedWith(r)
  PROVE  (\E m \in Msgs, u \in Users : Sharing!Read(m, u)) \/ UNCHANGED bars
<1>1. /\ req[r] \in Request /\ pc[r] \in {"received", "found"} /\ pc \in [Requests -> Steps]
  BY DEF FindById, FindSharedWith, Goto, Inv, InFlightAsked, InFlight, TypeOK
<1>2. PICK m \in Msgs, u \in Users : m = req[r].msg /\ u = req[r].user
  BY <1>1 DEF Request
<1>3. PICK step \in {"denied", "granted", "served", "found"} :
        /\ pc' = [pc EXCEPT ![r] = step]
        /\ step = "served" => (Exists(m) /\ Party(m, u)) \/ SharedWith(m, u)
  BY <1>2 DEF FindById, FindSharedWith, Goto, Granted
<1>4. UNCHANGED <<messages, shares, req>>
  BY DEF FindById, FindSharedWith
<1>5. UNCHANGED <<senderBar, partiesBar, gaveBar, sharedBar, goneBar>>
  BY <1>4, BarsFollow
<1>6. CASE step # "served"
  <2>1. UNCHANGED readsBar
    BY <1>1, <1>3, <1>4, <1>6, ReadsStay
  <2> QED
    BY <1>5, <2>1 DEF bars
<1>7. CASE step = "served"
  <2>1. readsBar' = readsBar \cup {<<m, u>>}
    <3>1. {q \in Requests : pc[q] = "served"}' = {q \in Requests : pc[q] = "served"} \cup {r}
      BY <1>1, <1>3, <1>7
    <3> QED
      BY <1>2, <1>4, <3>1 DEF readsBar
  <2>2. (u \in partiesBar[m] /\ m \notin goneBar) \/ u \in sharedBar[m]
    BY <1>2, <1>3, <1>7 DEF partiesBar, goneBar, sharedBar, Exists
  <2>3. Sharing!Read(m, u)
    BY <1>5, <2>1, <2>2
    DEF Sharing!Read, senderBar, partiesBar, gaveBar, sharedBar, goneBar, readsBar
  <2> QED
    BY <2>3
<1> QED
  BY <1>6, <1>7

LEMMA StepRefinesSharing ==
  ASSUME Inv, RevokersSent, [Next]_vars
  PROVE  Sharing!SharingNext \/ UNCHANGED bars
<1>1. ASSUME NEW m \in Msgs, NEW s \in Users, NEW t \in Users, Send(m, s, t)
      PROVE  Sharing!SharingNext
  BY <1>1, SendShared DEF Sharing!SharingNext
<1>2. ASSUME NEW m \in Msgs, NEW u \in Users, SoftDelete(m, u)
      PROVE  Sharing!SharingNext
  BY <1>2, DeleteShared DEF Sharing!SharingNext
<1>3. ASSUME NEW f \in Requests, NEW u \in Users, SoftDeleteShare(f, u)
      PROVE  Sharing!SharingNext \/ UNCHANGED bars
  BY <1>3, DeleteShareShared DEF Sharing!SharingNext
<1>4. ASSUME NEW r \in Requests, RevokeShare(r)
      PROVE  Sharing!SharingNext \/ UNCHANGED bars
  BY <1>4, RevokeShared DEF Sharing!SharingNext
<1>5. ASSUME NEW r \in Requests, CreateShare(r)
      PROVE  Sharing!SharingNext
  BY <1>5, ForwardShared DEF Sharing!SharingNext
<1>6. ASSUME NEW r \in Requests, FindById(r) \/ FindSharedWith(r)
      PROVE  Sharing!SharingNext \/ UNCHANGED bars
  BY <1>6, ReadShared DEF Sharing!SharingNext
<1>7. ASSUME UNCHANGED tables,
             \A r \in Requests : /\ pc'[r] = "served" <=> pc[r] = "served"
                                 /\ pc[r] = "served" => req'[r] = req[r]
      PROVE  UNCHANGED bars
  BY <1>7, BarsFollow, ReadsStay DEF tables, bars
<1>8. pc \in [Requests -> Steps] /\ req \in [Requests -> Request \cup {NoRequest}]
  BY DEF Inv, TypeOK
<1>9. ASSUME NEW r \in Requests, NEW op \in Ops, NEW m \in Msgs, NEW u \in Users,
             NEW to \in Users, Receive(r, op, m, u, to)
      PROVE  UNCHANGED bars
  BY <1>7, <1>8, <1>9 DEF Receive, Goto
<1>10. ASSUME NEW r \in Requests, Fail(r)
       PROVE  UNCHANGED bars
  BY <1>7, <1>8, <1>10 DEF Fail, InFlight, tables
<1>11. CASE Crash \/ UNCHANGED vars
  BY <1>7, <1>8, <1>11 DEF Crash, InFlight, tables, vars
<1> QED
  BY <1>1, <1>2, <1>3, <1>4, <1>5, <1>6, <1>9, <1>10, <1>11 DEF Next, HandlerStep

\* Handlers of several statements that interleave, fail and die implement
\* indivisible reads, forwards, withdrawals and deletes (MessageService).
THEOREM AccessRefinesSharing == Spec => RefinesSharing
<1>1. Init => Sharing!SharingInit
  <2> SUFFICES ASSUME Init PROVE Sharing!SharingInit
    OBVIOUS
  <2>1. \A m \in Msgs : SharesOf(m) = {} /\ \A u \in Users : ~Party(m, u)
                        /\ messages[m].sender # u /\ ~SharedWith(m, u)
    BY NoMsgAssumption, NoUserAssumption
    DEF Init, SharesOf, NoShare, Party, NoMessage, SharedWith, ActiveShares
  <2>2. \A m \in Msgs : ~messages[m].deleted
    BY DEF Init, NoMessage
  <2>3. \A r \in Requests : pc[r] # "served"
    BY DEF Init
  <2> QED
    BY <2>1, <2>2, <2>3 DEF Sharing!SharingInit
<1>2. Inv /\ RevokersSent /\ [Next]_vars => [Sharing!SharingNext]_(Sharing!sharingVars)
  BY StepRefinesSharing
  DEF Sharing!sharingVars, bars, senderBar, partiesBar, gaveBar, sharedBar, goneBar, readsBar
<1> QED
  BY InvHolds, RevokersAlwaysSent, <1>1, <1>2, PTL
  DEF Spec, RefinesSharing, Sharing!SharingSpec
=============================================================================
