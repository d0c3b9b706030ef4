---------------------------- MODULE MessageAccess ----------------------------
(***************************************************************************)
(* Who may read, forward, revoke and delete a message on the relay:        *)
(* MessageService on the tables messages and message_shares.  Each SQL     *)
(* statement is one step.  A handler that checks access first and writes   *)
(* afterwards does so in separate steps, with other handlers in between.   *)
(* Rows are never removed: deleted_at and revoked_at are marks.            *)
(*                                                                         *)
(* Operators named Faulty... are plausible slips in the code; each makes    *)
(* one of the properties below fail and none is part of Spec.              *)
(***************************************************************************)
EXTENDS FiniteSets

CONSTANTS
  Users,     (* registered accounts                                         *)
  NoUser,    (* the parties of a message or share that has no row           *)
  Msgs,      (* message ids                                                 *)
  NoMsg,     (* the message of a share that has no row                      *)
  Requests   (* requests to the API; a forward's share id is its request    *)

ASSUME NoUserAssumption == NoUser \notin Users
ASSUME NoMsgAssumption  == NoMsg \notin Msgs

VARIABLES
  messages,  (* messages[m]: its parties and deleted_at mark                *)
  shares,    (* shares[r]: the row forward r created, with its revoked_at   *)
  pc,        (* pc[r]: the last step handler r completed                    *)
  req        (* req[r]: operation, message, caller and the user it names    *)

tables == <<messages, shares>>
vars   == <<messages, shares, pc, req>>

NoMessage == [sender |-> NoUser, recipient |-> NoUser, deleted |-> FALSE]
Message   == [sender : Users, recipient : Users, deleted : BOOLEAN]
NoShare   == [msg |-> NoMsg, by |-> NoUser, with |-> NoUser, revoked |-> FALSE]
Share     == [msg : Msgs, by : Users, with : Users, revoked : BOOLEAN]
Ops       == {"get", "forward", "revoke"}
Request   == [op : Ops, msg : Msgs, user : Users, to : Users]
NoRequest == [op |-> "get", msg |-> NoMsg, user |-> NoUser, to |-> NoUser]

InFlight == {"received", "found", "granted"}
Steps    == InFlight \cup {"idle", "served", "denied", "done", "failed", "lost"}

Init ==
  /\ messages = [m \in Msgs |-> NoMessage]
  /\ shares = [r \in Requests |-> NoShare]
  /\ pc = [r \in Requests |-> "idle"]
  /\ req = [r \in Requests |-> NoRequest]

----------------------------------------------------------------------------
(* What the queries return.                                                *)

Party(m, u)   == u \in {messages[m].sender, messages[m].recipient}
Exists(m)     == messages[m] # NoMessage /\ ~messages[m].deleted
SharesOf(m)   == {f \in Requests : shares[f].msg = m}
ActiveShares(m) == {f \in SharesOf(m) : ~shares[f].revoked}

\* getMessage's second check: shares.some(...) over findSharedWith.
SharedWith(m, u) == \E f \in ActiveShares(m) : shares[f].with = u

\* The join with messages does not look at deleted_at.
FaultySharesOutliveMessage(u) == {m \in Msgs : SharedWith(m, u)}

\* getInbox: findByRecipient and findSharedWithUser, for every page.
FindByRecipient(u)    == {m \in Msgs : Exists(m) /\ messages[m].recipient = u}
FindSharedWithUser(u) == {m \in Msgs : Exists(m) /\ SharedWith(m, u)}
Inbox(u) == FindByRecipient(u) \cup FindSharedWithUser(u)

\* getSent: findBySender and findSharedByUser, for every page.
FindBySender(u)     == {m \in Msgs : Exists(m) /\ messages[m].sender = u}
FindSharedByUser(u) ==
  {m \in Msgs : Exists(m) /\ \E f \in ActiveShares(m) : shares[f].by = u}
Sent(u) == FindBySender(u) \cup FindSharedByUser(u)

----------------------------------------------------------------------------
(* Requests.                                                               *)

Goto(r, from, to) ==
  /\ pc[r] = from
  /\ pc' = [pc EXCEPT ![r] = to]

\* The recipient is not checked to be an account (no foreign key).
FaultyUnknownRecipient(m, s, t) ==
  /\ messages[m] = NoMessage
  /\ messages' = [messages EXCEPT ![m] =
                    [sender |-> s, recipient |-> NoUser, deleted |-> FALSE]]
  /\ UNCHANGED <<shares, pc, req>>

\* sendMessage's INSERT, the step that delivers the message.
Send(m, s, t) ==
  /\ messages[m] = NoMessage
  /\ messages' = [messages EXCEPT ![m] =
                    [sender |-> s, recipient |-> t, deleted |-> FALSE]]
  /\ UNCHANGED <<shares, pc, req>>

\* A get names no other user.
Receive(r, op, m, u, to) ==
  /\ op = "get" => to = u
  /\ Goto(r, "idle", "received")
  /\ req' = [req EXCEPT ![r] = [op |-> op, msg |-> m, user |-> u, to |-> to]]
  /\ UNCHANGED tables

\* A handler leaves its access check: a get is answered with the row there.
Granted(r) == IF req[r].op = "get" THEN "served" ELSE "granted"

\* findById and the checks on its row.  revokeAccess knows only the sender.
FindById(r) ==
  LET m == req[r].msg
      u == req[r].user
      revoke == req[r].op = "revoke"
  IN  /\ pc[r] = "received"
      /\ \/ /\ ~Exists(m) \/ (revoke /\ messages[m].sender # u)
            /\ Goto(r, "received", "denied")
         \/ /\ Exists(m) /\ revoke /\ messages[m].sender = u
            /\ Goto(r, "received", "granted")
         \/ /\ Exists(m) /\ ~revoke /\ Party(m, u)
            /\ Goto(r, "received", Granted(r))
         \/ /\ Exists(m) /\ ~revoke /\ ~Party(m, u)
            /\ Goto(r, "received", "found")
      /\ UNCHANGED <<messages, shares, req>>

\* The share check answers the wrong way round.
FaultyFindSharedWith(r) ==
  /\ Goto(r, "found",
          IF \E f \in ActiveShares(req[r].msg) : shares[f].with # req[r].user
            THEN Granted(r) ELSE "denied")
  /\ UNCHANGED <<messages, shares, req>>

\* A withdrawn share still opens the message.
FaultyWithdrawnCounts(r) ==
  /\ Goto(r, "found", IF \E f \in SharesOf(req[r].msg) : shares[f].with = req[r].user
                        THEN Granted(r) ELSE "denied")
  /\ UNCHANGED <<messages, shares, req>>

FindSharedWith(r) ==
  /\ Goto(r, "found", IF SharedWith(req[r].msg, req[r].user) THEN Granted(r) ELSE "denied")
  /\ UNCHANGED <<messages, shares, req>>

\* The row is attributed to the sender of the message, not to the forwarder.
FaultyAttribution(r) ==
  /\ req[r].op = "forward"
  /\ Goto(r, "granted", "done")
  /\ shares' = [shares EXCEPT ![r] =
                  [msg |-> req[r].msg, by |-> req[r].to,
                   with |-> req[r].user, revoked |-> FALSE]]
  /\ UNCHANGED <<messages, req>>

CreateShare(r) ==
  /\ req[r].op = "forward"
  /\ Goto(r, "granted", "done")
  /\ shares' = [shares EXCEPT ![r] =
                  [msg |-> req[r].msg, by |-> req[r].user,
                   with |-> req[r].to, revoked |-> FALSE]]
  /\ UNCHANGED <<messages, req>>

\* One UPDATE withdraws every share of the message with the named user.
RevokeShare(r) ==
  /\ req[r].op = "revoke"
  /\ Goto(r, "granted", "done")
  /\ shares' = [f \in Requests |->
                  IF shares[f].msg = req[r].msg /\ shares[f].with = req[r].to
                    THEN [shares[f] EXCEPT !.revoked = TRUE] ELSE shares[f]]
  /\ UNCHANGED <<messages, req>>

\* A statement throws (a lost connection, a duplicate nonce): 409 or 500.
Fail(r) ==
  /\ pc[r] \in InFlight
  /\ pc' = [pc EXCEPT ![r] = "failed"]
  /\ UNCHANGED <<messages, shares, req>>

\* deleteMessage by a party; deleteShare by the forwarder.  One UPDATE each.
SoftDelete(m, u) ==
  /\ Exists(m)
  /\ Party(m, u)
  /\ messages' = [messages EXCEPT ![m].deleted = TRUE]
  /\ UNCHANGED <<shares, pc, req>>

SoftDeleteShare(f, u) ==
  /\ shares[f].by = u
  /\ ~shares[f].revoked
  /\ shares' = [shares EXCEPT ![f].revoked = TRUE]
  /\ UNCHANGED <<messages, pc, req>>

\* The backend process dies with the handlers it was running.
Crash ==
  /\ \E r \in Requests : pc[r] \in InFlight
  /\ pc' = [r \in Requests |-> IF pc[r] \in InFlight THEN "lost" ELSE pc[r]]
  /\ UNCHANGED <<messages, shares, req>>

HandlerStep(r) ==
  \/ FindById(r)
  \/ FindSharedWith(r)
  \/ CreateShare(r)
  \/ RevokeShare(r)

Next ==
  \/ \E m \in Msgs, s, t \in Users : Send(m, s, t)
  \/ \E m \in Msgs, u \in Users : SoftDelete(m, u)
  \/ \E f \in Requests, u \in Users : SoftDeleteShare(f, u)
  \/ \E r \in Requests :
       \/ \E op \in Ops, m \in Msgs, u, to \in Users : Receive(r, op, m, u, to)
       \/ HandlerStep(r)
       \/ Fail(r)
  \/ Crash

Spec == Init /\ [][Next]_vars

----------------------------------------------------------------------------
(* Properties.                                                             *)

\* Every variable holds a value of its kind.
TypeOK ==
  /\ messages \in [Msgs -> Message \cup {NoMessage}]
  /\ shares \in [Requests -> Share \cup {NoShare}]
  /\ pc \in [Requests -> Steps]
  /\ req \in [Requests -> Request \cup {NoRequest}]

\* The user is a party of the message or was given it by a forward, which may
\* have been withdrawn since.
GivenTo(m, u) == Party(m, u) \/ \E f \in SharesOf(m) : shares[f].with = u

\* Every message and share somebody holds goes back to a party through a chain
\* of forwards: in no set of forwards of a message do all the forwarders have
\* it only from one another (forwardMessage, access is enforced per hop).
ShareProvenance ==
  \A m \in Msgs : \A S \in SUBSET SharesOf(m) :
    S # {} => \E f \in S :
      \/ Party(m, shares[f].by)
      \/ \E g \in SharesOf(m) \ S : shares[g].with = shares[f].by

\* Nobody is served a message, and no forward of one goes ahead, for a user who
\* was never given it: the two reads of getMessage may see different states of
\* the tables and still never add up to an access nobody granted.
ServedWereGiven ==
  \A r \in Requests :
    pc[r] \in {"served", "granted"} => GivenTo(req[r].msg, req[r].user)

\* The lists and the row check agree: a message is in a user's inbox exactly
\* when the user received it and getMessage would return it, and whatever
\* getMessage would return is in one of the user's two lists.  No forward that
\* lands after a delete or a revoke brings a message back into a list only.
ListsMatchAccess ==
  \A u \in Users, m \in Msgs :
    LET readable == Exists(m) /\ (Party(m, u) \/ SharedWith(m, u))
    IN  /\ m \in Inbox(u) => readable
        /\ readable => m \in Inbox(u) \cup Sent(u)
        /\ m \in Sent(u) => Exists(m) /\ GivenTo(m, u)

\* What the two tables and the answered requests amount to.
Sharing == INSTANCE MessageSharing WITH
  sender  <- [m \in Msgs |-> {u \in Users : messages[m].sender = u}],
  parties <- [m \in Msgs |-> {u \in Users : Party(m, u)}],
  gave    <- [m \in Msgs |-> {<<shares[f].by, shares[f].with>> : f \in SharesOf(m)}],
  shared  <- [m \in Msgs |-> {u \in Users : SharedWith(m, u)}],
  gone    <- {m \in Msgs : messages[m].deleted},
  reads   <- {<<req[r].msg, req[r].user>> : r \in {q \in Requests : pc[q] = "served"}}

\* Handlers that check in one statement and read or write in another, fail and die
\* in between, amount to indivisible reads, forwards, withdrawals and deletes.  A
\* message is returned only to a party before the delete or to a user who has a
\* share at that moment; a share ends only by the sender or by someone who gave it.
RefinesSharing == Sharing!SharingSpec
=============================================================================
