-------------------------- MODULE MainWindowProofs --------------------------
(***************************************************************************)
(* Proofs about MainWindow, for any peers, messages, threads and keys: what *)
(* the user interface relies on without testing it.                        *)
(*                                                                         *)
(* The view depends on the threads only through the events they leave, so   *)
(* the shapes of threads and events come first: an event that opens,        *)
(* extends or marks a chat names a peer.  What ThreadMoves and QueueMoves   *)
(* say of a step bounds how often a message is listed (Once, Tallies), and  *)
(* which versions of a key the client can hold (KeyBounds).                *)
(***************************************************************************)
EXTENDS MainWindow, SequenceTheorems, TLAPS

Points == {"idle", "inbox", "sent", "reading", "keys", "posting", "posted", "asking",
           "deleting", "pinning"}
Ops    == {"none", "load", "send", "forward", "chat", "delete", "accept"}
Kinds  == {"reload", "populate", "open", "sent", "warn", "clear"}

Threads ==
  {t \in [at : Points, op : Ops, peer : Peers \cup {NoPeer}, batch : SUBSET Messages,
          inbox : SUBSET Messages, sent : SUBSET Messages, todo : SUBSET Messages,
          flagged : SUBSET Messages, key : Nat, changed : BOOLEAN] :
     t.op \in {"send", "forward", "chat", "accept"} => t.peer \in Peers}

Events ==
  {e \in [kind : Kinds, peer : Peers \cup {NoPeer}, batch : SUBSET Messages,
          inbox : SUBSET Messages, sent : SUBSET Messages, flagged : SUBSET Messages] :
     e.kind \in {"sent", "open", "warn", "clear"} => e.peer \in Peers}

Chat == [there : BOOLEAN, listed : [Messages -> Nat], warned : BOOLEAN]

KeysOK == pin \in [Peers -> Nat] /\ peerKey \in [Peers -> Nat]

ThreadsOK == worker \in [Workers -> Threads] /\ queue \in Seq(Events)

ChatsOK ==
  /\ conversations \in [Peers -> Chat]
  /\ activePeer \in Peers \cup {NoPeer}
  /\ dialog \in Peers \cup {NoPeer}

Shapes == KeysOK /\ ThreadsOK /\ ChatsOK

LEMMA IdleThread == Idle \in Threads
  BY DEF Idle, Threads, Points, Ops

LEMMA PlainEvent == Event \in Events
  BY DEF Event, Events, Kinds

LEMMA WithPeer == ASSUME NEW m \in Messages PROVE With[m] \in Peers
  BY MessagesAssumption

\* A step in which thread w gets a new value and some events are left.
LEMMA OneThread ==
  ASSUME ThreadsOK, NEW w \in Workers, NEW t \in Threads, NEW events \in Seq(Events),
         worker' = [worker EXCEPT ![w] = t],
         queue' = queue \/ queue' = queue \o events
  PROVE  ThreadsOK'
<1>1. worker' \in [Workers -> Threads]
  BY DEF ThreadsOK
<1>2. queue' \in Seq(Events)
  BY ConcatProperties DEF ThreadsOK
<1> QED
  BY <1>1, <1>2 DEF ThreadsOK

LEMMA KeysStep == KeysOK /\ [Next]_vars => KeysOK'
<1> SUFFICES ASSUME KeysOK, [Next]_vars PROVE KeysOK'
  OBVIOUS
<1>1. ASSUME NEW p \in Peers, FetchAndPin(p), UNCHANGED peerKey PROVE KeysOK'
  BY <1>1 DEF FetchAndPin, Used, KeysOK
<1>2. ASSUME NEW w \in Workers, NEW m \in Messages, Read(w, m) PROVE KeysOK'
  BY <1>1, <1>2, WithPeer DEF Read, remote
<1>3. ASSUME NEW w \in Workers, SendKeys(w) PROVE KeysOK'
  BY <1>3 DEF SendKeys, FetchAndPin, Used, KeysOK, remote
<1>4. ASSUME NEW w \in Workers, Accept(w) PROVE KeysOK'
  BY <1>4 DEF Accept, KeysOK, remote
<1>5. ASSUME NEW p \in Peers, RotateKey(p) PROVE KeysOK'
  BY <1>5 DEF RotateKey, KeysOK
<1>6. CASE UNCHANGED <<pin, peerKey>>
  BY <1>6 DEF KeysOK
<1> QED
  BY <1>2, <1>3, <1>4, <1>5, <1>6
  DEF Next, LoadStep, SendStep, OtherStep, Handle, User, Peer, vars, remote, view,
      StartLoad, FetchInbox, FetchSent, ReadFails, FinishLoad, LoadFails, Post, Posts,
      PostUnanswered, SendFails, SendAnswered, ForwardAnswered, FindPeer, Delete,
      DeleteFails, AskingFails, Populate, NewChat, ShowSent, Warn, ClearWarning, Reload,
      StartSend, StartForward, StartDelete, OpenChat, StartNewChat, ShowDetails, Reject,
      StartAccept, Arrive, PeerDeletes

\* A thread that starts, or comes to its end.
LEMMA Started ==
  ASSUME ThreadsOK, NEW w \in Workers, NEW op \in Ops, NEW point \in Points,
         NEW p \in Peers \cup {NoPeer}, NEW batch \in SUBSET Messages,
         op \in {"send", "forward", "chat", "accept"} => p \in Peers,
         Starts(w, op, point, p, batch), UNCHANGED queue
  PROVE  ThreadsOK'
<1>1. [Idle EXCEPT !.op = op, !.at = point, !.peer = p, !.batch = batch] \in Threads
  BY IdleThread DEF Idle, Threads
<1> QED
  BY <1>1 DEF Starts, ThreadsOK

LEMMA Ended ==
  ASSUME ThreadsOK, NEW w \in Workers, NEW events \in Seq(Events), Ends(w),
         queue' = queue \/ After(events)
  PROVE  ThreadsOK'
  BY IdleThread, OneThread DEF Ends, After

\* A thread that goes on, without leaving an event.
LEMMA GoesOn ==
  ASSUME ThreadsOK, NEW w \in Workers, NEW t \in Threads,
         worker' = [worker EXCEPT ![w] = t], UNCHANGED queue
  PROVE  ThreadsOK'
  BY DEF ThreadsOK

LEMMA LoadThreads ==
  ASSUME Shapes, NEW w \in Workers, StartLoad(w) \/ LoadStep(w)
  PROVE  ThreadsOK'
<1>0. ThreadsOK /\ KeysOK /\ worker[w] \in Threads /\ << >> \in Seq(Events)
  BY DEF Shapes, ThreadsOK
<1>1. CASE StartLoad(w)
  BY <1>0, <1>1, Started DEF StartLoad, Ops, Points
<1>2. CASE FetchInbox(w)
  <2>1. [worker[w] EXCEPT !.at = "sent", !.inbox = Listed(Incoming)] \in Threads
    BY <1>0 DEF Threads, Listed, Messages, Points
  <2> QED
    BY <1>0, <1>2, <2>1, GoesOn DEF FetchInbox
<1>3. CASE FetchSent(w)
  <2> DEFINE t == [worker[w] EXCEPT !.at = "reading", !.sent = Listed(Outgoing),
                                    !.todo = worker[w].inbox \cup Listed(Outgoing)]
  <2>1. t \in Threads
    BY <1>0 DEF Threads, Listed, Messages, Points
  <2>2. worker' = [worker EXCEPT ![w] = t] /\ UNCHANGED queue
    BY <1>0, <1>3 DEF FetchSent, ThreadsOK
  <2> HIDE DEF t
  <2> QED
    BY <1>0, <2>1, <2>2, GoesOn
<1>4. ASSUME NEW m \in Messages, Read(w, m) PROVE ThreadsOK'
  <2>1. PICK batch \in Batches(w) :
          worker' = [worker EXCEPT
            ![w].todo = @ \ batch,
            ![w].flagged = @ \cup IF Changed(With[m])
                                    THEN {n \in batch : Opens(n, Used(With[m]))} \cap Incoming
                                    ELSE {}]
    BY <1>4 DEF Read
  <2> DEFINE t == [worker[w] EXCEPT
                     !.todo = @ \ batch,
                     !.flagged = @ \cup IF Changed(With[m])
                                          THEN {n \in batch : Opens(n, Used(With[m]))} \cap Incoming
                                          ELSE {}]
  <2>2. t \in Threads
    BY <1>0 DEF Threads, Messages
  <2>3. worker' = [worker EXCEPT ![w] = t] /\ UNCHANGED queue
    BY <1>0, <1>4, <2>1 DEF Read, ThreadsOK
  <2> HIDE DEF t
  <2> QED
    BY <1>0, <2>2, <2>3, GoesOn
<1>5. CASE ReadFails(w)
  <2>1. PICK batch \in Batches(w) : worker' = [worker EXCEPT ![w].todo = @ \ batch]
    BY <1>5 DEF ReadFails
  <2>2. [worker[w] EXCEPT !.todo = @ \ batch] \in Threads
    BY <1>0 DEF Threads
  <2> QED
    BY <1>0, <1>5, <2>1, <2>2, GoesOn DEF ReadFails
<1>6. CASE FinishLoad(w)
  <2> DEFINE event == [Event EXCEPT !.kind = "populate", !.inbox = worker[w].inbox,
                                    !.sent = worker[w].sent, !.flagged = worker[w].flagged]
  <2>1. event \in Events
    BY <1>0 DEF Event, Events, Kinds, Threads
  <2>2. Ends(w) /\ After(<<event>>)
    BY <1>6 DEF FinishLoad
  <2> HIDE DEF event
  <2>3. <<event>> \in Seq(Events)
    BY <2>1
  <2> QED
    BY <1>0, <2>2, <2>3, Ended
<1>7. CASE LoadFails(w)
  BY <1>0, <1>7, Ended DEF LoadFails
<1> QED
  BY <1>1, <1>2, <1>3, <1>4, <1>5, <1>6, <1>7 DEF LoadStep

LEMMA WarningEvents ==
  ASSUME NEW w \in Workers, worker[w] \in Threads, worker[w].op \in {"send", "forward"}
  PROVE  Warning(w) \in Seq(Events)
<1>1. [Event EXCEPT !.kind = "warn", !.peer = worker[w].peer] \in Events
  BY DEF Event, Events, Kinds, Threads
<1> QED
  BY <1>1 DEF Warning

LEMMA SendThreads ==
  ASSUME Shapes, NEW w \in Workers,
         \/ SendStep(w)
         \/ \E m \in Outgoing : StartSend(w, m) \/ StartForward(w, m)
  PROVE  ThreadsOK'
<1>0. ThreadsOK /\ KeysOK /\ worker[w] \in Threads /\ << >> \in Seq(Events)
  BY DEF Shapes, ThreadsOK
<1>1. ASSUME NEW m \in Outgoing, StartSend(w, m) PROVE ThreadsOK'
  BY <1>0, <1>1, WithPeer, Started DEF StartSend, Ops, Points, Messages
<1>2. ASSUME NEW m \in Outgoing, StartForward(w, m) PROVE ThreadsOK'
  BY <1>0, <1>2, WithPeer, Started DEF StartForward, Ops, Points, Messages
<1>3. CASE SendKeys(w)
  <2> DEFINE p == worker[w].peer
             t == [worker[w] EXCEPT !.at = "posting", !.key = Used(p), !.changed = Changed(p)]
  <2>1. p \in Peers
    BY <1>0, <1>3 DEF SendKeys, At, Threads
  <2>2. Used(p) \in Nat /\ Changed(p) \in BOOLEAN
    BY <1>0, <2>1 DEF Used, Changed, KeysOK
  <2>3. t \in Threads
    BY <1>0, <2>2 DEF Threads, Points
  <2>4. worker' = [worker EXCEPT ![w] = t] /\ UNCHANGED queue
    BY <1>0, <1>3 DEF SendKeys, ThreadsOK
  <2> HIDE DEF t
  <2> QED
    BY <1>0, <2>3, <2>4, GoesOn
<1>4. CASE Post(w)
  <2>1. [worker[w] EXCEPT !.at = "posted"] \in Threads
    BY <1>0 DEF Threads, Points
  <2> QED
    BY <1>0, <1>4, <2>1, GoesOn DEF Post, Goes
<1>5. CASE PostUnanswered(w) \/ SendFails(w)
  BY <1>0, <1>5, Ended DEF PostUnanswered, SendFails
<1>6. CASE SendAnswered(w)
  <2> DEFINE event == [Event EXCEPT !.kind = "sent", !.peer = worker[w].peer,
                                    !.batch = worker[w].batch]
  <2>1. event \in Events
    BY <1>0, <1>6 DEF SendAnswered, At, Event, Events, Kinds, Threads
  <2>2. Ends(w) /\ After(Warning(w) \o <<event>>)
    BY <1>6 DEF SendAnswered
  <2> HIDE DEF event
  <2>3. Warning(w) \in Seq(Events) /\ <<event>> \in Seq(Events)
    BY <1>0, <1>6, <2>1, WarningEvents DEF SendAnswered, At
  <2>4. Warning(w) \o <<event>> \in Seq(Events)
    BY <2>3, ConcatProperties
  <2> QED
    BY <1>0, <2>2, <2>4, Ended
<1>7. CASE ForwardAnswered(w)
  <2>1. Warning(w) \in Seq(Events) /\ <<Event>> \in Seq(Events)
    BY <1>0, <1>7, PlainEvent, WarningEvents DEF ForwardAnswered, At
  <2>2. Warning(w) \o <<Event>> \in Seq(Events)
    BY <2>1, ConcatProperties
  <2> QED
    BY <1>0, <1>7, <2>2, Ended DEF ForwardAnswered
<1> QED
  BY <1>1, <1>2, <1>3, <1>4, <1>5, <1>6, <1>7 DEF SendStep

LEMMA OtherThreads ==
  ASSUME Shapes, NEW w \in Workers,
         \/ OtherStep(w) \/ StartAccept(w)
         \/ \E m \in Outgoing : StartDelete(w, m)
         \/ \E p \in Peers : StartNewChat(w, p)
  PROVE  ThreadsOK'
<1>0. ThreadsOK /\ ChatsOK /\ worker[w] \in Threads /\ << >> \in Seq(Events)
  BY DEF Shapes, ThreadsOK
<1>1. CASE StartAccept(w)
  BY <1>0, <1>1, Started DEF StartAccept, Ops, Points, ChatsOK
<1>2. ASSUME NEW m \in Outgoing, StartDelete(w, m) PROVE ThreadsOK'
  BY <1>0, <1>2, Started DEF StartDelete, Ops, Points, ChatsOK, Messages
<1>3. ASSUME NEW p \in Peers, StartNewChat(w, p) PROVE ThreadsOK'
  BY <1>0, <1>3, Started DEF StartNewChat, Ops, Points
<1>4. ASSUME NEW name \in {"open", "clear"}, Ends(w), worker[w].op \in {"chat", "accept"},
             After(<<[Event EXCEPT !.kind = name, !.peer = worker[w].peer]>>)
      PROVE  ThreadsOK'
  <2> DEFINE event == [Event EXCEPT !.kind = name, !.peer = worker[w].peer]
  <2>1. event \in Events
    BY <1>0, <1>4 DEF Event, Events, Kinds, Threads
  <2>2. After(<<event>>)
    BY <1>4
  <2> HIDE DEF event
  <2>3. <<event>> \in Seq(Events)
    BY <2>1
  <2> QED
    BY <1>0, <1>4, <2>2, <2>3, Ended
<1>5. CASE FindPeer(w)
  BY <1>4, <1>5 DEF FindPeer, At
<1>6. CASE Accept(w)
  BY <1>4, <1>6 DEF Accept, At
<1>7. CASE Delete(w) \/ DeleteFails(w)
  <2>1. <<Event>> \in Seq(Events)
    BY PlainEvent
  <2> QED
    BY <1>0, <1>7, <2>1, Ended DEF Delete, DeleteFails
<1>8. CASE AskingFails(w)
  BY <1>0, <1>8, Ended DEF AskingFails
<1> QED
  BY <1>1, <1>2, <1>3, <1>5, <1>6, <1>7, <1>8 DEF OtherStep

LEMMA HandleThreads ==
  ASSUME Shapes, Handle
  PROVE  /\ ThreadsOK'
         /\ Head(queue) \in Events
<1>0. ThreadsOK
  BY DEF Shapes
<1>1. /\ queue # << >> /\ queue' = Tail(queue)
      /\ worker' = worker \/ Reload
  BY DEF Handle, Populate, NewChat, ShowSent, Warn, ClearWarning, Reload, Took
<1>2. queue' \in Seq(Events) /\ Head(queue) \in Events
  BY <1>0, <1>1, HeadTailProperties DEF ThreadsOK
<1>3. worker' \in [Workers -> Threads]
  <2>1. ASSUME NEW w \in Workers
        PROVE  [worker[w] EXCEPT !.op = "load", !.at = "inbox"] \in Threads
    BY <1>0, <2>1 DEF ThreadsOK, Threads, Ops, Points
  <2> QED
    BY <1>0, <1>1, <2>1 DEF Reload, ThreadsOK
<1> QED
  BY <1>2, <1>3 DEF ThreadsOK

LEMMA ThreadsStep == Shapes /\ [Next]_vars => ThreadsOK'
<1> SUFFICES ASSUME Shapes, [Next]_vars PROVE ThreadsOK'
  OBVIOUS
<1>1. CASE UNCHANGED <<worker, queue>>
  BY <1>1 DEF Shapes, ThreadsOK
<1> QED
  BY <1>1, LoadThreads, SendThreads, OtherThreads, HandleThreads
  DEF Next, User, Peer, vars, OpenChat, ShowDetails, Reject, Arrive, PeerDeletes, RotateKey

----------------------------------------------------------------------------
(* The view.                                                               *)

LEMMA ShellChat == NoChat \in Chat /\ \A warned \in BOOLEAN : Shell(warned) \in Chat
  BY DEF NoChat, Shell, Nothing, Chat

LEMMA RebuiltChats == ASSUME NEW event PROVE Chats(event) \in [Peers -> Chat]
  BY DEF Chats, Chat

LEMMA RestoredChats ==
  ASSUME Shapes, NEW event
  PROVE  Restored(Chats(event)) \in [Peers -> Chat]
  BY RebuiltChats, ShellChat DEF Restored, Shapes, ChatsOK, Chat

LEMMA EnteredChats ==
  ASSUME Shapes, NEW p \in Peers
  PROVE  Entered(p) \in [Peers -> Chat] /\ Entered(p)[p].there
  BY ShellChat DEF Entered, Shapes, ChatsOK, Shell

\* What the open chat needs.
Blank == activePeer = NoPeer => drawn = Nothing

Open == ActiveListed /\ ThreadCountMatches /\ Blank

\* Whatever is drawn agrees with the conversations.
LEMMA DrawnAgrees ==
  ASSUME NEW chats \in [Peers -> Chat], NEW p \in Peers, chats[p].there, Draw(chats, p),
         dialog' \in Peers \cup {NoPeer}
  PROVE  ChatsOK' /\ Open'
  BY NoPeerAssumption DEF Draw, ChatsOK, Open, ActiveListed, ThreadCountMatches, Blank

LEMMA ViewStep == Shapes /\ Open /\ [Next]_vars => ChatsOK' /\ Open'
<1> SUFFICES ASSUME Shapes, Open, [Next]_vars PROVE ChatsOK' /\ Open'
  OBVIOUS
<1>0. ChatsOK /\ ThreadsOK /\ ActiveListed /\ ThreadCountMatches /\ Blank
  BY DEF Shapes, Open
<1>1. CASE UNCHANGED <<conversations, activePeer, drawn>> /\ dialog' \in Peers \cup {NoPeer}
  BY <1>0, <1>1 DEF ChatsOK, Open, ActiveListed, ThreadCountMatches, Blank
<1>2. ASSUME NEW p \in Peers, OpenChat(p) PROVE ChatsOK' /\ Open'
  BY <1>0, <1>2, DrawnAgrees DEF OpenChat, ChatsOK
<1>3. ASSUME NEW w \in Workers, NEW m \in Outgoing, StartDelete(w, m)
      PROVE  ChatsOK' /\ Open'
  <2> DEFINE chats == [conversations EXCEPT ![activePeer].listed[m] = 0]
  <2>1. activePeer \in Peers
    BY <1>0, <1>3 DEF StartDelete, ChatsOK, Blank, Nothing, Messages
  <2>2. chats \in [Peers -> Chat] /\ chats[activePeer].there
    <3>1. conversations[activePeer] \in Chat /\ conversations[activePeer].there
      BY <1>0, <2>1, NoPeerAssumption DEF ChatsOK, ActiveListed
    <3> DEFINE chat == [conversations[activePeer] EXCEPT !.listed[m] = 0]
    <3>2. chat \in Chat /\ chat.there
      BY <3>1 DEF Chat, Messages
    <3>3. chats = [conversations EXCEPT ![activePeer] = chat]
      BY <1>0, <2>1 DEF ChatsOK
    <3> HIDE DEF chat, chats
    <3> QED
      BY <1>0, <2>1, <3>2, <3>3 DEF ChatsOK
  <2>3. Draw(chats, activePeer) /\ dialog' = dialog
    BY <1>3 DEF StartDelete
  <2> HIDE DEF chats
  <2> QED
    BY <1>0, <2>1, <2>2, <2>3, DrawnAgrees DEF ChatsOK
<1>4. CASE Populate
  <2> DEFINE chats == Restored(Chats(Head(queue)))
  <2>1. chats \in [Peers -> Chat]
    BY RestoredChats
  <2>2. activePeer # NoPeer => activePeer \in Peers /\ chats[activePeer].there
    BY <1>0, RebuiltChats, NoPeerAssumption DEF Restored, ChatsOK, ActiveListed, Shell
  <2>3. /\ IF activePeer # NoPeer /\ chats[activePeer].there /\ Outdated(chats)
             THEN Draw(chats, activePeer)
             ELSE conversations' = chats /\ UNCHANGED <<activePeer, drawn, banner>>
        /\ dialog' = dialog
    BY <1>4 DEF Populate
  <2> HIDE DEF chats
  <2>4. CASE activePeer # NoPeer /\ Outdated(chats)
    BY <1>0, <2>1, <2>2, <2>3, <2>4, DrawnAgrees DEF ChatsOK
  <2>5. CASE ~(activePeer # NoPeer /\ Outdated(chats))
    BY <1>0, <2>1, <2>2, <2>3, <2>5
    DEF ChatsOK, Open, ActiveListed, ThreadCountMatches, Blank, Outdated
  <2> QED
    BY <2>4, <2>5
<1>5. CASE Handle
  <2>0. Head(queue) \in Events
    BY <1>5, HandleThreads
  <2>1. CASE NewChat
    <3>1. Head(queue).peer \in Peers
      BY <2>0, <2>1 DEF NewChat, Took, Events
    <3> QED
      BY <1>0, <2>1, <3>1, EnteredChats, DrawnAgrees DEF NewChat, ChatsOK
  <2>2. CASE ShowSent
    <3> DEFINE p == Head(queue).peer
               chats == [Entered(p) EXCEPT ![p].listed =
                           [m \in Messages |-> @[m] + IF m \in Head(queue).batch THEN 1 ELSE 0]]
    <3>1. p \in Peers
      BY <2>0, <2>2 DEF ShowSent, Took, Events
    <3>2. Entered(p) \in [Peers -> Chat] /\ Entered(p)[p].there
      BY <3>1, EnteredChats
    <3>3. chats \in [Peers -> Chat] /\ chats[p].there
      BY <3>1, <3>2 DEF Chat
    <3>4. Draw(chats, p) /\ dialog' = dialog
      BY <2>2 DEF ShowSent
    <3> HIDE DEF chats
    <3> QED
      BY <1>0, <3>1, <3>3, <3>4, DrawnAgrees DEF ChatsOK
  <2>3. CASE Warn \/ ClearWarning
    <3>1. Head(queue).peer \in Peers
      BY <2>0, <2>3 DEF Warn, ClearWarning, Took, Events
    <3>2. PICK warned \in BOOLEAN :
            conversations' = [conversations EXCEPT ![Head(queue).peer].warned = warned]
      BY <1>0, <2>3, <3>1 DEF Warn, ClearWarning, ChatsOK, Chat
    <3>3. conversations' \in [Peers -> Chat]
      BY <1>0, <3>1, <3>2 DEF ChatsOK, Chat
    <3>4. \A p \in Peers : /\ conversations'[p].there = conversations[p].there
                           /\ conversations'[p].listed = conversations[p].listed
      BY <1>0, <3>1, <3>2 DEF ChatsOK, Chat
    <3>5. UNCHANGED <<activePeer, drawn, dialog>>
      BY <2>3 DEF Warn, ClearWarning
    <3> QED
      BY <1>0, <3>3, <3>4, <3>5
      DEF ChatsOK, Open, ActiveListed, ThreadCountMatches, Blank
  <2>4. CASE Reload
    BY <1>0, <1>1, <2>4 DEF Reload, view, ChatsOK
  <2> QED
    BY <1>4, <1>5, <2>1, <2>2, <2>3, <2>4 DEF Handle
<1>6. CASE Next /\ ~Handle /\ ~(\E p \in Peers : OpenChat(p))
             /\ ~(\E w \in Workers, m \in Outgoing : StartDelete(w, m))
  <2>1. UNCHANGED <<conversations, activePeer, drawn>> /\ dialog' \in {dialog, activePeer, NoPeer}
    BY <1>6
    DEF Next, LoadStep, SendStep, OtherStep, User, Peer, view, StartLoad, FetchInbox,
        FetchSent, Read, ReadFails, FinishLoad, LoadFails, SendKeys, Post, PostUnanswered,
        SendFails, SendAnswered, ForwardAnswered, FindPeer, Delete, DeleteFails, Accept,
        AskingFails, StartSend, StartForward, StartNewChat, ShowDetails, Reject,
        StartAccept, Arrive, PeerDeletes, RotateKey
  <2> QED
    BY <1>0, <1>1, <2>1 DEF ChatsOK
<1>7. CASE UNCHANGED vars
  BY <1>0, <1>1, <1>7 DEF vars, view, ChatsOK
<1> QED
  BY <1>2, <1>3, <1>5, <1>6, <1>7

LEMMA ViewInit == Init => Shapes /\ Open
<1> SUFFICES ASSUME Init PROVE Shapes /\ Open
  OBVIOUS
<1>1. KeysOK
  BY DEF Init, KeysOK
<1>2. ThreadsOK
  BY IdleThread DEF Init, ThreadsOK
<1>3. ChatsOK
  BY ShellChat DEF Init, ChatsOK
<1>4. Open
  BY DEF Init, Open, ActiveListed, ThreadCountMatches, Blank
<1> QED
  BY <1>1, <1>2, <1>3, <1>4 DEF Shapes

LEMMA ViewInvariant == Spec => [](Shapes /\ Open)
<1>1. (Shapes /\ Open) /\ [Next]_vars => (Shapes /\ Open)'
  BY KeysStep, ThreadsStep, ViewStep DEF Shapes
<1> QED
  BY <1>1, ViewInit, PTL DEF Spec

\* Sending, deleting and redrawing look the open chat up without a test: it has an
\* entry, whichever lists the loads bring.
THEOREM OpenChatIsListed == Spec => []ActiveListed
<1>1. Open => ActiveListed
  BY DEF Open
<1> QED
  BY <1>1, ViewInvariant, PTL

\* The message area has as many bubbles as the open chat has messages, although a
\* load draws it anew only when the numbers differ.
THEOREM ThreadIsDrawn == Spec => []ThreadCountMatches
<1>1. Open => ThreadCountMatches
  BY DEF Open
<1> QED
  BY <1>1, ViewInvariant, PTL

----------------------------------------------------------------------------
(* Versions of keys.                                                       *)

\* No thread uses a version that the peer has yet to publish, and one that sends or
\* forwards deals with its own peer's messages.
BatchOK(t) ==
  /\ \A m \in t.batch : t.key <= peerKey[With[m]]
  /\ t.op \in {"send", "forward"} => \A m \in t.batch : With[m] = t.peer

KeyBounds ==
  /\ sealed \in [Messages -> Nat] /\ \A m \in Messages : sealed[m] <= peerKey[With[m]]
  /\ peerKey \in [Peers -> Nat \ {0}] /\ pin \in [Peers -> Nat]
  /\ \A p \in Peers : pin[p] <= peerKey[p] /\ peerKey[p] <= MaxKeys[p]
  /\ \A w \in Workers : BatchOK(worker[w])

\* What a step makes of thread w: it has no message left, it goes on with the same
\* ones, or it starts with a message, which no other thread then has under way.
Resets(w) == worker'[w].batch = {}

Advances(w) ==
  /\ worker'[w].op = worker[w].op /\ worker'[w].peer = worker[w].peer
  /\ worker'[w].batch = worker[w].batch
  /\ \/ worker'[w].key = worker[w].key
     \/ SendKeys(w) /\ worker'[w].key = Used(worker[w].peer)
  /\ worker'[w].at = "posted" =>
       worker[w].at = "posted" \/ \A m \in worker[w].batch : mailbox'[m] # "unsent"

Begins(w, m) ==
  /\ worker'[w].batch = {m} /\ worker'[w].key = 0
  /\ worker'[w].op \in {"send", "forward"} =>
       /\ worker'[w].peer = With[m] /\ worker'[w].at = "keys"
       /\ mailbox[m] = "unsent" /\ ~Underway(m)
  /\ \A v \in Workers \ {w} : worker'[v] = worker[v]
  /\ UNCHANGED <<queue, peerKey>>

Moves(w) == Resets(w) \/ Advances(w) \/ \E m \in Outgoing : Begins(w, m)

LEMMA Unmoved == ASSUME NEW w, worker'[w] = worker[w] PROVE Moves(w)
  BY DEF Moves, Advances

LEMMA StartMoves ==
  ASSUME ThreadsOK, NEW w \in Workers, NEW m \in Outgoing, NEW op, NEW point, NEW p,
         Starts(w, op, point, p, {m}), UNCHANGED <<queue, peerKey>>,
         op \in {"send", "forward"} =>
           p = With[m] /\ point = "keys" /\ mailbox[m] = "unsent" /\ ~Underway(m)
  PROVE  Begins(w, m)
  BY DEF Starts, Begins, Idle, ThreadsOK

\* Every step moves threads in these ways only.
LEMMA ThreadMoves ==
  ASSUME Shapes, [Next]_vars, NEW v \in Workers
  PROVE  Moves(v)
<1>0. ThreadsOK /\ \A w \in Workers : worker[w] \in Threads
  BY DEF Shapes, ThreadsOK
<1>1. ASSUME NEW w \in Workers, Ends(w) PROVE Moves(v)
  <2>1. worker'[v] = worker[v] \/ worker'[v] = Idle
    BY <1>0, <1>1 DEF Ends, ThreadsOK
  <2>2. worker'[v] = Idle => Resets(v)
    BY DEF Resets, Idle
  <2> QED
    BY <2>1, <2>2, Unmoved DEF Moves
<1>2. ASSUME NEW w \in Workers, NEW op, NEW point, NEW p, Starts(w, op, point, p, {})
      PROVE  Moves(v)
  <2>1. worker'[v] = worker[v] \/ worker'[v].batch = {}
    BY <1>0, <1>2 DEF Starts, ThreadsOK, Idle
  <2> QED
    BY <2>1, Unmoved DEF Moves, Resets
<1>3. ASSUME NEW w \in Workers, NEW m \in Outgoing, Begins(w, m) PROVE Moves(v)
  BY <1>3, Unmoved DEF Begins, Moves
<1>4. ASSUME NEW w \in Workers, NEW t, worker' = [worker EXCEPT ![w] = t],
             t.op = worker[w].op, t.peer = worker[w].peer, t.batch = worker[w].batch,
             t.key = worker[w].key \/ (SendKeys(w) /\ t.key = Used(worker[w].peer)),
             t.at = "posted" => worker[w].at = "posted"
                                \/ \A m \in worker[w].batch : mailbox'[m] # "unsent"
      PROVE  Moves(v)
  <2>1. CASE v = w
    <3>1. worker'[v] = t
      BY <1>0, <1>4, <2>1 DEF ThreadsOK
    <3> QED
      BY <1>4, <2>1, <3>1 DEF Moves, Advances
  <2>2. CASE v # w
    BY <1>0, <1>4, <2>2, Unmoved DEF ThreadsOK
  <2> QED
    BY <2>1, <2>2
<1>5. ASSUME NEW w \in Workers, StartLoad(w) PROVE Moves(v)
  BY <1>2, <1>5 DEF StartLoad
<1>6. ASSUME NEW w \in Workers, FetchInbox(w) PROVE Moves(v)
  <2> DEFINE t == [worker[w] EXCEPT !.at = "sent", !.inbox = Listed(Incoming)]
  <2>1. /\ t.op = worker[w].op /\ t.peer = worker[w].peer /\ t.batch = worker[w].batch
        /\ t.key = worker[w].key /\ t.at # "posted"
    BY <1>0 DEF Threads
  <2>2. worker' = [worker EXCEPT ![w] = t]
    BY <1>0, <1>6 DEF FetchInbox, ThreadsOK
  <2> HIDE DEF t
  <2> QED
    BY <1>4, <2>1, <2>2
<1>7. ASSUME NEW w \in Workers, FetchSent(w) PROVE Moves(v)
  <2> DEFINE t == [worker[w] EXCEPT !.at = "reading", !.sent = Listed(Outgoing),
                                    !.todo = worker[w].inbox \cup Listed(Outgoing)]
  <2>1. /\ t.op = worker[w].op /\ t.peer = worker[w].peer /\ t.batch = worker[w].batch
        /\ t.key = worker[w].key /\ t.at # "posted"
    BY <1>0 DEF Threads
  <2>2. worker' = [worker EXCEPT ![w] = t]
    BY <1>0, <1>7 DEF FetchSent, ThreadsOK
  <2> HIDE DEF t
  <2> QED
    BY <1>4, <2>1, <2>2
<1>8. ASSUME NEW w \in Workers, NEW todo, NEW flagged,
             worker' = [worker EXCEPT ![w].todo = todo, ![w].flagged = flagged]
      PROVE  Moves(v)
  <2> DEFINE t == [worker[w] EXCEPT !.todo = todo, !.flagged = flagged]
  <2>1. /\ t.op = worker[w].op /\ t.peer = worker[w].peer /\ t.batch = worker[w].batch
        /\ t.key = worker[w].key /\ t.at = worker[w].at
    BY <1>0 DEF Threads
  <2>2. worker' = [worker EXCEPT ![w] = t]
    BY <1>0, <1>8 DEF ThreadsOK
  <2> HIDE DEF t
  <2> QED
    BY <1>4, <2>1, <2>2
<1>9. ASSUME NEW w \in Workers, NEW m \in Messages, Read(w, m) PROVE Moves(v)
  BY <1>8, <1>9 DEF Read
<1>10. ASSUME NEW w \in Workers, ReadFails(w) PROVE Moves(v)
  <2>1. PICK todo : worker' = [worker EXCEPT ![w].todo = todo]
    BY <1>10 DEF ReadFails
  <2> DEFINE t == [worker[w] EXCEPT !.todo = todo]
  <2>2. /\ t.op = worker[w].op /\ t.peer = worker[w].peer /\ t.batch = worker[w].batch
        /\ t.key = worker[w].key /\ t.at = worker[w].at
    BY <1>0 DEF Threads
  <2>3. worker' = [worker EXCEPT ![w] = t]
    BY <2>1
  <2> HIDE DEF t
  <2> QED
    BY <1>4, <2>2, <2>3
<1>11. ASSUME NEW w \in Workers, SendKeys(w) PROVE Moves(v)
  <2> DEFINE p == worker[w].peer
             t == [worker[w] EXCEPT !.at = "posting", !.key = Used(p), !.changed = Changed(p)]
  <2>1. /\ t.op = worker[w].op /\ t.peer = worker[w].peer /\ t.batch = worker[w].batch
        /\ t.key = Used(worker[w].peer) /\ t.at # "posted"
    BY <1>0 DEF Threads
  <2>2. worker' = [worker EXCEPT ![w] = t]
    BY <1>0, <1>11 DEF SendKeys, ThreadsOK
  <2> HIDE DEF t
  <2> QED
    BY <1>4, <1>11, <2>1, <2>2
<1>12. ASSUME NEW w \in Workers, Post(w) PROVE Moves(v)
  <2> DEFINE t == [worker[w] EXCEPT !.at = "posted"]
  <2>1. /\ t.op = worker[w].op /\ t.peer = worker[w].peer /\ t.batch = worker[w].batch
        /\ t.key = worker[w].key
    BY <1>0 DEF Threads
  <2>2. worker' = [worker EXCEPT ![w] = t]
    BY <1>12 DEF Post, Goes
  <2>3. \A m \in worker[w].batch : mailbox'[m] # "unsent"
    BY <1>0, <1>12 DEF Post, Posts, Threads
  <2> HIDE DEF t
  <2> QED
    BY <1>4, <2>1, <2>2, <2>3
<1>13. ASSUME NEW w \in Workers, NEW m \in Outgoing, StartSend(w, m) PROVE Moves(v)
  BY <1>0, <1>3, <1>13, StartMoves DEF StartSend, remote
<1>14. ASSUME NEW w \in Workers, NEW m \in Outgoing, StartForward(w, m) PROVE Moves(v)
  BY <1>0, <1>3, <1>14, StartMoves DEF StartForward, remote
<1>15. ASSUME NEW w \in Workers, NEW m \in Outgoing, StartDelete(w, m) PROVE Moves(v)
  BY <1>0, <1>3, <1>15, StartMoves DEF StartDelete, remote
<1>16. ASSUME NEW w \in Workers, NEW p \in Peers, StartNewChat(w, p) PROVE Moves(v)
  BY <1>2, <1>16 DEF StartNewChat
<1>17. ASSUME NEW w \in Workers, StartAccept(w) PROVE Moves(v)
  BY <1>2, <1>17 DEF StartAccept
<1>18. CASE Reload
  <2>1. worker'[v] = worker[v] \/ worker'[v].batch = {}
    BY <1>0, <1>18 DEF Reload, ThreadsOK, Idle
  <2> QED
    BY <2>1, Unmoved DEF Moves, Resets
<1>19. CASE UNCHANGED worker
  BY <1>19, Unmoved
<1>20. ASSUME NEW w \in Workers,
              \/ FinishLoad(w) \/ LoadFails(w) \/ PostUnanswered(w) \/ SendFails(w)
              \/ SendAnswered(w) \/ ForwardAnswered(w) \/ OtherStep(w)
       PROVE  Moves(v)
  BY <1>1, <1>20
  DEF FinishLoad, LoadFails, PostUnanswered, SendFails, SendAnswered, ForwardAnswered,
      OtherStep, FindPeer, Delete, DeleteFails, Accept, AskingFails
<1>21. CASE Handle
  BY <1>18, <1>19, <1>21
  DEF Handle, Populate, NewChat, ShowSent, Warn, ClearWarning
<1>22. CASE Peer
  BY <1>19, <1>22 DEF Peer, Arrive, PeerDeletes, RotateKey
<1>23. CASE User
  BY <1>13, <1>14, <1>15, <1>16, <1>17, <1>19, <1>23 DEF User, OpenChat, ShowDetails, Reject
<1>24. ASSUME NEW w \in Workers, LoadStep(w) \/ SendStep(w) PROVE Moves(v)
  BY <1>6, <1>7, <1>9, <1>10, <1>11, <1>12, <1>20, <1>24 DEF LoadStep, SendStep
<1> QED
  BY <1>5, <1>19, <1>20, <1>21, <1>22, <1>23, <1>24 DEF Next, vars

\* Published versions only grow.
LEMMA PublishedGrow ==
  ASSUME KeyBounds, [Next]_vars
  PROVE  /\ peerKey' \in [Peers -> Nat \ {0}]
         /\ \A p \in Peers : peerKey[p] <= peerKey'[p] /\ peerKey'[p] <= MaxKeys[p]
<1>1. ASSUME NEW p \in Peers, RotateKey(p)
      PROVE  /\ peerKey' \in [Peers -> Nat \ {0}]
             /\ \A q \in Peers : peerKey[q] <= peerKey'[q] /\ peerKey'[q] <= MaxKeys[q]
  <2>1. /\ peerKey' = [peerKey EXCEPT ![p] = peerKey[p] + 1]
        /\ peerKey[p] < MaxKeys[p]
    BY <1>1 DEF RotateKey
  <2>2. \A q \in Peers : /\ peerKey[q] \in Nat \ {0} /\ MaxKeys[q] \in Nat
                        /\ peerKey[q] <= MaxKeys[q]
    BY BoundsAssumption DEF KeyBounds
  <2>3. peerKey' \in [Peers -> Nat \ {0}]
    BY <2>1, <2>2 DEF KeyBounds
  <2>4. \A q \in Peers : peerKey'[q] = IF q = p THEN peerKey[q] + 1 ELSE peerKey[q]
    BY <2>1 DEF KeyBounds
  <2> QED
    BY <2>1, <2>2, <2>3, <2>4
<1>2. CASE UNCHANGED peerKey
  BY <1>2 DEF KeyBounds
<1> QED
  BY <1>1, <1>2
  DEF Next, LoadStep, SendStep, OtherStep, Handle, User, Peer, vars, remote, view,
      StartLoad, FetchInbox, FetchSent, Read, ReadFails, FinishLoad, LoadFails, SendKeys,
      Post, Posts, PostUnanswered, SendFails, SendAnswered, ForwardAnswered, FindPeer,
      Delete, DeleteFails, Accept, AskingFails, Populate, NewChat, ShowSent, Warn,
      ClearWarning, Reload, StartSend, StartForward, StartDelete, OpenChat, StartNewChat,
      ShowDetails, Reject, StartAccept, Arrive, PeerDeletes

LEMMA UsedIsPublished ==
  ASSUME KeyBounds, NEW p \in Peers
  PROVE  Used(p) \in Nat /\ Used(p) <= peerKey[p]
  BY DEF KeyBounds, Used

\* What is pinned has been published.
LEMMA PinnedArePublished ==
  ASSUME Shapes, KeyBounds, [Next]_vars
  PROVE  /\ pin' \in [Peers -> Nat]
         /\ \A p \in Peers : pin'[p] <= peerKey'[p]
<1> DEFINE Goal == /\ pin' \in [Peers -> Nat]
                   /\ \A p \in Peers : pin'[p] <= peerKey'[p]
<1>0. \A p \in Peers : /\ pin[p] \in Nat /\ peerKey[p] \in Nat /\ peerKey'[p] \in Nat
                       /\ pin[p] <= peerKey[p] /\ peerKey[p] <= peerKey'[p]
  BY PublishedGrow DEF KeyBounds
<1>1. CASE UNCHANGED pin
  BY <1>0, <1>1 DEF KeyBounds
<1>2. ASSUME NEW p \in Peers, FetchAndPin(p) PROVE Goal
  <2>1. pin' = [pin EXCEPT ![p] = Used(p)] /\ Used(p) \in Nat /\ Used(p) <= peerKey[p]
    BY <1>2, UsedIsPublished DEF FetchAndPin
  <2> QED
    BY <1>0, <2>1 DEF KeyBounds
<1>3. ASSUME NEW w \in Workers, NEW m \in Messages, Read(w, m) PROVE Goal
  BY <1>2, <1>3, WithPeer DEF Read
<1>4. ASSUME NEW w \in Workers, SendKeys(w) PROVE Goal
  <2>1. worker[w].peer \in Peers
    BY <1>4 DEF SendKeys, At, Shapes, ThreadsOK, Threads
  <2> QED
    BY <1>2, <1>4, <2>1 DEF SendKeys
<1>5. ASSUME NEW w \in Workers, Accept(w) PROVE Goal
  <2>1. worker[w].peer \in Peers
    BY <1>5 DEF Accept, At, Shapes, ThreadsOK, Threads
  <2>2. pin' = [pin EXCEPT ![worker[w].peer] = peerKey[worker[w].peer]]
    BY <1>5 DEF Accept
  <2> QED
    BY <1>0, <2>1, <2>2 DEF KeyBounds
<1> QED
  BY <1>1, <1>3, <1>4, <1>5
  DEF Next, LoadStep, SendStep, OtherStep, Handle, User, Peer, vars, remote, view,
      StartLoad, FetchInbox, FetchSent, ReadFails, FinishLoad, LoadFails, Post, Posts,
      PostUnanswered, SendFails, SendAnswered, ForwardAnswered, FindPeer, Delete,
      DeleteFails, AskingFails, Populate, NewChat, ShowSent, Warn, ClearWarning, Reload,
      StartSend, StartForward, StartDelete, OpenChat, StartNewChat, ShowDetails, Reject,
      StartAccept, Arrive, PeerDeletes, RotateKey

\* What a message is sealed with has been published.
LEMMA SealedArePublished ==
  ASSUME Shapes, KeyBounds, [Next]_vars
  PROVE  /\ sealed' \in [Messages -> Nat]
         /\ \A m \in Messages : sealed'[m] <= peerKey'[With[m]]
<1> DEFINE Goal == /\ sealed' \in [Messages -> Nat]
                   /\ \A m \in Messages : sealed'[m] <= peerKey'[With[m]]
<1>0. \A m \in Messages : /\ sealed[m] \in Nat /\ peerKey[With[m]] \in Nat
                          /\ peerKey'[With[m]] \in Nat
                          /\ sealed[m] <= peerKey[With[m]]
                          /\ peerKey[With[m]] <= peerKey'[With[m]]
  BY PublishedGrow, WithPeer DEF KeyBounds
<1>1. CASE UNCHANGED sealed
  BY <1>0, <1>1 DEF KeyBounds
<1>2. ASSUME NEW w \in Workers, Posts(w) PROVE Goal
  <2>1. worker[w].key \in Nat /\ \A m \in worker[w].batch : worker[w].key <= peerKey[With[m]]
    BY DEF Shapes, ThreadsOK, Threads, KeyBounds, BatchOK
  <2>2. sealed' = [m \in Messages |-> IF m \in worker[w].batch THEN worker[w].key ELSE sealed[m]]
    BY <1>2 DEF Posts
  <2> QED
    BY <1>0, <2>1, <2>2
<1>3. ASSUME NEW m \in Incoming, Arrive(m) PROVE Goal
  <2>1. sealed' = [sealed EXCEPT ![m] = peerKey[With[m]]] /\ m \in Messages
    BY <1>3 DEF Arrive, Messages
  <2> QED
    BY <1>0, <2>1 DEF KeyBounds
<1>4. ASSUME NEW w \in Workers, Post(w) \/ PostUnanswered(w) PROVE Goal
  BY <1>2, <1>4 DEF Post, PostUnanswered
<1> QED
  BY <1>1, <1>3, <1>4
  DEF Next, LoadStep, SendStep, OtherStep, Handle, User, Peer, vars, remote, view,
      StartLoad, FetchInbox, FetchSent, Read, ReadFails, FinishLoad, LoadFails, SendKeys,
      SendFails, SendAnswered, ForwardAnswered, FindPeer, Delete, DeleteFails, Accept,
      AskingFails, Populate, NewChat, ShowSent, Warn, ClearWarning, Reload, StartSend,
      StartForward, StartDelete, OpenChat, StartNewChat, ShowDetails, Reject,
      StartAccept, PeerDeletes, RotateKey

LEMMA KeyBoundsStep == Shapes /\ KeyBounds /\ [Next]_vars => KeyBounds'
<1> SUFFICES ASSUME Shapes, KeyBounds, [Next]_vars PROVE KeyBounds'
  OBVIOUS
<1>0. \A p \in Peers : /\ peerKey[p] \in Nat /\ peerKey'[p] \in Nat
                       /\ peerKey[p] <= peerKey'[p]
  BY PublishedGrow DEF KeyBounds
<1>1. ASSUME NEW w \in Workers PROVE BatchOK(worker[w])'
  <2>0. /\ BatchOK(worker[w]) /\ worker[w].batch \subseteq Messages
        /\ worker[w].key \in Nat
    BY DEF KeyBounds, Shapes, ThreadsOK, Threads
  <2>1. CASE Resets(w)
    BY <2>1 DEF Resets, BatchOK
  <2>2. CASE Advances(w)
    <3>1. \A m \in worker[w].batch : worker'[w].key <= peerKey'[With[m]]
      <4> SUFFICES ASSUME NEW m \in worker[w].batch PROVE worker'[w].key <= peerKey'[With[m]]
        OBVIOUS
      <4>1. With[m] \in Peers /\ worker[w].key <= peerKey[With[m]]
        BY <2>0, WithPeer DEF BatchOK
      <4>2. CASE worker'[w].key = worker[w].key
        BY <1>0, <2>0, <4>1, <4>2
      <4>3. CASE SendKeys(w) /\ worker'[w].key = Used(worker[w].peer)
        <5>1. With[m] = worker[w].peer
          BY <2>0, <4>3 DEF SendKeys, At, BatchOK
        <5>2. Used(With[m]) \in Nat /\ Used(With[m]) <= peerKey[With[m]]
          BY <4>1, UsedIsPublished
        <5> QED
          BY <1>0, <4>1, <4>3, <5>1, <5>2
      <4> QED
        BY <2>2, <4>2, <4>3 DEF Advances
    <3> QED
      BY <2>0, <2>2, <3>1 DEF Advances, BatchOK
  <2>3. ASSUME NEW m \in Outgoing, Begins(w, m) PROVE BatchOK(worker[w])'
    <3>1. With[m] \in Peers
      BY WithPeer DEF Messages
    <3>2. 0 <= peerKey'[With[m]]
      BY <1>0, <3>1
    <3> QED
      BY <2>3, <3>2 DEF Begins, BatchOK
  <2> QED
    BY <2>1, <2>2, <2>3, ThreadMoves DEF Moves
<1>2. \A w \in Workers : BatchOK(worker[w])'
  BY <1>1
<1> QED
  BY <1>2, PublishedGrow, PinnedArePublished, SealedArePublished DEF KeyBounds

LEMMA KeyBoundsInit == Init => KeyBounds
  BY BoundsAssumption, WithPeer DEF Init, KeyBounds, BatchOK, Idle

----------------------------------------------------------------------------
(* Every message is shown as sent once.                                    *)

Sends(w, m)     == worker[w].op \in {"send", "forward"} /\ m \in worker[w].batch
Announces(i, m) == queue[i].kind = "sent" /\ m \in queue[i].batch

\* A message has one thread that sends it, or one event that says so, never both, and
\* from the moment it is posted no other can start.
Once ==
  \A m \in Messages :
    /\ \A v, w \in Workers : Sends(v, m) /\ Sends(w, m) => v = w
    /\ \A i, j \in 1 .. Len(queue) : Announces(i, m) /\ Announces(j, m) => i = j
    /\ \A w \in Workers, i \in 1 .. Len(queue) : ~(Sends(w, m) /\ Announces(i, m))
    /\ \A w \in Workers : Sends(w, m) /\ worker[w].at = "posted" => mailbox[m] # "unsent"
    /\ \A i \in 1 .. Len(queue) : Announces(i, m) => mailbox[m] # "unsent"

Delivery == {"unsent", "listed", "deleted"}

PlainOK ==
  /\ mailbox \in [Messages -> Delivery]
  /\ cache \subseteq Messages /\ faults \in 0 .. MaxFaults /\ banner \in BOOLEAN

\* A message that was sent stays sent, or is deleted.
LEMMA SentStays ==
  ASSUME mailbox \in [Messages -> Delivery], [Next]_vars
  PROVE  /\ mailbox' \in [Messages -> Delivery]
         /\ \A m \in Messages : mailbox[m] # "unsent" => mailbox'[m] # "unsent"
<1> DEFINE Goal == /\ mailbox' \in [Messages -> Delivery]
                   /\ \A m \in Messages : mailbox[m] # "unsent" => mailbox'[m] # "unsent"
<1>1. CASE UNCHANGED mailbox
  BY <1>1
<1>2. ASSUME NEW w \in Workers, Post(w) \/ PostUnanswered(w) PROVE Goal
  BY <1>2 DEF Post, PostUnanswered, Posts, Delivery
<1>3. ASSUME NEW w \in Workers, Delete(w) PROVE Goal
  BY <1>3 DEF Delete, Delivery
<1>4. ASSUME NEW m \in Incoming, Arrive(m) \/ PeerDeletes(m) PROVE Goal
  BY <1>4 DEF Arrive, PeerDeletes, Delivery
<1> QED
  BY <1>1, <1>2, <1>3, <1>4
  DEF Next, LoadStep, SendStep, OtherStep, Handle, User, Peer, vars, remote, view,
      StartLoad, FetchInbox, FetchSent, Read, ReadFails, FinishLoad, LoadFails, SendKeys,
      SendFails, SendAnswered, ForwardAnswered, FindPeer, DeleteFails, Accept,
      AskingFails, Populate, NewChat, ShowSent, Warn, ClearWarning, Reload, StartSend,
      StartForward, StartDelete, OpenChat, StartNewChat, ShowDetails, Reject,
      StartAccept, RotateKey

\* The announcements in the queue are those that were there, one place further on when
\* an event was taken.
Shifted(d) ==
  \A i \in 1 .. Len(queue') :
    queue'[i].kind = "sent" => i + d \in 1 .. Len(queue) /\ queue'[i] = queue[i + d]

LEMMA Appended ==
  ASSUME ThreadsOK, NEW events \in Seq(Events), After(events),
         \A j \in 1 .. Len(events) : events[j].kind # "sent"
  PROVE  Shifted(0)
<1>1. /\ Len(queue) \in Nat /\ Len(events) \in Nat
      /\ Len(queue') = Len(queue) + Len(events)
      /\ \A i \in 1 .. Len(queue) + Len(events) :
           queue'[i] = IF i <= Len(queue) THEN queue[i] ELSE events[i - Len(queue)]
  BY ConcatProperties, LenProperties DEF ThreadsOK, After
<1> SUFFICES ASSUME NEW i \in 1 .. Len(queue'), queue'[i].kind = "sent"
             PROVE  i + 0 \in 1 .. Len(queue) /\ queue'[i] = queue[i + 0]
  BY DEF Shifted
<1>2. i \in Int /\ 1 <= i /\ i <= Len(queue) + Len(events)
  BY <1>1
<1>3. i <= Len(queue)
  <2> SUFFICES ASSUME ~(i <= Len(queue)) PROVE FALSE
    OBVIOUS
  <2>1. i - Len(queue) \in 1 .. Len(events) /\ queue'[i] = events[i - Len(queue)]
    BY <1>1, <1>2
  <2> QED
    BY <2>1
<1> QED
  BY <1>1, <1>2, <1>3

LEMMA Taken ==
  ASSUME ThreadsOK, queue # << >>, queue' = Tail(queue)
  PROVE  Shifted(1) /\ Len(queue) \in Nat \ {0}
<1>1. /\ Len(queue) \in Nat \ {0} /\ Len(queue') = Len(queue) - 1
      /\ \A i \in 1 .. Len(queue') : queue'[i] = queue[i + 1]
  BY HeadTailProperties, EmptySeq DEF ThreadsOK
<1> QED
  BY <1>1 DEF Shifted

LEMMA WarningIsNone ==
  ASSUME NEW w, NEW j \in 1 .. Len(Warning(w))
  PROVE  Warning(w)[j].kind # "sent"
<1> DEFINE event == [Event EXCEPT !.kind = "warn", !.peer = worker[w].peer]
<1>1. event.kind = "warn"
  BY DEF Event
<1>2. Warning(w) = << >> \/ Warning(w) = <<event>>
  BY DEF Warning
<1> HIDE DEF event
<1>3. CASE Warning(w) = << >>
  BY <1>3
<1>4. CASE Warning(w) = <<event>>
  <2>1. j = 1
    BY <1>4
  <2> QED
    BY <1>1, <1>4, <2>1
<1> QED
  BY <1>2, <1>3, <1>4

\* Only an answered send announces.
LEMMA QueueMoves ==
  ASSUME Shapes, [Next]_vars
  PROVE  \/ Shifted(0)
         \/ Shifted(1)
         \/ \E w \in Workers : SendAnswered(w)
<1>0. ThreadsOK /\ \A w \in Workers : worker[w] \in Threads
  BY DEF Shapes, ThreadsOK
<1>1. CASE UNCHANGED queue
  <2>1. Len(queue) \in Nat
    BY <1>0, LenProperties DEF ThreadsOK
  <2> QED
    BY <1>1, <2>1 DEF Shifted
<1>2. CASE Handle
  <2>1. queue # << >> /\ queue' = Tail(queue)
    BY <1>2 DEF Handle, Populate, NewChat, ShowSent, Warn, ClearWarning, Reload, Took
  <2> QED
    BY <1>0, <2>1, Taken
<1>3. ASSUME NEW event \in Events, event.kind # "sent", After(<<event>>) PROVE Shifted(0)
  <2>1. <<event>> \in Seq(Events) /\ \A j \in 1 .. Len(<<event>>) : <<event>>[j].kind # "sent"
    BY <1>3
  <2> QED
    BY <1>0, <1>3, <2>1, Appended
<1>4. ASSUME NEW w \in Workers, FinishLoad(w) PROVE Shifted(0)
  <2> DEFINE event == [Event EXCEPT !.kind = "populate", !.inbox = worker[w].inbox,
                                    !.sent = worker[w].sent, !.flagged = worker[w].flagged]
  <2>1. event \in Events /\ event.kind # "sent"
    BY <1>0 DEF Event, Events, Kinds, Threads
  <2>2. After(<<event>>)
    BY <1>4 DEF FinishLoad
  <2> HIDE DEF event
  <2> QED
    BY <1>3, <2>1, <2>2
<1>5. ASSUME NEW w \in Workers, ForwardAnswered(w) PROVE Shifted(0)
  <2>1. Warning(w) \in Seq(Events) /\ <<Event>> \in Seq(Events)
    BY <1>0, <1>5, PlainEvent, WarningEvents DEF ForwardAnswered, At
  <2>2. \A j \in 1 .. Len(Warning(w)) : Warning(w)[j].kind # "sent"
    BY WarningIsNone
  <2>3. \A j \in 1 .. Len(<<Event>>) : <<Event>>[j].kind # "sent"
    BY DEF Event
  <2>4. /\ Warning(w) \o <<Event>> \in Seq(Events)
        /\ \A j \in 1 .. Len(Warning(w) \o <<Event>>) : (Warning(w) \o <<Event>>)[j].kind # "sent"
    BY <2>1, <2>2, <2>3, ConcatProperties, LenProperties
  <2>5. After(Warning(w) \o <<Event>>)
    BY <1>5 DEF ForwardAnswered
  <2> QED
    BY <1>0, <2>4, <2>5, Appended
<1>6. ASSUME NEW w \in Workers, NEW name \in {"open", "clear"},
             worker[w].op \in {"chat", "accept"},
             After(<<[Event EXCEPT !.kind = name, !.peer = worker[w].peer]>>)
      PROVE  Shifted(0)
  <2> DEFINE event == [Event EXCEPT !.kind = name, !.peer = worker[w].peer]
  <2>1. event \in Events /\ event.kind # "sent"
    BY <1>0, <1>6 DEF Event, Events, Kinds, Threads
  <2>2. After(<<event>>)
    BY <1>6
  <2> HIDE DEF event
  <2> QED
    BY <1>3, <2>1, <2>2
<1>7. ASSUME NEW w \in Workers, OtherStep(w) PROVE Shifted(0)
  <2>1. CASE FindPeer(w)
    BY <1>6, <2>1 DEF FindPeer, At
  <2>2. CASE Accept(w)
    BY <1>6, <2>2 DEF Accept, At
  <2>3. CASE Delete(w) \/ DeleteFails(w)
    <3>1. Event.kind # "sent" /\ After(<<Event>>)
      BY <2>3 DEF Delete, DeleteFails, Event
    <3> QED
      BY <1>3, <3>1, PlainEvent
  <2>4. CASE AskingFails(w)
    BY <1>0, <1>1, <2>4, LenProperties DEF AskingFails, Shifted, ThreadsOK
  <2> QED
    BY <1>7, <2>1, <2>2, <2>3, <2>4 DEF OtherStep
<1> QED
  BY <1>1, <1>2, <1>4, <1>5, <1>7
  DEF Next, LoadStep, SendStep, User, Peer, vars, StartLoad, FetchInbox, FetchSent, Read,
      ReadFails, LoadFails, SendKeys, Post, PostUnanswered, SendFails, StartSend,
      StartForward, StartDelete, OpenChat, StartNewChat, ShowDetails, Reject,
      StartAccept, Arrive, PeerDeletes, RotateKey

\* An answered send leaves one announcement, of its own message, at the end.
LEMMA Answered ==
  ASSUME Shapes, NEW w \in Workers, SendAnswered(w)
  PROVE  \A i \in 1 .. Len(queue') :
           queue'[i].kind = "sent" =>
             \/ i \in 1 .. Len(queue) /\ queue'[i] = queue[i]
             \/ i = Len(queue') /\ queue'[i].batch = worker[w].batch
<1> DEFINE event == [Event EXCEPT !.kind = "sent", !.peer = worker[w].peer,
                                  !.batch = worker[w].batch]
           events == Warning(w) \o <<event>>
<1>0. ThreadsOK /\ worker[w] \in Threads /\ worker[w].op = "send"
  BY DEF Shapes, ThreadsOK, SendAnswered, At
<1>1. event \in Events /\ event.batch = worker[w].batch
  BY <1>0 DEF Event, Events, Kinds, Threads
<1>2. queue' = queue \o events
  BY DEF SendAnswered, After
<1> HIDE DEF event
<1>3. Warning(w) \in Seq(Events) /\ <<event>> \in Seq(Events) /\ Len(Warning(w)) \in Nat
  BY <1>0, <1>1, WarningEvents, LenProperties
<1>4. /\ events \in Seq(Events) /\ Len(events) = Len(Warning(w)) + 1
      /\ \A j \in 1 .. Len(Warning(w)) + 1 :
           events[j] = IF j <= Len(Warning(w)) THEN Warning(w)[j] ELSE <<event>>[j - Len(Warning(w))]
  BY <1>3, ConcatProperties
<1>5. \A j \in 1 .. Len(events) : events[j].kind = "sent" => j = Len(events) /\ events[j] = event
  <2> SUFFICES ASSUME NEW j \in 1 .. Len(events), events[j].kind = "sent"
               PROVE  j = Len(events) /\ events[j] = event
    OBVIOUS
  <2>1. CASE j <= Len(Warning(w))
    BY <1>3, <1>4, <2>1, WarningIsNone
  <2>2. CASE ~(j <= Len(Warning(w)))
    BY <1>3, <1>4, <2>2
  <2> QED
    BY <2>1, <2>2
<1> HIDE DEF events
<1>6. /\ Len(queue) \in Nat /\ Len(events) \in Nat
      /\ Len(queue') = Len(queue) + Len(events)
      /\ \A i \in 1 .. Len(queue) + Len(events) :
           queue'[i] = IF i <= Len(queue) THEN queue[i] ELSE events[i - Len(queue)]
  BY <1>0, <1>2, <1>4, ConcatProperties, LenProperties DEF ThreadsOK
<1> SUFFICES ASSUME NEW i \in 1 .. Len(queue'), queue'[i].kind = "sent"
             PROVE  \/ i \in 1 .. Len(queue) /\ queue'[i] = queue[i]
                    \/ i = Len(queue') /\ queue'[i].batch = worker[w].batch
  OBVIOUS
<1>7. CASE i <= Len(queue)
  BY <1>6, <1>7
<1>8. CASE ~(i <= Len(queue))
  <2>1. i - Len(queue) \in 1 .. Len(events) /\ queue'[i] = events[i - Len(queue)]
    BY <1>6, <1>8
  <2>2. i - Len(queue) = Len(events) /\ queue'[i] = event
    BY <1>5, <2>1
  <2> QED
    BY <1>1, <1>6, <2>2
<1> QED
  BY <1>7, <1>8

\* Without a new sender, and with no announcement but those there were, everything
\* said of the messages stays.
LEMMA OnceKept ==
  ASSUME Once, NEW d \in {0, 1}, Len(queue) \in Nat, Len(queue') \in Nat, Shifted(d),
         \A m \in Messages : mailbox[m] # "unsent" => mailbox'[m] # "unsent",
         \A w \in Workers : Resets(w) \/ Advances(w)
  PROVE  Once'
<1> SUFFICES ASSUME NEW m \in Messages
             PROVE  (/\ \A v, w \in Workers : Sends(v, m) /\ Sends(w, m) => v = w
                     /\ \A i, j \in 1 .. Len(queue) : Announces(i, m) /\ Announces(j, m) => i = j
                     /\ \A w \in Workers, i \in 1 .. Len(queue) : ~(Sends(w, m) /\ Announces(i, m))
                     /\ \A w \in Workers : Sends(w, m) /\ worker[w].at = "posted" => mailbox[m] # "unsent"
                     /\ \A i \in 1 .. Len(queue) : Announces(i, m) => mailbox[m] # "unsent")'
  BY DEF Once
<1>1. \A w \in Workers : Sends(w, m)' =>
        /\ Sends(w, m)
        /\ worker'[w].at = "posted" => worker[w].at = "posted" \/ mailbox'[m] # "unsent"
  BY DEF Sends, Resets, Advances
<1>2. \A i \in 1 .. Len(queue') : Announces(i, m)' => i + d \in 1 .. Len(queue) /\ Announces(i + d, m)
  BY DEF Announces, Shifted
<1>3. \A v, w \in Workers : Sends(v, m)' /\ Sends(w, m)' => v = w
  BY <1>1 DEF Once
<1>4. \A i, j \in 1 .. Len(queue') : Announces(i, m)' /\ Announces(j, m)' => i = j
  <2> SUFFICES ASSUME NEW i \in 1 .. Len(queue'), NEW j \in 1 .. Len(queue'),
                      Announces(i, m)', Announces(j, m)'
               PROVE  i = j
    OBVIOUS
  <2>1. i + d = j + d
    BY <1>2 DEF Once
  <2> QED
    BY <2>1
<1>5. \A w \in Workers, i \in 1 .. Len(queue') : ~(Sends(w, m)' /\ Announces(i, m)')
  BY <1>1, <1>2 DEF Once
<1>6. \A w \in Workers : Sends(w, m)' /\ worker'[w].at = "posted" => mailbox'[m] # "unsent"
  BY <1>1 DEF Once
<1>7. \A i \in 1 .. Len(queue') : Announces(i, m)' => mailbox'[m] # "unsent"
  BY <1>2 DEF Once
<1> QED
  BY <1>3, <1>4, <1>5, <1>6, <1>7

LEMMA OnceBegins ==
  ASSUME Once, NEW w \in Workers, NEW m0 \in Outgoing, Begins(w, m0),
         \A m \in Messages : mailbox[m] # "unsent" => mailbox'[m] # "unsent"
  PROVE  Once'
<1> SUFFICES ASSUME NEW m \in Messages
             PROVE  (/\ \A v, u \in Workers : Sends(v, m) /\ Sends(u, m) => v = u
                     /\ \A i, j \in 1 .. Len(queue) : Announces(i, m) /\ Announces(j, m) => i = j
                     /\ \A v \in Workers, i \in 1 .. Len(queue) : ~(Sends(v, m) /\ Announces(i, m))
                     /\ \A v \in Workers : Sends(v, m) /\ worker[v].at = "posted" => mailbox[m] # "unsent"
                     /\ \A i \in 1 .. Len(queue) : Announces(i, m) => mailbox[m] # "unsent")'
  BY DEF Once
<1>1. queue' = queue /\ \A i : Announces(i, m)' <=> Announces(i, m)
  BY DEF Begins, Announces
<1>2. \A v \in Workers \ {w} : worker'[v] = worker[v] /\ (Sends(v, m)' <=> Sends(v, m))
  BY DEF Begins, Sends
<1>3. CASE Sends(w, m)'
  <2>1. m = m0 /\ mailbox[m] = "unsent" /\ ~Underway(m) /\ worker'[w].at = "keys"
    BY <1>3 DEF Sends, Begins
  <2>2. \A v \in Workers : ~Sends(v, m)
    BY <2>1 DEF Underway, Sends
  <2>3. \A i \in 1 .. Len(queue) : ~Announces(i, m)
    BY <2>1 DEF Once
  <2>4. \A v \in Workers : Sends(v, m)' => v = w
    BY <1>2, <2>2
  <2> QED
    BY <1>1, <2>1, <2>3, <2>4
<1>4. CASE ~Sends(w, m)'
  <2>1. \A v \in Workers : Sends(v, m)' => Sends(v, m) /\ worker'[v] = worker[v]
    BY <1>2, <1>4
  <2> QED
    BY <1>1, <2>1 DEF Once
<1> QED
  BY <1>3, <1>4

LEMMA OnceAnswered ==
  ASSUME Shapes, Once, NEW w \in Workers, SendAnswered(w), Len(queue) \in Nat
  PROVE  Once'
<1> SUFFICES ASSUME NEW m \in Messages
             PROVE  (/\ \A v, u \in Workers : Sends(v, m) /\ Sends(u, m) => v = u
                     /\ \A i, j \in 1 .. Len(queue) : Announces(i, m) /\ Announces(j, m) => i = j
                     /\ \A v \in Workers, i \in 1 .. Len(queue) : ~(Sends(v, m) /\ Announces(i, m))
                     /\ \A v \in Workers : Sends(v, m) /\ worker[v].at = "posted" => mailbox[m] # "unsent"
                     /\ \A i \in 1 .. Len(queue) : Announces(i, m) => mailbox[m] # "unsent")'
  BY DEF Once
<1>0. worker[w].op = "send" /\ worker[w].at = "posted" /\ mailbox' = mailbox
  BY DEF SendAnswered, At, remote
<1>1. ~Sends(w, m)' /\ \A v \in Workers : Sends(v, m)' => v # w /\ Sends(v, m) /\ worker'[v] = worker[v]
  BY DEF SendAnswered, Ends, Idle, Sends, Shapes, ThreadsOK
<1>2. \A i \in 1 .. Len(queue') : Announces(i, m)' =>
        \/ i \in 1 .. Len(queue) /\ Announces(i, m)
        \/ i = Len(queue') /\ Sends(w, m)
  BY <1>0, Answered DEF Announces, Sends
<1>3. CASE Sends(w, m)
  <2>1. /\ mailbox[m] # "unsent" /\ \A i \in 1 .. Len(queue) : ~Announces(i, m)
        /\ \A v \in Workers : Sends(v, m) => v = w
    BY <1>0, <1>3 DEF Once
  <2> QED
    BY <1>0, <1>1, <1>2, <2>1
<1>4. CASE ~Sends(w, m)
  <2>1. \A i \in 1 .. Len(queue') : Announces(i, m)' => i \in 1 .. Len(queue) /\ Announces(i, m)
    BY <1>2, <1>4
  <2> QED
    BY <1>0, <1>1, <2>1 DEF Once
<1> QED
  BY <1>3, <1>4

LEMMA OnceStep == Shapes /\ PlainOK /\ Once /\ [Next]_vars => Once'
<1> SUFFICES ASSUME Shapes, PlainOK, Once, [Next]_vars PROVE Once'
  OBVIOUS
<1>1. Len(queue) \in Nat /\ Len(queue') \in Nat
  BY ThreadsStep, LenProperties DEF Shapes, ThreadsOK
<1>2. \A m \in Messages : mailbox[m] # "unsent" => mailbox'[m] # "unsent"
  BY SentStays DEF PlainOK
<1>3. ASSUME NEW w \in Workers, NEW m \in Outgoing, Begins(w, m) PROVE Once'
  BY <1>2, <1>3, OnceBegins
<1>4. ASSUME \A w \in Workers : Resets(w) \/ Advances(w) PROVE Once'
  <2>1. ASSUME NEW w \in Workers, SendAnswered(w) PROVE Once'
    BY <1>1, <2>1, OnceAnswered
  <2>2. ASSUME NEW d \in {0, 1}, Shifted(d) PROVE Once'
    BY <1>1, <1>2, <1>4, <2>2, OnceKept
  <2> QED
    BY <2>1, <2>2, QueueMoves
<1> QED
  BY <1>3, <1>4, ThreadMoves DEF Moves

----------------------------------------------------------------------------
(* How often a message is listed and drawn.                                *)

Pending(m) == \/ \E w \in Workers : Sends(w, m)
              \/ \E i \in 1 .. Len(queue) : Announces(i, m)

\* Twice is possible only once nothing can add the message again: a load lists it
\* before the event of its sending is taken.
Tallies ==
  \A p \in Peers, m \in Messages :
    conversations[p].listed[m] <= IF mailbox[m] = "unsent" \/ Pending(m) THEN 1 ELSE 2

\* Nothing becomes pending that was neither pending nor unsent.
LEMMA PendingWas ==
  ASSUME Shapes, PlainOK, [Next]_vars, NEW m \in Messages,
         mailbox'[m] = "unsent" \/ Pending(m)'
  PROVE  mailbox[m] = "unsent" \/ Pending(m)
<1>1. CASE mailbox'[m] = "unsent"
  BY <1>1, SentStays DEF PlainOK
<1>2. ASSUME NEW w \in Workers, Sends(w, m)' PROVE mailbox[m] = "unsent" \/ Pending(m)
  <2>1. Moves(w)
    BY ThreadMoves
  <2>2. CASE Resets(w) \/ Advances(w)
    BY <1>2, <2>2 DEF Sends, Resets, Advances, Pending
  <2>3. ASSUME NEW m0 \in Outgoing, Begins(w, m0) PROVE mailbox[m] = "unsent"
    BY <1>2, <2>3 DEF Sends, Begins
  <2> QED
    BY <2>1, <2>2, <2>3 DEF Moves
<1>3. ASSUME NEW i \in 1 .. Len(queue'), Announces(i, m)' PROVE Pending(m)
  <2>1. ASSUME NEW d \in {0, 1}, Shifted(d) PROVE Pending(m)
    BY <1>3, <2>1 DEF Shifted, Announces, Pending
  <2>2. ASSUME NEW w \in Workers, SendAnswered(w) PROVE Pending(m)
    BY <1>3, <2>2, Answered DEF Announces, Pending, SendAnswered, At, Sends
  <2> QED
    BY <2>1, <2>2, QueueMoves
<1> QED
  BY <1>1, <1>2, <1>3 DEF Pending

\* What a step makes of the list of p: messages go, or are listed once, or the event
\* of their sending adds one.
Adds(p, m) == ShowSent /\ p = Head(queue).peer /\ m \in Head(queue).batch

ListMoves(p, m) ==
  \/ conversations'[p].listed[m] <= conversations[p].listed[m]
  \/ conversations'[p].listed[m] <= 1
  \/ Adds(p, m) /\ conversations'[p].listed[m] = conversations[p].listed[m] + 1

LEMMA RebuiltLists ==
  ASSUME Shapes, NEW event, NEW p \in Peers, NEW m \in Messages
  PROVE  Restored(Chats(event))[p].listed[m] <= 1
<1>1. Chats(event)[p].listed[m] <= 1
  BY DEF Chats
<1>2. Chats(event) \in [Peers -> Chat]
  BY RebuiltChats
<1>3. \A warned : Shell(warned).listed[m] <= 1
  BY DEF Shell, Nothing
<1> HIDE DEF Chats
<1> QED
  BY <1>1, <1>2, <1>3 DEF Restored

LEMMA EnteredLists ==
  ASSUME Shapes, NEW p \in Peers, NEW q \in Peers, NEW m \in Messages
  PROVE  Entered(p)[q].listed[m] = conversations[q].listed[m] \/ Entered(p)[q].listed[m] = 0
  BY DEF Entered, Shell, Nothing, Shapes, ChatsOK

LEMMA ViewMoves ==
  ASSUME Shapes, Open, [Next]_vars, NEW p \in Peers, NEW m \in Messages
  PROVE  ListMoves(p, m)
<1>0. /\ ChatsOK /\ ThreadsOK /\ ActiveListed /\ Blank
      /\ conversations[p].listed[m] \in Nat
  BY DEF Shapes, Open, ChatsOK, Chat
<1>1. CASE UNCHANGED conversations
  BY <1>0, <1>1 DEF ListMoves
<1>2. ASSUME NEW q \in Peers, OpenChat(q) PROVE ListMoves(p, m)
  BY <1>0, <1>2 DEF OpenChat, Draw, ListMoves
<1>3. ASSUME NEW w \in Workers, NEW n \in Outgoing, StartDelete(w, n)
      PROVE  ListMoves(p, m)
  <2> DEFINE chats == [conversations EXCEPT ![activePeer].listed[n] = 0]
  <2>1. activePeer \in Peers
    BY <1>0, <1>3 DEF StartDelete, ChatsOK, Blank, Nothing, Messages
  <2> DEFINE chat == [conversations[activePeer] EXCEPT !.listed[n] = 0]
  <2>2. conversations[activePeer] \in Chat
    BY <1>0, <2>1 DEF ChatsOK
  <2>3. /\ chat \in Chat
        /\ chat.listed[m] <= conversations[activePeer].listed[m]
    BY <2>2 DEF Chat, Messages
  <2>4. chats = [conversations EXCEPT ![activePeer] = chat]
    BY <1>0, <2>1 DEF ChatsOK
  <2>5. Draw(chats, activePeer)
    BY <1>3 DEF StartDelete
  <2> HIDE DEF chat, chats
  <2>6. chats \in [Peers -> Chat] /\ chats[p].listed[m] <= conversations[p].listed[m]
    BY <1>0, <2>1, <2>3, <2>4 DEF ChatsOK
  <2> QED
    BY <2>5, <2>6 DEF Draw, ListMoves
<1>4. CASE Populate
  <2> DEFINE chats == Restored(Chats(Head(queue)))
  <2>1. chats \in [Peers -> Chat] /\ chats[p].listed[m] <= 1
    BY RestoredChats, RebuiltLists
  <2>2. IF activePeer # NoPeer /\ chats[activePeer].there /\ Outdated(chats)
          THEN Draw(chats, activePeer)
          ELSE conversations' = chats /\ UNCHANGED <<activePeer, drawn, banner>>
    BY <1>4 DEF Populate
  <2> HIDE DEF chats
  <2>3. CASE activePeer # NoPeer /\ Draw(chats, activePeer)
    BY <1>0, <2>1, <2>3 DEF Draw, ListMoves, ChatsOK
  <2>4. CASE conversations' = chats /\ UNCHANGED <<activePeer, drawn, banner>>
    BY <1>0, <2>1, <2>4 DEF ListMoves
  <2> QED
    BY <2>2, <2>3, <2>4
<1>5. CASE Handle
  <2>0. Head(queue) \in Events
    BY <1>5, HandleThreads
  <2>1. CASE NewChat
    <3>1. Head(queue).peer \in Peers
      BY <2>0, <2>1 DEF NewChat, Took, Events
    <3>2. Draw(Entered(Head(queue).peer), Head(queue).peer)
      BY <2>1 DEF NewChat
    <3> QED
      BY <1>0, <3>1, <3>2, EnteredChats, EnteredLists DEF Draw, ListMoves
  <2>2. CASE ShowSent
    <3> DEFINE q == Head(queue).peer
               chats == [Entered(q) EXCEPT ![q].listed =
                           [n \in Messages |-> @[n] + IF n \in Head(queue).batch THEN 1 ELSE 0]]
    <3>1. q \in Peers
      BY <2>0, <2>2 DEF ShowSent, Took, Events
    <3>2. Entered(q) \in [Peers -> Chat]
      BY <3>1, EnteredChats
    <3>3. /\ chats \in [Peers -> Chat]
          /\ chats[p].listed[m] = Entered(q)[p].listed[m]
                                   + IF p = q /\ m \in Head(queue).batch THEN 1 ELSE 0
      BY <3>1, <3>2 DEF Chat
    <3>4. Draw(chats, q)
      BY <2>2 DEF ShowSent
    <3>5. \/ Entered(q)[p].listed[m] = conversations[p].listed[m]
          \/ Entered(q)[p].listed[m] = 0
      BY <3>1, EnteredLists
    <3> HIDE DEF chats
    <3>6. conversations' = chats
      BY <3>4 DEF Draw
    <3>7. CASE p = q /\ m \in Head(queue).batch
      BY <1>0, <2>2, <3>3, <3>5, <3>6, <3>7 DEF ListMoves, Adds
    <3>8. CASE ~(p = q /\ m \in Head(queue).batch)
      BY <1>0, <3>3, <3>5, <3>6, <3>8 DEF ListMoves
    <3> QED
      BY <3>7, <3>8
  <2>3. CASE Warn \/ ClearWarning
    <3>1. Head(queue).peer \in Peers
      BY <2>0, <2>3 DEF Warn, ClearWarning, Took, Events
    <3>2. PICK warned \in BOOLEAN :
            conversations' = [conversations EXCEPT ![Head(queue).peer].warned = warned]
      BY <1>0, <2>3, <3>1 DEF Warn, ClearWarning, ChatsOK, Chat
    <3>3. conversations'[p].listed = conversations[p].listed
      BY <1>0, <3>1, <3>2 DEF ChatsOK, Chat
    <3> QED
      BY <1>0, <3>3 DEF ListMoves
  <2>4. CASE Reload
    BY <1>0, <1>1, <2>4 DEF Reload, view
  <2> QED
    BY <1>4, <1>5, <2>1, <2>2, <2>3, <2>4 DEF Handle
<1>6. CASE Next /\ ~Handle /\ ~(\E q \in Peers : OpenChat(q))
             /\ ~(\E w \in Workers, n \in Outgoing : StartDelete(w, n))
  <2>1. UNCHANGED conversations
    BY <1>6
    DEF Next, LoadStep, SendStep, OtherStep, User, Peer, view, StartLoad, FetchInbox,
        FetchSent, Read, ReadFails, FinishLoad, LoadFails, SendKeys, Post, PostUnanswered,
        SendFails, SendAnswered, ForwardAnswered, FindPeer, Delete, DeleteFails, Accept,
        AskingFails, StartSend, StartForward, StartNewChat, ShowDetails, Reject,
        StartAccept, Arrive, PeerDeletes, RotateKey
  <2> QED
    BY <1>0, <1>1, <2>1
<1>7. CASE UNCHANGED vars
  BY <1>0, <1>1, <1>7 DEF vars, view
<1> QED
  BY <1>2, <1>3, <1>5, <1>6, <1>7

\* What is drawn is a list of the conversations, with its warning.
DrawnMoves ==
  /\ drawn' = drawn \/ \E p \in Peers : drawn' = conversations'[p].listed
  /\ banner' \in BOOLEAN

LEMMA DrawsMove ==
  ASSUME Shapes, Open, banner \in BOOLEAN, [Next]_vars
  PROVE  DrawnMoves
<1>0. ChatsOK /\ Blank /\ ChatsOK'
  BY ViewStep DEF Shapes, Open
<1>1. ASSUME NEW chats, NEW p \in Peers, Draw(chats, p) PROVE DrawnMoves
  BY <1>0, <1>1 DEF Draw, DrawnMoves, ChatsOK, Chat
<1>2. CASE drawn' = drawn /\ banner' \in {banner, FALSE}
  BY <1>2 DEF DrawnMoves
<1>3. ASSUME NEW p \in Peers, OpenChat(p) PROVE DrawnMoves
  BY <1>1, <1>3 DEF OpenChat
<1>4. ASSUME NEW w \in Workers, NEW m \in Outgoing, StartDelete(w, m) PROVE DrawnMoves
  <2>1. activePeer \in Peers
    BY <1>0, <1>4 DEF StartDelete, ChatsOK, Blank, Nothing, Messages
  <2> QED
    BY <1>1, <1>4, <2>1 DEF StartDelete
<1>5. CASE Handle
  <2>0. Head(queue) \in Events
    BY <1>5, HandleThreads
  <2>1. CASE NewChat \/ ShowSent
    <3>1. Head(queue).peer \in Peers
      BY <2>0, <2>1 DEF NewChat, ShowSent, Took, Events
    <3> QED
      BY <1>1, <2>1, <3>1 DEF NewChat, ShowSent
  <2>2. CASE Populate
    <3>1. activePeer # NoPeer => activePeer \in Peers
      BY <1>0 DEF ChatsOK
    <3> QED
      BY <1>1, <1>2, <2>2, <3>1 DEF Populate
  <2>3. CASE Warn \/ ClearWarning \/ Reload
    BY <1>2, <2>3 DEF Warn, ClearWarning, Reload, view
  <2> QED
    BY <1>5, <2>1, <2>2, <2>3 DEF Handle
<1>6. CASE Next /\ ~Handle /\ ~(\E p \in Peers : OpenChat(p))
             /\ ~(\E w \in Workers, m \in Outgoing : StartDelete(w, m))
  <2>1. UNCHANGED <<drawn, banner>>
    BY <1>6
    DEF Next, LoadStep, SendStep, OtherStep, User, Peer, view, StartLoad, FetchInbox,
        FetchSent, Read, ReadFails, FinishLoad, LoadFails, SendKeys, Post, PostUnanswered,
        SendFails, SendAnswered, ForwardAnswered, FindPeer, Delete, DeleteFails, Accept,
        AskingFails, StartSend, StartForward, StartNewChat, ShowDetails, Reject,
        StartAccept, Arrive, PeerDeletes, RotateKey
  <2> QED
    BY <1>2, <2>1
<1>7. CASE UNCHANGED vars
  BY <1>2, <1>7 DEF vars, view
<1> QED
  BY <1>3, <1>4, <1>5, <1>6, <1>7

\* The event of a sending is taken: nothing can add its messages any more.
LEMMA AddedLast ==
  ASSUME Shapes, PlainOK, Once, [Next]_vars, NEW p \in Peers, NEW m \in Messages, Adds(p, m)
  PROVE  /\ mailbox[m] = "unsent" \/ Pending(m)
         /\ ~(mailbox'[m] = "unsent" \/ Pending(m)')
<1>1. /\ queue # << >> /\ queue' = Tail(queue) /\ worker' = worker /\ mailbox' = mailbox
      /\ queue[1].kind = "sent" /\ m \in queue[1].batch
  BY DEF Adds, ShowSent, Took, remote, Shapes, ThreadsOK
<1>2. /\ Shifted(1) /\ Len(queue) \in Nat \ {0}
  BY <1>1, Taken DEF Shapes
<1>3. 1 \in 1 .. Len(queue) /\ Announces(1, m)
  BY <1>1, <1>2 DEF Announces
<1>4. mailbox'[m] # "unsent"
  BY <1>1, <1>3 DEF Once
<1>5. \A w \in Workers : ~Sends(w, m)'
  BY <1>1, <1>3 DEF Once, Sends
<1>6. \A i \in 1 .. Len(queue') : ~Announces(i, m)'
  <2> SUFFICES ASSUME NEW i \in 1 .. Len(queue'), Announces(i, m)' PROVE FALSE
    OBVIOUS
  <2>1. i + 1 \in 1 .. Len(queue) /\ Announces(i + 1, m)
    BY <1>2 DEF Shifted, Announces
  <2>2. i + 1 = 1
    BY <1>3, <2>1 DEF Once
  <2> QED
    BY <2>2
<1> QED
  BY <1>3, <1>4, <1>5, <1>6 DEF Pending

LEMMA TalliesStep ==
  Shapes /\ Open /\ PlainOK /\ Once /\ Tallies /\ [Next]_vars => Tallies'
<1> SUFFICES ASSUME Shapes, Open, PlainOK, Once, Tallies, [Next]_vars,
                    NEW p \in Peers, NEW m \in Messages
             PROVE  conversations'[p].listed[m]
                      <= IF mailbox'[m] = "unsent" \/ Pending(m)' THEN 1 ELSE 2
  BY DEF Tallies
<1> DEFINE may == mailbox[m] = "unsent" \/ Pending(m)
           still == mailbox'[m] = "unsent" \/ Pending(m)'
<1>1. /\ conversations[p].listed[m] \in Nat /\ conversations'[p].listed[m] \in Nat
      /\ conversations[p].listed[m] <= IF may THEN 1 ELSE 2
      /\ still => may
  BY ViewStep, PendingWas DEF Shapes, ChatsOK, Chat, Tallies
<1>2. CASE Adds(p, m) /\ conversations'[p].listed[m] = conversations[p].listed[m] + 1
  <2>1. may /\ ~still
    BY <1>2, AddedLast
  <2> HIDE DEF may, still
  <2> QED
    BY <1>1, <1>2, <2>1 DEF still
<1>3. CASE \/ conversations'[p].listed[m] <= conversations[p].listed[m]
           \/ conversations'[p].listed[m] <= 1
  <2> HIDE DEF may, still
  <2> QED
    BY <1>1, <1>3 DEF still
<1> QED
  BY <1>2, <1>3, ViewMoves DEF ListMoves

LEMMA PlainStep ==
  Shapes /\ Open /\ PlainOK /\ [Next]_vars => PlainOK'
<1> SUFFICES ASSUME Shapes, Open, PlainOK, [Next]_vars PROVE PlainOK'
  OBVIOUS
<1>1. mailbox' \in [Messages -> Delivery]
  BY SentStays DEF PlainOK
<1>2. banner' \in BOOLEAN
  BY DrawsMove DEF PlainOK, DrawnMoves
<1>3. faults' \in 0 .. MaxFaults
  <2>1. UNCHANGED faults \/ Fault
    BY DEF Next, LoadStep, SendStep, OtherStep, Handle, User, Peer, vars, StartLoad,
           FetchInbox, FetchSent, Read, ReadFails, FinishLoad, LoadFails, SendKeys, Post,
           PostUnanswered, SendFails, SendAnswered, ForwardAnswered, FindPeer, Delete,
           DeleteFails, Accept, AskingFails, Populate, NewChat, ShowSent, Warn,
           ClearWarning, Reload, StartSend, StartForward, StartDelete, OpenChat,
           StartNewChat, ShowDetails, Reject, StartAccept, Arrive, PeerDeletes, RotateKey
  <2> QED
    BY <2>1, BoundsAssumption DEF Fault, PlainOK
<1>4. cache' \subseteq Messages
  <2>0. \A w \in Workers : /\ worker[w].batch \subseteq Messages
                           /\ worker[w].todo \subseteq Messages
    BY DEF Shapes, ThreadsOK, Threads
  <2>1. ASSUME NEW w \in Workers, NEW m \in Messages, Read(w, m) PROVE cache' \subseteq Messages
    <3>1. PICK batch \in Batches(w) : cache' \subseteq cache \cup batch
      BY <2>1 DEF Read
    <3>2. batch \subseteq Messages
      BY <2>0 DEF Batches, Unread
    <3> QED
      BY <3>1, <3>2 DEF PlainOK
  <2>2. ASSUME NEW w \in Workers, SendAnswered(w) PROVE cache' \subseteq Messages
    BY <2>0, <2>2 DEF SendAnswered, PlainOK
  <2>3. ASSUME NEW w \in Workers, NEW m \in Outgoing, StartDelete(w, m)
        PROVE  cache' \subseteq Messages
    BY <2>3 DEF StartDelete, PlainOK
  <2>4. CASE UNCHANGED cache
    BY <2>4 DEF PlainOK
  <2> QED
    BY <2>1, <2>2, <2>3, <2>4
    DEF Next, LoadStep, SendStep, OtherStep, Handle, User, Peer, vars, StartLoad,
        FetchInbox, FetchSent, ReadFails, FinishLoad, LoadFails, SendKeys, Post,
        PostUnanswered, SendFails, ForwardAnswered, FindPeer, Delete, DeleteFails, Accept,
        AskingFails, Populate, NewChat, ShowSent, Warn, ClearWarning, Reload, StartSend,
        StartForward, OpenChat, StartNewChat, ShowDetails, Reject, StartAccept, Arrive,
        PeerDeletes, RotateKey
<1> QED
  BY <1>1, <1>2, <1>3, <1>4 DEF PlainOK

----------------------------------------------------------------------------
(* The types.                                                              *)

Typed ==
  /\ Shapes /\ Open /\ KeyBounds /\ PlainOK /\ Once /\ Tallies
  /\ drawn \in Counts

LEMMA TypedInit == Init => Typed
<1> SUFFICES ASSUME Init PROVE Typed
  OBVIOUS
<1>1. PlainOK
  <2>1. faults \in 0 .. MaxFaults
    BY BoundsAssumption DEF Init
  <2>2. mailbox \in [Messages -> Delivery] /\ cache \subseteq Messages /\ banner \in BOOLEAN
    BY DEF Init, Delivery
  <2> QED
    BY <2>1, <2>2 DEF PlainOK
<1>2. Once
  BY DEF Init, Once, Sends, Announces, Idle
<1>3. Tallies
  BY DEF Init, Tallies, NoChat, Nothing
<1>4. drawn \in Counts
  BY DEF Init, Nothing, Counts
<1> QED
  BY <1>1, <1>2, <1>3, <1>4, ViewInit, KeyBoundsInit DEF Typed

\* No list has a message more than twice.
LEMMA ListsBounded ==
  ASSUME ChatsOK, Tallies, NEW p \in Peers
  PROVE  conversations[p].listed \in Counts
<1>1. conversations[p].listed \in [Messages -> Nat]
  BY DEF ChatsOK, Chat
<1>2. \A m \in Messages : conversations[p].listed[m] \in 0 .. 2
  BY <1>1 DEF Tallies
<1> QED
  BY <1>1, <1>2 DEF Counts

LEMMA TypedStep == Typed /\ [Next]_vars => Typed'
<1> SUFFICES ASSUME Typed, [Next]_vars PROVE Typed'
  OBVIOUS
<1>1. Shapes /\ Open /\ KeyBounds /\ PlainOK /\ Once /\ Tallies /\ drawn \in Counts
  BY DEF Typed
<1>2. Shapes' /\ Open'
  BY <1>1, KeysStep, ThreadsStep, ViewStep DEF Shapes
<1>3. KeyBounds' /\ PlainOK' /\ Once' /\ Tallies'
  BY <1>1, KeyBoundsStep, PlainStep, OnceStep, TalliesStep
<1>4. drawn' \in Counts
  <2>1. CASE drawn' = drawn
    BY <1>1, <2>1 DEF Counts
  <2>2. ASSUME NEW p \in Peers, drawn' = conversations'[p].listed PROVE drawn' \in Counts
    <3>1. conversations'[p].listed \in [Messages -> Nat]
      BY <1>2 DEF Shapes, ChatsOK, Chat
    <3>2. \A m \in Messages : conversations'[p].listed[m] \in 0 .. 2
      BY <1>3, <3>1 DEF Tallies
    <3> QED
      BY <2>2, <3>1, <3>2 DEF Counts
  <2> QED
    BY <1>1, <2>1, <2>2, DrawsMove DEF DrawnMoves, PlainOK
<1> QED
  BY <1>2, <1>3, <1>4 DEF Typed

LEMMA TypedTypes == Typed => TypeOK
<1> SUFFICES ASSUME Typed PROVE TypeOK
  OBVIOUS
<1>1. Shapes /\ KeyBounds /\ PlainOK /\ Tallies /\ drawn \in Counts
  BY DEF Typed
<1>2. /\ mailbox \in [Messages -> {"unsent", "listed", "deleted"}]
      /\ sealed \in [Messages -> Nat] /\ \A m \in Messages : sealed[m] <= peerKey[With[m]]
      /\ peerKey \in [Peers -> Nat \ {0}] /\ pin \in [Peers -> Nat]
      /\ \A p \in Peers : pin[p] <= peerKey[p] /\ peerKey[p] <= MaxKeys[p]
      /\ cache \subseteq Messages /\ faults \in 0 .. MaxFaults /\ banner \in BOOLEAN
  BY <1>1 DEF KeyBounds, PlainOK, Delivery
<1>3. conversations \in [Peers -> [there : BOOLEAN, listed : Counts, warned : BOOLEAN]]
  <2>1. conversations \in [Peers -> Chat]
    BY <1>1 DEF Shapes, ChatsOK
  <2>2. \A p \in Peers : conversations[p].listed \in Counts
    BY <1>1, ListsBounded DEF Shapes
  <2>3. \A p \in Peers : conversations[p] \in [there : BOOLEAN, listed : Counts, warned : BOOLEAN]
    BY <2>1, <2>2 DEF Chat
  <2> QED
    BY <2>1, <2>3
<1>4. activePeer \in Peers \cup {NoPeer} /\ dialog \in Peers \cup {NoPeer}
  BY <1>1 DEF Shapes, ChatsOK
<1>5. \A w \in Workers :
        /\ worker[w].peer \in Peers \cup {NoPeer}
        /\ worker[w].batch \cup worker[w].todo \subseteq Messages
        /\ worker[w].key \in Nat
        /\ \A m \in worker[w].batch : worker[w].key <= peerKey[With[m]]
  BY <1>1 DEF Shapes, ThreadsOK, Threads, KeyBounds, BatchOK
<1> QED
  BY <1>1, <1>2, <1>3, <1>4, <1>5 DEF TypeOK

\* The variables of the window keep their types: no version of a key is pinned, used or
\* sealed with before its owner published it, and loads that overlap a sending list and
\* draw its message twice at most.
THEOREM TypeCorrect == Spec => []TypeOK
  BY TypedInit, TypedStep, TypedTypes, PTL DEF Spec
=============================================================================
