----------------------------- MODULE MainWindow -----------------------------
(***************************************************************************)
(* The main window of the client during one session: the thread of the      *)
(* user interface with its event queue (app.after), the worker threads that *)
(* load, send, forward, delete and accept keys, what the server lists       *)
(* meanwhile, and the keys that peers rotate and this client has pinned.    *)
(*                                                                         *)
(* Workers never touch the conversations: they put an event into the queue. *)
(* Conversations are rebuilt as a whole from what a load fetched, however   *)
(* old that is by then.                                                     *)
(*                                                                         *)
(* A peer's two keys are one version.  fetch_and_pin is one step after its   *)
(* request; ClientKeystore takes the keystore's steps apart, and shows that  *)
(* the replay check, left out here, hides nothing for good.                  *)
(*                                                                         *)
(* Operators named Faulty... are plausible slips in the code; each makes    *)
(* one of the properties below fail and none is part of Spec.              *)
(***************************************************************************)
EXTENDS MessageCrypto, FiniteSetsExt, Sequences

CONSTANTS
  Me,        (* this account                                                *)
  Peers,     (* the other accounts                                          *)
  NoPeer,    (* no chat is open                                             *)
  Incoming,  (* messages that peers may send                                *)
  Outgoing,  (* messages that the user may send                             *)
  With,      (* With[m]: the peer that message m is exchanged with          *)
  Workers,   (* threads                                                     *)
  MaxKeys,   (* MaxKeys[p]: bound on the keys that peer p has in turn         *)
  MaxQueue,  (* bound: no thread starts while as many events wait           *)
  MaxFaults  (* bound on requests that fail                                 *)

Messages == Incoming \cup Outgoing

ASSUME MessagesAssumption == Incoming \cap Outgoing = {} /\ With \in [Messages -> Peers]
ASSUME NoPeerAssumption   == NoPeer \notin Peers
ASSUME BoundsAssumption   == 
  /\ MaxKeys \in [Peers -> Nat \ {0}]
  /\ MaxFaults \in Nat /\ MaxQueue \in Nat \ {0}

VARIABLES
  mailbox,       (* mailbox[m]: is m not sent yet, listed by the server, or deleted *)
  sealed,        (* sealed[m]: the version of the peer's key m was sealed with      *)
  peerKey,       (* peerKey[p]: the version p has published                         *)
  pin,           (* pin[p]: the version this client has pinned, 0 for none          *)
  cache,         (* the messages whose plaintext the session has                    *)
  conversations, (* conversations[p]: the thread with p as the client keeps it      *)
  activePeer,    (* the peer whose chat is open                                     *)
  drawn,         (* the bubbles in the message area                                 *)
  banner,        (* is the key warning banner shown                                 *)
  dialog,        (* the peer whose key warning dialog is open                       *)
  queue,         (* the events that wait for the user interface                     *)
  worker,        (* worker[w]: what thread w is doing                               *)
  faults         (* requests that failed so far                                     *)

remote == <<mailbox, sealed, peerKey>>
view   == <<conversations, activePeer, drawn, banner, dialog>>
vars   == <<remote, pin, cache, view, queue, worker, faults>>

\* How often each message is listed, or drawn.
Counts  == [Messages -> 0 .. 2]
Nothing == [m \in Messages |-> 0]

Total(counts) == MapThenSumSet(LAMBDA m : counts[m], Messages)

\* there: has the peer an entry; listed: the messages of the entry; warned: its
\* key_warning.
NoChat == [there |-> FALSE, listed |-> Nothing, warned |-> FALSE]

Shell(warned) == [there |-> TRUE, listed |-> Nothing, warned |-> warned]

\* peer, batch: whom and which messages the thread deals with; inbox, sent: what it
\* fetched; todo: the messages it has not looked at; flagged: those it opened
\* although the peer's key had changed; key: the pinned version it uses; changed:
\* did the server's version differ from it.
Idle == [at |-> "idle", op |-> "none", peer |-> NoPeer, batch |-> {}, inbox |-> {},
         sent |-> {}, todo |-> {}, flagged |-> {}, key |-> 0, changed |-> FALSE]

Init ==
  /\ mailbox = [m \in Messages |-> "unsent"]
  /\ sealed = [m \in Messages |-> 0]
  /\ peerKey = [p \in Peers |-> 1]
  /\ pin = [p \in Peers |-> 0]
  /\ cache = {}
  /\ conversations = [p \in Peers |-> NoChat]
  /\ activePeer = NoPeer
  /\ drawn = Nothing
  /\ banner = FALSE
  /\ dialog = NoPeer
  /\ queue = <<>>
  /\ worker = [w \in Workers |-> Idle]
  /\ faults = 0

At(w, op, point) == worker[w].op = op /\ worker[w].at = point

Goes(w, point) == worker' = [worker EXCEPT ![w].at = point]
Ends(w)        == worker' = [worker EXCEPT ![w] = Idle]

Starts(w, op, point, peer, batch) ==
  /\ worker[w] = Idle
  /\ Len(queue) < MaxQueue
  /\ worker' = [worker EXCEPT ![w] = [Idle EXCEPT !.op = op, !.at = point,
                                                  !.peer = peer, !.batch = batch]]

Event == [kind |-> "reload", peer |-> NoPeer, batch |-> {}, inbox |-> {}, sent |-> {},
          flagged |-> {}]

Fault == faults < MaxFaults /\ faults' = faults + 1

\* app.after(0, ...).
After(events) == queue' = queue \o events

----------------------------------------------------------------------------
(* Keys (KeyService.fetch_and_pin) and what they open.                     *)

Account(a, version) == [id |-> a, x |-> <<"x25519", a, version>>,
                        ed |-> <<"ed25519", a, version>>]
Myself == Account(Me, 1)

\* What the server stores of message m, and whether it opens with a version.
Fields(m) ==
  LET peer == Account(With[m], sealed[m])
  IN  IF m \in Incoming THEN Seal(m, m, peer, Myself, 1) ELSE Seal(m, m, Myself, peer, 1)

\* The peer's signature is expected on sent messages, too.
FaultyOpens(m, version) ==
  Receive(Fields(m), Myself, Account(With[m], version), NoneSeen, FALSE) = "ok"

Opens(m, version) ==
  LET peer == Account(With[m], version)
  IN  IF m \in Incoming THEN Receive(Fields(m), Myself, peer, NoneSeen, FALSE) = "ok"
                        ELSE DecryptOwn(Fields(m), Myself, peer) = "ok"

\* The first key seen is pinned; from then on the pinned one is used.
Used(p) == IF pin[p] = 0 THEN peerKey[p] ELSE pin[p]

Changed(p) == Used(p) # peerKey[p]

FetchAndPin(p) == pin' = [pin EXCEPT ![p] = Used(p)]

----------------------------------------------------------------------------
(* MainFrame._load: started by the timer and by Refresh.                   *)

StartLoad(w) ==
  /\ Starts(w, "load", "inbox", NoPeer, {})
  /\ UNCHANGED <<remote, pin, cache, view, queue, faults>>

Listed(box) == {m \in box : mailbox[m] = "listed"}

FetchInbox(w) ==
  /\ At(w, "load", "inbox")
  /\ worker' = [worker EXCEPT ![w].at = "sent", ![w].inbox = Listed(Incoming)]
  /\ UNCHANGED <<remote, pin, cache, view, queue, faults>>

FetchSent(w) ==
  /\ At(w, "load", "sent")
  /\ worker' = [worker EXCEPT ![w].at = "reading", ![w].sent = Listed(Outgoing),
                              ![w].todo = worker[w].inbox \cup Listed(Outgoing)]
  /\ UNCHANGED <<remote, pin, cache, view, queue, faults>>

\* The messages that the cache does not hold by now: those received one by one
\* (_decrypt_inbox), then those sent, by recipient (_decrypt_sent).
Unread(w)  == worker[w].todo \ cache
Batches(w) ==
  IF Unread(w) \cap Incoming # {}
    THEN {{m} : m \in Unread(w) \cap Incoming}
    ELSE {{m \in Unread(w) : With[m] = p} : p \in {With[m] : m \in Unread(w)}}

\* Those that do not open get a placeholder.
Read(w, m) ==
  /\ At(w, "load", "reading")
  /\ \E batch \in Batches(w) :
       LET p      == With[m]
           opened == {n \in batch : Opens(n, Used(p))}
       IN  /\ m \in batch
           /\ FetchAndPin(p)
           /\ cache' = cache \cup opened
           /\ worker' = [worker EXCEPT
                ![w].todo = @ \ batch,
                ![w].flagged = @ \cup IF Changed(p) THEN opened \cap Incoming ELSE {}]
  /\ UNCHANGED <<remote, view, queue, faults>>

\* The keys cannot be fetched: a placeholder is shown.
ReadFails(w) ==
  /\ At(w, "load", "reading")
  /\ \E batch \in Batches(w) : worker' = [worker EXCEPT ![w].todo = @ \ batch]
  /\ Fault
  /\ UNCHANGED <<remote, pin, cache, view, queue>>

FinishLoad(w) ==
  /\ At(w, "load", "reading")
  /\ Unread(w) = {}
  /\ Ends(w)
  /\ After(<<[Event EXCEPT !.kind = "populate", !.inbox = worker[w].inbox,
                           !.sent = worker[w].sent, !.flagged = worker[w].flagged]>>)
  /\ UNCHANGED <<remote, pin, cache, view, faults>>

\* Inbox or sent list cannot be fetched: only the error is shown.
LoadFails(w) ==
  /\ At(w, "load", "inbox") \/ At(w, "load", "sent")
  /\ Ends(w)
  /\ Fault
  /\ UNCHANGED <<remote, pin, cache, view, queue>>

----------------------------------------------------------------------------
(* Sending (ComposeFrame._send), to the chat that is open, and forwarding   *)
(* (MessageFrame._forward_msg), to any account.                            *)

Underway(m) == \E w \in Workers : worker[w].op \in {"send", "forward"} /\ m \in worker[w].batch

StartSend(w, m) ==
  /\ dialog = NoPeer /\ activePeer = With[m]
  /\ mailbox[m] = "unsent" /\ ~Underway(m)
  /\ Starts(w, "send", "keys", With[m], {m})
  /\ UNCHANGED <<remote, pin, cache, view, queue, faults>>

\* A plaintext of the chat that is open is forwarded.
StartForward(w, m) ==
  /\ dialog = NoPeer /\ \E original \in cache : drawn[original] > 0
  /\ mailbox[m] = "unsent" /\ ~Underway(m)
  /\ Starts(w, "forward", "keys", With[m], {m})
  /\ UNCHANGED <<remote, pin, cache, view, queue, faults>>

SendKeys(w) ==
  /\ At(w, "send", "keys") \/ At(w, "forward", "keys")
  /\ LET p == worker[w].peer
     IN  /\ FetchAndPin(p)
         /\ worker' = [worker EXCEPT ![w].at = "posting", ![w].key = Used(p),
                                     ![w].changed = Changed(p)]
  /\ UNCHANGED <<remote, cache, view, queue, faults>>

Posts(w) ==
  /\ mailbox' = [m \in Messages |-> IF m \in worker[w].batch THEN "listed" ELSE mailbox[m]]
  /\ sealed' = [m \in Messages |-> IF m \in worker[w].batch THEN worker[w].key ELSE sealed[m]]
  /\ UNCHANGED peerKey

Post(w) ==
  /\ At(w, "send", "posting") \/ At(w, "forward", "posting")
  /\ Posts(w)
  /\ Goes(w, "posted")
  /\ UNCHANGED <<pin, cache, view, queue, faults>>

\* The answer is lost, or comes too late: the user sees an error.
PostUnanswered(w) ==
  /\ At(w, "send", "posting") \/ At(w, "forward", "posting")
  /\ Posts(w)
  /\ Ends(w)
  /\ Fault
  /\ UNCHANGED <<pin, cache, view, queue>>

SendFails(w) ==
  /\ worker[w].op \in {"send", "forward"} /\ worker[w].at \in {"keys", "posting"}
  /\ Ends(w)
  /\ Fault
  /\ UNCHANGED <<remote, pin, cache, view, queue>>

Warning(w) ==
  IF worker[w].changed THEN <<[Event EXCEPT !.kind = "warn", !.peer = worker[w].peer]>>
                       ELSE <<>>

SendAnswered(w) ==
  /\ At(w, "send", "posted")
  /\ cache' = cache \cup worker[w].batch
  /\ Ends(w)
  /\ After(Warning(w) \o <<[Event EXCEPT !.kind = "sent", !.peer = worker[w].peer,
                                         !.batch = worker[w].batch]>>)
  /\ UNCHANGED <<remote, pin, view, faults>>

\* A forward is listed only by the load that follows it.
ForwardAnswered(w) ==
  /\ At(w, "forward", "posted")
  /\ Ends(w)
  /\ After(Warning(w) \o <<Event>>)
  /\ UNCHANGED <<remote, pin, cache, view, faults>>

----------------------------------------------------------------------------
(* Chats and deletion.                                                     *)

\* InboxFrame._open_chat: shows the thread and the banner of p.
Draw(chats, p) ==
  /\ conversations' = chats
  /\ activePeer' = p
  /\ drawn' = chats[p].listed
  /\ banner' = chats[p].warned

OpenChat(p) ==
  /\ dialog = NoPeer
  /\ conversations[p].there /\ p # activePeer
  /\ Draw(conversations, p)
  /\ UNCHANGED <<remote, pin, cache, dialog, queue, worker, faults>>

\* InboxFrame._new_chat: the account is looked up first.
StartNewChat(w, p) ==
  /\ dialog = NoPeer /\ p # activePeer
  /\ Starts(w, "chat", "asking", p, {})
  /\ UNCHANGED <<remote, pin, cache, view, queue, faults>>

FindPeer(w) ==
  /\ At(w, "chat", "asking")
  /\ Ends(w)
  /\ After(<<[Event EXCEPT !.kind = "open", !.peer = worker[w].peer]>>)
  /\ UNCHANGED <<remote, pin, cache, view, faults>>

\* MessageFrame._delete_msg: gone here at once, then at the server.
StartDelete(w, m) ==
  /\ dialog = NoPeer /\ drawn[m] > 0
  /\ Starts(w, "delete", "deleting", activePeer, {m})
  /\ cache' = cache \ {m}
  /\ Draw([conversations EXCEPT ![activePeer].listed[m] = 0], activePeer)
  /\ UNCHANGED <<remote, pin, dialog, queue, faults>>

Delete(w) ==
  /\ At(w, "delete", "deleting")
  /\ mailbox' = [m \in Messages |-> IF m \in worker[w].batch THEN "deleted" ELSE mailbox[m]]
  /\ Ends(w)
  /\ After(<<Event>>)
  /\ UNCHANGED <<sealed, peerKey, pin, cache, view, faults>>

DeleteFails(w) ==
  /\ At(w, "delete", "deleting")
  /\ Ends(w)
  /\ After(<<Event>>)
  /\ Fault
  /\ UNCHANGED <<remote, pin, cache, view>>

----------------------------------------------------------------------------
(* The key warning (Widgets._show_key_warning_details).                    *)

ShowDetails ==
  /\ dialog = NoPeer /\ banner
  /\ dialog' = activePeer
  /\ UNCHANGED <<remote, pin, cache, conversations, activePeer, drawn, banner, queue,
                 worker, faults>>

Reject ==
  /\ dialog # NoPeer
  /\ dialog' = NoPeer
  /\ UNCHANGED <<remote, pin, cache, conversations, activePeer, drawn, banner, queue,
                 worker, faults>>

StartAccept(w) ==
  /\ dialog # NoPeer
  /\ Starts(w, "accept", "pinning", dialog, {})
  /\ dialog' = NoPeer
  /\ UNCHANGED <<remote, pin, cache, conversations, activePeer, drawn, banner, queue, faults>>

\* Whatever key the server serves by now is pinned.
Accept(w) ==
  /\ At(w, "accept", "pinning")
  /\ pin' = [pin EXCEPT ![worker[w].peer] = peerKey[worker[w].peer]]
  /\ Ends(w)
  /\ After(<<[Event EXCEPT !.kind = "clear", !.peer = worker[w].peer]>>)
  /\ UNCHANGED <<remote, cache, view, faults>>

AskingFails(w) ==
  /\ At(w, "accept", "pinning") \/ At(w, "chat", "asking")
  /\ Ends(w)
  /\ Fault
  /\ UNCHANGED <<remote, pin, cache, view, queue>>

----------------------------------------------------------------------------
(* The user interface takes the events in order.                           *)

Took(kind) == /\ queue # <<>> /\ Head(queue).kind = kind
              /\ queue' = Tail(queue)

\* The lists are added to the conversations there are.
FaultyChats(event) ==
  [p \in Peers |->
     LET own == {m \in event.inbox \cup event.sent : With[m] = p}
     IN  [there  |-> own # {},
          listed |-> [m \in Messages |-> conversations[p].listed[m] + IF m \in own THEN 1 ELSE 0],
          warned |-> own \cap event.flagged # {}]]

\* The conversations that the lists of a load make.
Chats(event) ==
  [p \in Peers |->
     LET own == {m \in event.inbox \cup event.sent : With[m] = p}
     IN  [there  |-> own # {},
          listed |-> [m \in Messages |-> IF m \in own THEN 1 ELSE 0],
          warned |-> own \cap event.flagged # {}]]

\* The chat that is open is forgotten when the lists have nothing of it.
FaultyRestored(chats) == chats

\* The chat that is open comes back whole, with messages that are not listed.
FaultyResurrected(chats) ==
  IF activePeer # NoPeer /\ ~chats[activePeer].there
    THEN [chats EXCEPT ![activePeer] = conversations[activePeer]]
    ELSE chats

\* The chat that is open keeps its entry, without messages.
Restored(chats) ==
  IF activePeer # NoPeer /\ ~chats[activePeer].there /\ conversations[activePeer].there
    THEN [chats EXCEPT ![activePeer] = Shell(conversations[activePeer].warned)]
    ELSE chats

\* The thread is drawn anew only when it grew.
FaultyOutdated(chats) ==
  Total(chats[activePeer].listed) > Total(conversations[activePeer].listed)

\* The thread that is open is drawn anew when its number of messages differs.
Outdated(chats) ==
  Total(chats[activePeer].listed) # Total(conversations[activePeer].listed)

Populate ==
  /\ Took("populate")
  /\ LET chats == Restored(Chats(Head(queue)))
     IN  IF activePeer # NoPeer /\ chats[activePeer].there /\ Outdated(chats)
           THEN Draw(chats, activePeer)
           ELSE conversations' = chats /\ UNCHANGED <<activePeer, drawn, banner>>
  /\ UNCHANGED <<remote, pin, cache, dialog, worker, faults>>

\* A peer without an entry gets one.
Entered(p) ==
  IF conversations[p].there THEN conversations
                            ELSE [conversations EXCEPT ![p] = Shell(FALSE)]

NewChat ==
  /\ Took("open")
  /\ Draw(Entered(Head(queue).peer), Head(queue).peer)
  /\ UNCHANGED <<remote, pin, cache, dialog, worker, faults>>

\* _on_send_success: also opens the chat of the recipient.
ShowSent ==
  /\ Took("sent")
  /\ LET p == Head(queue).peer
     IN  Draw([Entered(p) EXCEPT ![p].listed =
                 [m \in Messages |-> @[m] + IF m \in Head(queue).batch THEN 1 ELSE 0]], p)
  /\ UNCHANGED <<remote, pin, cache, dialog, worker, faults>>

\* The badge appears with the next redraw; without an entry nothing happens.
Warn ==
  /\ Took("warn")
  /\ LET p == Head(queue).peer
     IN  conversations' = [conversations EXCEPT ![p].warned = conversations[p].there]
  /\ UNCHANGED <<remote, pin, cache, activePeer, drawn, banner, dialog, worker, faults>>

\* _clear_warning hides the banner whichever chat is open.
ClearWarning ==
  /\ Took("clear")
  /\ conversations' = [conversations EXCEPT ![Head(queue).peer].warned = FALSE]
  /\ banner' = FALSE
  /\ UNCHANGED <<remote, pin, cache, activePeer, drawn, dialog, worker, faults>>

\* Loads once more after a forward or a deletion.
Reload ==
  /\ Took("reload")
  /\ \E w \in Workers :
       worker[w] = Idle /\ worker' = [worker EXCEPT ![w].op = "load", ![w].at = "inbox"]
  /\ UNCHANGED <<remote, pin, cache, view, faults>>

----------------------------------------------------------------------------
(* The peers.                                                              *)

Arrive(m) ==
  /\ mailbox[m] = "unsent"
  /\ mailbox' = [mailbox EXCEPT ![m] = "listed"]
  /\ sealed' = [sealed EXCEPT ![m] = peerKey[With[m]]]
  /\ UNCHANGED <<peerKey, pin, cache, view, queue, worker, faults>>

PeerDeletes(m) ==
  /\ mailbox[m] = "listed"
  /\ mailbox' = [mailbox EXCEPT ![m] = "deleted"]
  /\ UNCHANGED <<sealed, peerKey, pin, cache, view, queue, worker, faults>>

RotateKey(p) ==
  /\ peerKey[p] < MaxKeys[p]
  /\ peerKey' = [peerKey EXCEPT ![p] = @ + 1]
  /\ UNCHANGED <<mailbox, sealed, pin, cache, view, queue, worker, faults>>

LoadStep(w) ==
  \/ FetchInbox(w)
  \/ FetchSent(w)
  \/ \E m \in Messages : Read(w, m)
  \/ ReadFails(w)
  \/ FinishLoad(w)
  \/ LoadFails(w)

SendStep(w) ==
  \/ SendKeys(w)
  \/ Post(w)
  \/ PostUnanswered(w)
  \/ SendFails(w)
  \/ SendAnswered(w)
  \/ ForwardAnswered(w)

OtherStep(w) ==
  \/ FindPeer(w)
  \/ Delete(w)
  \/ DeleteFails(w)
  \/ Accept(w)
  \/ AskingFails(w)

Handle == Populate \/ NewChat \/ ShowSent \/ Warn \/ ClearWarning \/ Reload

User ==
  \/ \E w \in Workers, m \in Outgoing :
       StartSend(w, m) \/ StartForward(w, m) \/ StartDelete(w, m)
  \/ \E p \in Peers : OpenChat(p) \/ \E w \in Workers : StartNewChat(w, p)
  \/ ShowDetails \/ Reject \/ \E w \in Workers : StartAccept(w)

Peer ==
  \/ \E m \in Incoming : Arrive(m) \/ PeerDeletes(m)
  \/ \E p \in Peers : RotateKey(p)

Next ==
  \/ \E w \in Workers : StartLoad(w) \/ LoadStep(w) \/ SendStep(w) \/ OtherStep(w)
  \/ Handle
  \/ User
  \/ Peer

\* Threads run on, requests are answered or given up and the event loop takes the
\* events; the timer starts a load again and again, whatever other threads do.
Fairness ==
  /\ \A w \in Workers : WF_vars(LoadStep(w) \/ SendStep(w) \/ OtherStep(w))
  /\ WF_vars(Handle)
  /\ SF_vars(\E w \in Workers : StartLoad(w))

Spec == Init /\ [][Next]_vars /\ Fairness

----------------------------------------------------------------------------
(* Properties.                                                             *)

\* The variables have their types, every version of a key is one that its owner has
\* had, and neither a thread nor the message area holds a message more than twice.
TypeOK ==
  /\ mailbox \in [Messages -> {"unsent", "listed", "deleted"}]
  /\ sealed \in [Messages -> Nat] /\ \A m \in Messages : sealed[m] <= peerKey[With[m]]
  /\ peerKey \in [Peers -> Nat \ {0}] /\ pin \in [Peers -> Nat]
  /\ \A p \in Peers : pin[p] <= peerKey[p] /\ peerKey[p] <= MaxKeys[p]
  /\ cache \subseteq Messages /\ faults \in 0 .. MaxFaults
  /\ conversations \in [Peers -> [there : BOOLEAN, listed : Counts, warned : BOOLEAN]]
  /\ activePeer \in Peers \cup {NoPeer} /\ dialog \in Peers \cup {NoPeer}
  /\ drawn \in Counts /\ banner \in BOOLEAN
  /\ \A w \in Workers :
       /\ worker[w].peer \in Peers \cup {NoPeer}
       /\ worker[w].batch \cup worker[w].todo \subseteq Messages
       /\ worker[w].key \in Nat
       /\ \A m \in worker[w].batch : worker[w].key <= peerKey[With[m]]

\* The chat that is open has an entry in the conversations, which sending, deleting
\* and redrawing look up without a test (compose_frame.py:58, inbox_frame.py:110),
\* although every load replaces them all.
ActiveListed == activePeer # NoPeer => conversations[activePeer].there

\* The message area shows as many messages as the chat that is open has: a load that
\* does not redraw it leaves none out and shows none too many.
ThreadCountMatches ==
  activePeer # NoPeer => Total(drawn) = Total(conversations[activePeer].listed)

InChat(m) == conversations[With[m]].listed[m]

\* However loads, sends and deletions overlap, in the end each message that the
\* server lists is in its conversation exactly once, and no deleted one is.
ListFollowsServer ==
  \A m \in Messages :
    /\ <>[](mailbox[m] = "listed") => <>[](InChat(m) = 1)
    /\ <>[](mailbox[m] = "deleted") => <>[](InChat(m) = 0)

\* Every listed message that was sealed with the pinned key of the peer is read in
\* the end, also one whose first reading failed or whose sending went unanswered.
ReadableIsRead ==
  \A m \in Messages :
    <>[](mailbox[m] = "listed" /\ sealed[m] = pin[With[m]]) => <>[](m \in cache)

\* "When a peer's key has changed, a warning banner appears above the thread and a
\* KEY CHANGED badge shows on their conversation row" (src/client/README.md): a
\* received message made with a key other than the pinned one gets its conversation
\* a warning.
ChangeIsWarned ==
  \A m \in Incoming :
    (mailbox[m] = "listed" /\ pin[With[m]] \notin {0, sealed[m]})
      ~> \/ conversations[With[m]].warned
         \/ pin[With[m]] = peerKey[With[m]]
         \/ mailbox[m] = "deleted"
=============================================================================
