--------------------------- MODULE ClientKeystore ---------------------------
(***************************************************************************)
(* The desktop client of one account: its threads, its keystore file and   *)
(* what they do to it.  Every send and every poll of the inbox runs in a   *)
(* thread of its own.  The keystore has no lock: each of its methods loads *)
(* the whole file, changes one entry and replaces the file (Keystore._load,*)
(* _save), so two methods that overlap lose one of the two changes.        *)
(*                                                                         *)
(* overlap says whether threads overlap in this behaviour.  With overlap    *)
(* off, a thread starts only when none is running.                         *)
(*                                                                         *)
(* A received message is opened as MessageCrypto says; the server's copy of  *)
(* one may have been altered.  Peers keep their keys, and the two keys of a  *)
(* peer are one pin; MainWindow is about keys that change.                  *)
(*                                                                         *)
(* Operators named Faulty... are plausible slips in the code; each makes    *)
(* one of the properties below fail and none is part of Spec.              *)
(***************************************************************************)
EXTENDS MessageCrypto, FiniteSets, Sequences

CONSTANTS
  Me,         (* this account                                               *)
  Peers,      (* the other accounts                                         *)
  NoPeer,     (* whom an idle thread deals with                             *)
  Workers,    (* threads                                                    *)
  Messages,   (* the messages the server lists for this account             *)
  From,       (* From[m]: the sender the server names                       *)
  Wire,       (* Wire[m]: the fields the server serves                      *)
  MaxSends,   (* bound on the messages posted to a peer                     *)
  MaxArrivals,(* bound on the messages that reach the server                *)
  MaxFaults   (* bound on crashes and network errors                        *)

\* An account with its key pairs, which it keeps.
Account(a) == [id |-> a, x |-> <<"x25519", a>>, ed |-> <<"ed25519", a>>]

SeqNo(m) == Wire[m].seqNo

\* A ciphertext is one that somebody made, with whatever key and additional data.
ASSUME MessagesAssumption ==
  /\ From \in [Messages -> Peers]
  /\ \A m \in Messages :
       LET c == Wire[m].ciphertext
       IN  SeqNo(m) \in Nat \ {0} /\ c = Encrypt(c.key, c.nonce, c.text, c.aad)
ASSUME NoPeerAssumption   == NoPeer \notin Peers
ASSUME BoundsAssumption   == MaxSends \in Nat /\ MaxArrivals \in Nat /\ MaxFaults \in Nat

VARIABLES
  overlap,    (* may threads overlap                                        *)
  file,       (* the keystore file: send and receive counters and pins      *)
  cacheFile,  (* the messages in the plaintext cache file                   *)
  cache,      (* the messages whose plaintext this session shows            *)
  inbox,      (* the messages that have reached the server                  *)
  posted,     (* posted[p]: the seqNos posted to p, in order                *)
  worker,     (* worker[w]: what thread w is doing                          *)
  faults      (* crashes and network errors so far                          *)

disk == <<file, cacheFile>>
vars == <<overlap, file, cacheFile, cache, inbox, posted, worker, faults>>

File == [send : [Peers -> Nat], recv : [Peers -> Nat], pins : SUBSET Peers]

Fresh == [send |-> [p \in Peers |-> 0], recv |-> [p \in Peers |-> 0], pins |-> {}]

\* peer: whom the thread is dealing with; copy: the file as it last loaded it;
\* seq: the number to send with, or of the message being opened; last: the
\* receive counter it read; opening: that message; todo: the fetched messages
\* not dealt with yet; added: has it put a plaintext into the cache; snap: what
\* it is about to write to the cache file.
Idle == [at |-> "idle", op |-> "none", peer |-> NoPeer, copy |-> Fresh, seq |-> 0,
         last |-> 0, opening |-> {}, todo |-> {}, added |-> FALSE, snap |-> {}]

Points == {"idle", "fetch", "unpinned", "pinning", "pinned", "counting", "numbered",
           "polling", "opening", "accepting", "accepted", "caching", "replacing"}

Init ==
  /\ overlap \in BOOLEAN
  /\ file = Fresh
  /\ cacheFile = {}
  /\ cache = {}
  /\ inbox = {}
  /\ posted = [p \in Peers |-> <<>>]
  /\ worker = [w \in Workers |-> Idle]
  /\ faults = 0

At(w, point) == worker[w].at = point
Peer(w)      == worker[w].peer
Copy(w)      == worker[w].copy

Sending(w, p) == worker[w].op = "send" /\ Peer(w) = p

MayStart(w) ==
  /\ At(w, "idle")
  /\ overlap \/ \A v \in Workers : At(v, "idle")

----------------------------------------------------------------------------
(* Threads start.                                                          *)

StartSend(w, p) ==
  /\ MayStart(w)
  /\ Len(posted[p]) + Cardinality({v \in Workers : Sending(v, p)}) < MaxSends
  /\ worker' = [worker EXCEPT ![w].at = "fetch", ![w].op = "send", ![w].peer = p]
  /\ UNCHANGED <<overlap, disk, cache, inbox, posted, faults>>

\* The inbox is fetched; what the session already shows is of no interest.
StartPoll(w) ==
  /\ MayStart(w)
  /\ worker' = [worker EXCEPT ![w].at = "polling", ![w].op = "poll",
                               ![w].todo = inbox \ cache]
  /\ UNCHANGED <<overlap, disk, cache, inbox, posted, faults>>

----------------------------------------------------------------------------
(* KeyService.fetch_and_pin.                                               *)

FetchKeys(w) ==
  /\ At(w, "fetch")
  /\ worker' = [worker EXCEPT ![w].at =
                   IF Peer(w) \in file.pins THEN "pinned" ELSE "unpinned"]
  /\ UNCHANGED <<overlap, disk, cache, inbox, posted, faults>>

LoadToPin(w) ==
  /\ At(w, "unpinned")
  /\ worker' = [worker EXCEPT ![w].at = "pinning", ![w].copy = file]
  /\ UNCHANGED <<overlap, disk, cache, inbox, posted, faults>>

SavePin(w) ==
  /\ At(w, "pinning")
  /\ file' = [Copy(w) EXCEPT !.pins = @ \cup {Peer(w)}]
  /\ worker' = [worker EXCEPT ![w].at = "pinned", ![w].copy = Fresh]
  /\ UNCHANGED <<overlap, cacheFile, cache, inbox, posted, faults>>

----------------------------------------------------------------------------
(* MessageService.send (and forward, which numbers its message likewise).  *)

LoadSendSeq(w) ==
  /\ At(w, "pinned")
  /\ worker[w].op = "send"
  /\ worker' = [worker EXCEPT ![w].at = "counting", ![w].copy = file]
  /\ UNCHANGED <<overlap, disk, cache, inbox, posted, faults>>

\* The counter is kept in memory and saved with the next change of the file.
FaultySaveSendSeq(w) ==
  /\ At(w, "counting")
  /\ worker' = [worker EXCEPT ![w].at = "numbered", ![w].copy = Fresh,
                               ![w].seq = Copy(w).send[Peer(w)] + 1]
  /\ UNCHANGED <<overlap, disk, cache, inbox, posted, faults>>

\* The number posted is the counter before it is advanced.
FaultyZeroBased(w) ==
  /\ At(w, "counting")
  /\ file' = [Copy(w) EXCEPT !.send[Peer(w)] = @ + 1]
  /\ worker' = [worker EXCEPT ![w].at = "numbered", ![w].copy = Fresh,
                               ![w].seq = Copy(w).send[Peer(w)]]
  /\ UNCHANGED <<overlap, cacheFile, cache, inbox, posted, faults>>

SaveSendSeq(w) ==
  LET next == Copy(w).send[Peer(w)] + 1
  IN  /\ At(w, "counting")
      /\ file' = [Copy(w) EXCEPT !.send[Peer(w)] = next]
      /\ worker' = [worker EXCEPT ![w].at = "numbered", ![w].seq = next, ![w].copy = Fresh]
      /\ UNCHANGED <<overlap, cacheFile, cache, inbox, posted, faults>>

Post(w) ==
  /\ At(w, "numbered")
  /\ posted' = [posted EXCEPT ![Peer(w)] = Append(@, worker[w].seq)]
  /\ worker' = [worker EXCEPT ![w] = [Idle EXCEPT !.at = "caching", !.op = "send"]]
  /\ UNCHANGED <<overlap, disk, cache, inbox, faults>>

----------------------------------------------------------------------------
(* MainFrame._decrypt_inbox and MessageService.receive.                    *)

\* Per sender in ascending order of seqNo; what the session shows by now is
\* skipped.
Unread(w) == worker[w].todo \ cache

NextMessage(w) ==
  /\ At(w, "polling")
  /\ \E m \in Unread(w) :
       /\ \A n \in Unread(w) : From[n] = From[m] => SeqNo(m) <= SeqNo(n)
       /\ worker' = [worker EXCEPT ![w].at = "fetch", ![w].peer = From[m],
                                    ![w].seq = SeqNo(m), ![w].opening = {m},
                                    ![w].todo = Unread(w) \ {m}]
  /\ UNCHANGED <<overlap, disk, cache, inbox, posted, faults>>

ReadRecvSeq(w) ==
  /\ At(w, "pinned")
  /\ worker[w].op = "poll"
  /\ worker' = [worker EXCEPT ![w].at = "opening", ![w].last = file.recv[Peer(w)]]
  /\ UNCHANGED <<overlap, disk, cache, inbox, posted, faults>>

\* What receive gives for the message being opened.
Opening(w) == CHOOSE m \in worker[w].opening : TRUE

Received(w, enforceReplay) ==
  Receive(Wire[Opening(w)], Account(Me), Account(Peer(w)), worker[w].last, enforceReplay)

Goto(w, point) ==
  worker' = [worker EXCEPT ![w].at = point, ![w].last = 0,
                           ![w].copy = IF point = "accepting" THEN file ELSE Fresh]

\* The placeholder of a message that could not be opened is not cached.
Skip(w) ==
  worker' = [worker EXCEPT ![w].at = "polling", ![w].last = 0, ![w].seq = 0,
                           ![w].peer = NoPeer, ![w].opening = {}]

FaultyReplayDropped(w) ==
  /\ At(w, "opening")
  /\ IF Received(w, TRUE) = "ok" THEN Goto(w, "accepting") ELSE Skip(w)
  /\ UNCHANGED <<overlap, disk, cache, inbox, posted, faults>>

\* The second call advances the counter as well.
FaultyReplayAdvances(w) ==
  /\ At(w, "opening")
  /\ IF Received(w, FALSE) = "ok" THEN Goto(w, "accepting") ELSE Skip(w)
  /\ UNCHANGED <<overlap, disk, cache, inbox, posted, faults>>

\* The counter is compared before the signature is verified, and what it stops
\* is taken to have been verified when it was accepted.
FaultyReplayTrusted(w) ==
  /\ At(w, "opening")
  /\ CASE worker[w].seq <= worker[w].last -> Goto(w, "accepted")
       [] Received(w, TRUE) = "ok"        -> Goto(w, "accepting")
       [] OTHER                           -> Skip(w)
  /\ UNCHANGED <<overlap, disk, cache, inbox, posted, faults>>

\* receive; on a ReplayError _decrypt_inbox calls it again without the check
\* and without advancing the counter.
Open(w) ==
  /\ At(w, "opening")
  /\ CASE Received(w, TRUE) = "ok" -> Goto(w, "accepting")
       [] Received(w, TRUE) = "ReplayError" /\ Received(w, FALSE) = "ok" -> Goto(w, "accepted")
       [] OTHER -> Skip(w)
  /\ UNCHANGED <<overlap, disk, cache, inbox, posted, faults>>

SaveRecvSeq(w) ==
  /\ At(w, "accepting")
  /\ file' = [Copy(w) EXCEPT !.recv[Peer(w)] = worker[w].seq]
  /\ worker' = [worker EXCEPT ![w].at = "accepted", ![w].copy = Fresh]
  /\ UNCHANGED <<overlap, cacheFile, cache, inbox, posted, faults>>

Show(w) ==
  /\ At(w, "accepted")
  /\ cache' = cache \cup worker[w].opening
  /\ worker' = [worker EXCEPT ![w].at = "polling", ![w].added = TRUE,
                              ![w].opening = {}, ![w].seq = 0, ![w].peer = NoPeer]
  /\ UNCHANGED <<overlap, disk, inbox, posted, faults>>

\* A poll that added nothing to the cache does not save it.
EndPoll(w) ==
  /\ At(w, "polling")
  /\ Unread(w) = {}
  /\ worker' = [worker EXCEPT ![w] = IF worker[w].added
                                       THEN [Idle EXCEPT !.at = "caching", !.op = "poll"]
                                       ELSE Idle]
  /\ UNCHANGED <<overlap, disk, cache, inbox, posted, faults>>

\* save_message_cache: the cache as it is now is encrypted, and then replaces
\* the cache file.
SnapshotCache(w) ==
  /\ At(w, "caching")
  /\ worker' = [worker EXCEPT ![w].at = "replacing", ![w].snap = cache]
  /\ UNCHANGED <<overlap, disk, cache, inbox, posted, faults>>

ReplaceCacheFile(w) ==
  /\ At(w, "replacing")
  /\ cacheFile' = worker[w].snap
  /\ worker' = [worker EXCEPT ![w] = Idle]
  /\ UNCHANGED <<overlap, file, cache, inbox, posted, faults>>

----------------------------------------------------------------------------
(* The environment.                                                        *)

\* Messages of a peer may arrive in any order.
Arrive(m) ==
  /\ m \notin inbox
  /\ Cardinality(inbox) < MaxArrivals
  /\ inbox' = inbox \cup {m}
  /\ UNCHANGED <<overlap, disk, cache, posted, worker, faults>>

\* A request fails: a send is given up, a poll skips the message it was on.
NetworkError(w) ==
  /\ faults < MaxFaults
  /\ faults' = faults + 1
  /\ At(w, "fetch") \/ At(w, "numbered")
  /\ worker' = [worker EXCEPT ![w] =
                  IF worker[w].op = "send"
                    THEN Idle
                    ELSE [Idle EXCEPT !.at = "polling", !.op = "poll",
                                      !.todo = worker[w].todo, !.added = worker[w].added]]
  /\ UNCHANGED <<overlap, disk, cache, inbox, posted>>

\* The message is posted and the answer does not arrive in time.
PostAnswerLost(w) ==
  /\ faults < MaxFaults
  /\ faults' = faults + 1
  /\ At(w, "numbered")
  /\ posted' = [posted EXCEPT ![Peer(w)] = Append(@, worker[w].seq)]
  /\ worker' = [worker EXCEPT ![w] = Idle]
  /\ UNCHANGED <<overlap, disk, cache, inbox>>

\* The client dies and is started again: the cache is what the file holds.
Crash ==
  /\ faults < MaxFaults
  /\ faults' = faults + 1
  /\ \E w \in Workers : ~At(w, "idle")
  /\ cache' = cacheFile
  /\ worker' = [w \in Workers |-> Idle]
  /\ UNCHANGED <<overlap, disk, inbox, posted>>

WorkerStep(w) ==
  \/ FetchKeys(w)
  \/ LoadToPin(w)
  \/ SavePin(w)
  \/ LoadSendSeq(w)
  \/ SaveSendSeq(w)
  \/ Post(w)
  \/ NextMessage(w)
  \/ ReadRecvSeq(w)
  \/ Open(w)
  \/ SaveRecvSeq(w)
  \/ Show(w)
  \/ EndPoll(w)
  \/ SnapshotCache(w)
  \/ ReplaceCacheFile(w)

Next ==
  \/ \E w \in Workers :
       \/ \E p \in Peers : StartSend(w, p)
       \/ StartPoll(w)
       \/ WorkerStep(w)
       \/ NetworkError(w)
       \/ PostAnswerLost(w)
  \/ \E m \in Messages : Arrive(m)
  \/ Crash

\* A started thread keeps running and a poll is started every ten seconds
\* (_schedule_poll).  Sends, arrivals and faults are owed nothing.
Fairness ==
  /\ \A w \in Workers : WF_vars(WorkerStep(w))
  /\ WF_vars(\E w \in Workers : StartPoll(w))

Spec == Init /\ [][Next]_vars /\ Fairness

----------------------------------------------------------------------------
(* Properties.                                                             *)

\* Every variable holds a value of its kind.
TypeOK ==
  /\ overlap \in BOOLEAN
  /\ file \in File
  /\ cacheFile \in SUBSET Messages
  /\ cache \in SUBSET Messages
  /\ inbox \in SUBSET Messages
  /\ posted \in [Peers -> Seq(Nat \ {0})]
  /\ worker \in [Workers -> [at : Points, op : {"none", "send", "poll"},
                             peer : Peers \cup {NoPeer}, copy : File,
                             seq : Nat, last : Nat, opening : SUBSET Messages,
                             todo : SUBSET Messages, added : BOOLEAN,
                             snap : SUBSET Messages]]
  /\ faults \in Nat

\* The numbers posted to a peer increase, so none is used twice.
SeqsIncrease ==
  \A p \in Peers : \A i, j \in DOMAIN posted[p] : i < j => posted[p][i] < posted[p][j]

\* As long as threads do not overlap, no sequence number is used twice, whatever
\* crashes and failed posts lie in between: the counter is on disk before the
\* message leaves (next_send_seq before api.send).
SerialSeqsIncrease == ~overlap => SeqsIncrease

\* As long as threads do not overlap, the keystore forgets nothing: counters
\* never fall and a pinned peer stays pinned, in particular over a crash.
SerialKeystoreKeeps ==
  [][~overlap =>
       /\ file.pins \subseteq file'.pins
       /\ \A p \in Peers : /\ file.send[p] <= file'.send[p]
                           /\ file.recv[p] <= file'.recv[p]]_vars

\* The messages whose ciphertext and signature are what their sender sealed for this
\* account.  The digest is not looked at when a message is received.
Genuine ==
  {m \in Messages :
     LET sealed == Seal(Plaintext(Wire[m]), Wire[m].nonce, Account(From[m]), Account(Me),
                        SeqNo(m))
     IN  Wire[m].ciphertext = sealed.ciphertext /\ Wire[m].signature = sealed.signature}

\* Whatever the server alters, in whichever order messages come and whatever was
\* lost, the client shows only plaintexts their sender sealed, and its receive
\* counters only take numbers the sender used: an altered number never makes the
\* counter run ahead, on the path that skips the replay check neither.
OnlyGenuineAccepted ==
  /\ cache \cup cacheFile \subseteq Genuine
  /\ \A p \in Peers : file.recv[p] \in {0} \cup {SeqNo(m) : m \in {n \in Genuine : From[n] = p}}

\* Every genuine message that arrives is shown in the end, whatever order
\* messages arrive in, however threads overlap and wherever the client died: a
\* counter that is ahead of a message never hides it (_decrypt_inbox on
\* ReplayError).
InboxShown == \A m \in Genuine : (m \in inbox) ~> (m \in cache)

\* "The per-recipient sequence counter is monotonic and persisted in the
\* keystore": also when threads overlap.
CounterMonotonic == [][\A p \in Peers : file.send[p] <= file'.send[p]]_vars

\* "Otherwise the message is a replay or is out of order and is rejected": with
\* one thread at a time and no faults, a message is shown only after the
\* messages of its sender with lower numbers.
OutOfOrderRejected ==
  [][\A m \in cache' \ cache, n \in cache :
       ~overlap /\ faults = 0 /\ From[m] = From[n] => SeqNo(m) > SeqNo(n)]_vars
=============================================================================
