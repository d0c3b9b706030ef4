------------------------ MODULE ClientKeystoreProofs ------------------------
(***************************************************************************)
(* Proofs about ClientKeystore, for any peers, threads and messages, however *)
(* the server alters them.                                                  *)
(*                                                                         *)
(* Two arguments.  Whatever threads do to each other's changes, every copy of *)
(* the keystore in a thread's hands is one that held only genuine receive     *)
(* counters, and a thread holds a message as accepted only after its          *)
(* signature and its additional data were checked: Accepted.  With one thread *)
(* at a time the copy a thread holds is the file as it is, and the counter of *)
(* a message about to be posted is the one on disk: SerialOK.                 *)
(***************************************************************************)
EXTENDS ClientKeystore, SequenceTheorems, TLAPS

\* The numbers that a sender used.
GenuineSeqs(p) == {0} \cup {SeqNo(m) : m \in {n \in Genuine : From[n] = p}}

\* Keystore files whose receive counters are numbers the senders used.
Files == {f \in File : \A p \in Peers : f.recv[p] \in GenuineSeqs(p)}

\* The points at which a thread deals with a peer.
Dealing == {"fetch", "unpinned", "pinning", "pinned", "counting", "numbered",
            "opening", "accepting", "accepted"}

\* A thread that reads is on one message, and on the peer that message is from.
OnOne(t) ==
  \E m \in Messages : t.opening = {m} /\ t.peer = From[m] /\ t.seq = SeqNo(m)

TaskRecords ==
  [at : Points, op : {"none", "send", "poll"}, peer : Peers \cup {NoPeer}, copy : File,
   seq : Nat, last : Nat, opening : SUBSET Messages, todo : SUBSET Messages,
   added : BOOLEAN, snap : SUBSET Messages]

Tasks ==
  {t \in TaskRecords :
     /\ t.copy \in Files
     /\ t.snap \subseteq Genuine
     /\ t.at \in Dealing => t.peer \in Peers /\ t.op \in {"send", "poll"}
     /\ t.at \in Dealing /\ t.op = "poll" => OnOne(t)
     /\ t.at \in {"counting", "numbered"} => t.op = "send"
     /\ t.at = "numbered" => t.seq # 0
     /\ t.at = "polling" => t.op = "poll"
     /\ t.at \in {"opening", "accepting", "accepted"} => t.op = "poll"
     /\ t.at \in {"accepting", "accepted"} => t.opening \subseteq Genuine}

ThreadsOK == worker \in [Workers -> Tasks]

StateOK ==
  /\ overlap \in BOOLEAN
  /\ file \in Files
  /\ cacheFile \in SUBSET Genuine
  /\ cache \in SUBSET Genuine
  /\ inbox \in SUBSET Messages
  /\ posted \in [Peers -> Seq(Nat \ {0})]
  /\ faults \in Nat

Accepted == StateOK /\ ThreadsOK

\* The parts of the state that threads write.
State == <<overlap, disk, cache, inbox, posted>>

----------------------------------------------------------------------------
(* What the checks of a received message establish.                        *)

\* A message that opens, with or without the replay check, is what its sender
\* sealed: the signature covers the ciphertext and the number, and the two
\* sides of a key exchange get the same key.
LEMMA OpenedIsGenuine ==
  ASSUME NEW m \in Messages, NEW last, NEW enforceReplay \in BOOLEAN,
         Receive(Wire[m], Account(Me), Account(From[m]), last, enforceReplay) = "ok"
  PROVE  m \in Genuine
<1> DEFINE c == Wire[m].ciphertext
           sealed == Seal(Plaintext(Wire[m]), Wire[m].nonce, Account(From[m]),
                          Account(Me), SeqNo(m))
<1>1. c = Encrypt(c.key, c.nonce, c.text, c.aad)
  BY MessagesAssumption
<1>2. /\ Verify(SignedPayload(From[m], Me, SeqNo(m), c, Wire[m].nonce),
                Wire[m].signature, Account(From[m]).ed)
      /\ Decrypts(MessageKey(Account(Me).x, Account(From[m]).x), Wire[m].nonce, c,
                  Aad(From[m], Me, SeqNo(m)))
  BY DEF Receive, OpenResult, Account, SeqNo
<1>3. MessageKey(Account(Me).x, Account(From[m]).x)
        = MessageKey(Account(From[m]).x, Account(Me).x)
  BY DEF MessageKey
<1>4. c = Encrypt(MessageKey(Account(From[m]).x, Account(Me).x), Wire[m].nonce,
                  Plaintext(Wire[m]), Aad(From[m], Me, SeqNo(m)))
  BY <1>1, <1>2, <1>3 DEF Decrypts, Plaintext
<1>5. c = sealed.ciphertext
  BY <1>4 DEF Seal, Account
<1>6. Wire[m].signature = sealed.signature
  BY <1>2, <1>4 DEF Verify, Seal, Account
<1> QED
  BY <1>5, <1>6 DEF Genuine

\* The check of the counter: what passes it is ahead of the counter read.
LEMMA OpenedIsAhead ==
  ASSUME NEW m \in Messages, NEW last \in Nat,
         Receive(Wire[m], Account(Me), Account(From[m]), last, TRUE) = "ok"
  PROVE  last <= SeqNo(m)
<1>1. SeqNo(m) \in Nat
  BY MessagesAssumption
<1>2. ~(last # NoneSeen /\ SeqNo(m) <= last)
  BY DEF Receive, OpenResult, SeqNo
<1> QED
  BY <1>1, <1>2 DEF NoneSeen

----------------------------------------------------------------------------
(* Threads.                                                                *)

LEMMA FreshFile == Fresh \in Files
  BY DEF Fresh, Files, File, GenuineSeqs

LEMMA IdleTask == Idle \in Tasks
  BY FreshFile DEF Idle, Tasks, TaskRecords, Points, Dealing, Files

LEMMA OneThread ==
  ASSUME ThreadsOK, NEW w \in Workers, NEW t \in Tasks, worker' = [worker EXCEPT ![w] = t]
  PROVE  ThreadsOK'
  BY DEF ThreadsOK

LEMMA WithFrom == ASSUME NEW m \in Messages PROVE From[m] \in Peers /\ SeqNo(m) \in Nat
  BY MessagesAssumption

\* The message a reading thread is on.
LEMMA OnMessage ==
  ASSUME ThreadsOK, NEW w \in Workers, worker[w].at \in Dealing, worker[w].op = "poll"
  PROVE  /\ Opening(w) \in Messages
         /\ worker[w].opening = {Opening(w)}
         /\ Peer(w) = From[Opening(w)]
         /\ worker[w].seq = SeqNo(Opening(w))
<1>1. PICK m \in Messages :
        worker[w].opening = {m} /\ Peer(w) = From[m] /\ worker[w].seq = SeqNo(m)
  BY DEF ThreadsOK, Tasks, OnOne, Peer
<1>2. Opening(w) = m
  BY <1>1 DEF Opening
<1> QED
  BY <1>1, <1>2

\* What Open lets pass is genuine.
LEMMA OpenAccepts ==
  ASSUME ThreadsOK, NEW w \in Workers, At(w, "opening"), NEW b \in BOOLEAN,
         Received(w, b) = "ok"
  PROVE  worker[w].opening \subseteq Genuine
<1>1. worker[w].at \in Dealing /\ worker[w].op = "poll"
  BY DEF At, ThreadsOK, Tasks, Dealing
<1>2. Receive(Wire[Opening(w)], Account(Me), Account(From[Opening(w)]), worker[w].last, b)
        = "ok"
  BY <1>1, OnMessage DEF Received
<1>3. Opening(w) \in Genuine
  BY <1>1, <1>2, OnMessage, OpenedIsGenuine
<1> QED
  BY <1>1, <1>3, OnMessage

----------------------------------------------------------------------------
(* Accepted is inductive.                                                  *)

\* A keystore file with one counter advanced or one peer pinned.
LEMMA Pinned == ASSUME NEW f \in Files, NEW p \in Peers
                PROVE  [f EXCEPT !.pins = @ \cup {p}] \in Files
  BY DEF Files, File

LEMMA Counted == ASSUME NEW f \in Files, NEW p \in Peers, NEW n \in Nat
                 PROVE  [f EXCEPT !.send[p] = n] \in Files
  BY DEF Files, File

LEMMA Received1 == ASSUME NEW f \in Files, NEW m \in Genuine
                   PROVE  [f EXCEPT !.recv[From[m]] = SeqNo(m)] \in Files
<1>1. m \in Messages /\ SeqNo(m) \in Nat /\ SeqNo(m) \in GenuineSeqs(From[m])
  BY WithFrom DEF Genuine, GenuineSeqs
<1> QED
  BY <1>1 DEF Files, File

LEMMA SendAccepted ==
  ASSUME Accepted, NEW w \in Workers,
         (\E p \in Peers : StartSend(w, p)) \/ FetchKeys(w) \/ LoadToPin(w) \/ SavePin(w)
           \/ LoadSendSeq(w) \/ SaveSendSeq(w) \/ Post(w)
  PROVE  Accepted'
<1> DEFINE self == worker[w]
<1>0. /\ StateOK /\ ThreadsOK /\ self \in Tasks /\ self \in TaskRecords
      /\ file \in Files /\ self.copy \in Files /\ worker = [v \in Workers |-> worker[v]]
  BY DEF Accepted, ThreadsOK, Tasks, StateOK
<1>1. CASE \E p \in Peers : StartSend(w, p)
  <2> PICK p \in Peers : StartSend(w, p)
    BY <1>1
  <2> DEFINE t == [self EXCEPT !.at = "fetch", !.op = "send", !.peer = p]
  <2>1. t \in Tasks
    BY <1>0 DEF Tasks, TaskRecords, Points, Dealing
  <2>2. worker' = [worker EXCEPT ![w] = t] /\ UNCHANGED State /\ UNCHANGED faults
    BY <1>0 DEF StartSend, State
  <2> QED
    BY <1>0, <2>1, <2>2, OneThread DEF Accepted, StateOK, State, disk
<1>2. CASE FetchKeys(w)
  <2> DEFINE t == [self EXCEPT !.at = IF Peer(w) \in file.pins THEN "pinned" ELSE "unpinned"]
  <2>1. t \in Tasks
    BY <1>0, <1>2 DEF FetchKeys, At, Tasks, TaskRecords, Points, Dealing, OnOne
  <2>2. worker' = [worker EXCEPT ![w] = t] /\ UNCHANGED State /\ UNCHANGED faults
    BY <1>0, <1>2 DEF FetchKeys, State
  <2> QED
    BY <1>0, <2>1, <2>2, OneThread DEF Accepted, StateOK, State, disk
<1>3. CASE LoadToPin(w)
  <2> DEFINE t == [self EXCEPT !.at = "pinning", !.copy = file]
  <2>1. t \in Tasks
    BY <1>0, <1>3 DEF LoadToPin, At, Tasks, TaskRecords, Points, Dealing, OnOne, Files
  <2>2. worker' = [worker EXCEPT ![w] = t] /\ UNCHANGED State /\ UNCHANGED faults
    BY <1>0, <1>3 DEF LoadToPin, State
  <2> QED
    BY <1>0, <2>1, <2>2, OneThread DEF Accepted, StateOK, State, disk
<1>4. CASE SavePin(w)
  <2> DEFINE t == [self EXCEPT !.at = "pinned", !.copy = Fresh]
  <2>1. t \in Tasks
    BY <1>0, <1>4, FreshFile
    DEF SavePin, At, Tasks, TaskRecords, Points, Dealing, OnOne, Files
  <2>2. worker' = [worker EXCEPT ![w] = t]
    BY <1>0, <1>4 DEF SavePin
  <2>3. Peer(w) \in Peers
    BY <1>0, <1>4 DEF SavePin, At, Peer, Tasks, Dealing
  <2>4. file' \in Files
    BY <1>0, <1>4, <2>3, Pinned DEF SavePin, Copy
  <2> QED
    BY <1>0, <1>4, <2>1, <2>2, <2>4, OneThread DEF SavePin, Accepted, StateOK
<1>5. CASE LoadSendSeq(w)
  <2> DEFINE t == [self EXCEPT !.at = "counting", !.copy = file]
  <2>1. t \in Tasks
    BY <1>0, <1>5 DEF LoadSendSeq, At, Tasks, TaskRecords, Points, Dealing, Files
  <2>2. worker' = [worker EXCEPT ![w] = t] /\ UNCHANGED State /\ UNCHANGED faults
    BY <1>0, <1>5 DEF LoadSendSeq, State
  <2> QED
    BY <1>0, <2>1, <2>2, OneThread DEF Accepted, StateOK, State, disk
<1>6. CASE SaveSendSeq(w)
  <2> DEFINE next == Copy(w).send[Peer(w)] + 1
             t == [self EXCEPT !.at = "numbered", !.seq = next, !.copy = Fresh]
  <2>1. Peer(w) \in Peers /\ self.op = "send"
    BY <1>0, <1>6 DEF SaveSendSeq, At, Peer, Tasks, Dealing
  <2>2. next \in Nat /\ next # 0
    BY <1>0, <2>1 DEF Copy, Files, File
  <2>3. t \in Tasks
    <3> HIDE DEF next
    <3> QED
      BY <1>0, <2>1, <2>2, FreshFile
      DEF Tasks, TaskRecords, Points, Dealing, Files, Peer
  <2>4. worker' = [worker EXCEPT ![w] = t]
    BY <1>0, <1>6 DEF SaveSendSeq
  <2>5. file' \in Files
    <3>1. file' = [Copy(w) EXCEPT !.send[Peer(w)] = next]
      BY <1>6 DEF SaveSendSeq
    <3> QED
      BY <1>0, <2>1, <2>2, <3>1, Counted DEF Copy
  <2> QED
    BY <1>0, <1>6, <2>3, <2>4, <2>5, OneThread DEF SaveSendSeq, Accepted, StateOK
<1>7. CASE Post(w)
  <2> DEFINE t == [Idle EXCEPT !.at = "caching", !.op = "send"]
  <2>1. t \in Tasks
    BY FreshFile DEF Idle, Tasks, TaskRecords, Points, Dealing, Files
  <2>2. worker' = [worker EXCEPT ![w] = t]
    BY <1>0, <1>7 DEF Post
  <2>3. Peer(w) \in Peers /\ self.seq \in Nat \ {0}
    BY <1>0, <1>7 DEF Post, At, Peer, Tasks, TaskRecords, Dealing
  <2>4. posted' \in [Peers -> Seq(Nat \ {0})]
    <3>1. Append(posted[Peer(w)], self.seq) \in Seq(Nat \ {0})
      BY <1>0, <2>3, AppendProperties DEF StateOK
    <3> QED
      BY <1>0, <1>7, <3>1 DEF Post, StateOK
  <2> QED
    BY <1>0, <1>7, <2>1, <2>2, <2>4, OneThread DEF Post, Accepted, StateOK, disk
<1> QED
  BY <1>1, <1>2, <1>3, <1>4, <1>5, <1>6, <1>7

LEMMA PollAccepted ==
  ASSUME Accepted, NEW w \in Workers,
         StartPoll(w) \/ NextMessage(w) \/ ReadRecvSeq(w) \/ Open(w) \/ SaveRecvSeq(w)
           \/ Show(w) \/ EndPoll(w) \/ SnapshotCache(w) \/ ReplaceCacheFile(w)
  PROVE  Accepted'
<1> DEFINE self == worker[w]
<1>0. /\ StateOK /\ ThreadsOK /\ self \in Tasks /\ self \in TaskRecords
      /\ file \in Files /\ worker = [v \in Workers |-> worker[v]]
  BY DEF Accepted, ThreadsOK, Tasks, StateOK
<1>1. CASE StartPoll(w)
  <2> DEFINE t == [self EXCEPT !.at = "polling", !.op = "poll", !.todo = inbox \ cache]
  <2>1. t \in Tasks
    BY <1>0 DEF Tasks, TaskRecords, Points, Dealing, StateOK
  <2>2. worker' = [worker EXCEPT ![w] = t] /\ UNCHANGED State /\ UNCHANGED faults
    BY <1>0, <1>1 DEF StartPoll, State
  <2> QED
    BY <1>0, <2>1, <2>2, OneThread DEF Accepted, StateOK, State, disk
<1>2. CASE NextMessage(w)
  <2>1. PICK m \in Unread(w) :
          worker' = [worker EXCEPT ![w].at = "fetch", ![w].peer = From[m],
                                   ![w].seq = SeqNo(m), ![w].opening = {m},
                                   ![w].todo = Unread(w) \ {m}]
    BY <1>2 DEF NextMessage
  <2> DEFINE t == [self EXCEPT !.at = "fetch", !.peer = From[m], !.seq = SeqNo(m),
                               !.opening = {m}, !.todo = Unread(w) \ {m}]
  <2>2. m \in Messages /\ Unread(w) \subseteq Messages
    BY <1>0 DEF Unread, TaskRecords
  <2>3. From[m] \in Peers /\ SeqNo(m) \in Nat
    BY <2>2, WithFrom
  <2>4. t.at \in Dealing /\ t.op = "poll" => OnOne(t)
    BY <1>0, <2>2 DEF OnOne, TaskRecords
  <2>5. self.op = "poll"
    BY <1>0, <1>2 DEF NextMessage, At, Tasks
  <2>6. t \in Tasks
    BY <1>0, <2>2, <2>3, <2>4, <2>5 DEF Tasks, TaskRecords, Points, Dealing
  <2>7. worker' = [worker EXCEPT ![w] = t] /\ UNCHANGED State /\ UNCHANGED faults
    BY <1>0, <1>2, <2>1 DEF NextMessage, State
  <2> QED
    BY <1>0, <2>6, <2>7, OneThread DEF Accepted, StateOK, State, disk
<1>3. CASE ReadRecvSeq(w)
  <2> DEFINE t == [self EXCEPT !.at = "opening", !.last = file.recv[Peer(w)]]
  <2>1. Peer(w) \in Peers /\ self.op = "poll" /\ OnOne(self)
    BY <1>0, <1>3 DEF ReadRecvSeq, At, Peer, Tasks, Dealing
  <2>2. file.recv[Peer(w)] \in Nat
    BY <1>0, <2>1 DEF Files, File
  <2>3. OnOne(t)
    BY <1>0, <2>1 DEF OnOne, TaskRecords
  <2>4. t \in Tasks
    BY <1>0, <2>1, <2>2, <2>3 DEF Tasks, TaskRecords, Points, Dealing, Peer
  <2>5. worker' = [worker EXCEPT ![w] = t] /\ UNCHANGED State /\ UNCHANGED faults
    BY <1>0, <1>3 DEF ReadRecvSeq, State
  <2> QED
    BY <1>0, <2>4, <2>5, OneThread DEF Accepted, StateOK, State, disk
<1>4. CASE Open(w)
  <2>0. At(w, "opening") /\ self.op = "poll" /\ OnOne(self) /\ self.peer \in Peers
    BY <1>0, <1>4 DEF Open, At, Tasks, Dealing
  <2>1. UNCHANGED State /\ UNCHANGED faults
    BY <1>4 DEF Open, State
  <2>2. ASSUME NEW point \in {"accepting", "accepted"}, Goto(w, point),
               \E b \in BOOLEAN : Received(w, b) = "ok"
        PROVE  ThreadsOK'
    <3> DEFINE t == [self EXCEPT !.at = point, !.last = 0,
                                 !.copy = IF point = "accepting" THEN file ELSE Fresh]
    <3>1. self.opening \subseteq Genuine
      BY <1>0, <2>0, <2>2, OpenAccepts
    <3>2. OnOne(t)
      BY <1>0, <2>0 DEF OnOne, TaskRecords
    <3>3. t \in Tasks
      BY <1>0, <2>0, <3>1, <3>2, FreshFile DEF Tasks, TaskRecords, Points, Dealing, Files
    <3>4. worker' = [worker EXCEPT ![w] = t]
      BY <1>0, <2>2 DEF Goto
    <3> QED
      BY <1>0, <3>3, <3>4, OneThread
  <2>3. ASSUME Skip(w) PROVE ThreadsOK'
    <3> DEFINE t == [self EXCEPT !.at = "polling", !.last = 0, !.seq = 0,
                                 !.peer = NoPeer, !.opening = {}]
    <3>1. t \in Tasks
      BY <1>0, <2>0 DEF Tasks, TaskRecords, Points, Dealing
    <3>2. worker' = [worker EXCEPT ![w] = t]
      BY <1>0, <2>3 DEF Skip
    <3> QED
      BY <1>0, <3>1, <3>2, OneThread
  <2>4. ThreadsOK'
    BY <1>4, <2>2, <2>3 DEF Open
  <2> QED
    BY <1>0, <2>1, <2>4 DEF Accepted, StateOK, State, disk
<1>5. CASE SaveRecvSeq(w)
  <2> DEFINE t == [self EXCEPT !.at = "accepted", !.copy = Fresh]
  <2>1. self.at = "accepting" /\ self.op = "poll" /\ self.opening \subseteq Genuine
    BY <1>0, <1>5 DEF SaveRecvSeq, At, Tasks
  <2>2. t \in Tasks
    BY <1>0, <2>1, FreshFile DEF Tasks, TaskRecords, Points, Dealing, OnOne, Files
  <2>3. worker' = [worker EXCEPT ![w] = t]
    BY <1>0, <1>5 DEF SaveRecvSeq
  <2>4. /\ Opening(w) \in Genuine
        /\ Peer(w) = From[Opening(w)]
        /\ self.seq = SeqNo(Opening(w))
    BY <1>0, <2>1, OnMessage DEF Dealing
  <2>5. Copy(w) \in Files
    BY <1>0 DEF Copy, Tasks
  <2>6. file' \in Files
    BY <1>5, <2>4, <2>5, Received1 DEF SaveRecvSeq
  <2> QED
    BY <1>0, <1>5, <2>2, <2>3, <2>6, OneThread DEF SaveRecvSeq, Accepted, StateOK
<1>6. CASE Show(w)
  <2> DEFINE t == [self EXCEPT !.at = "polling", !.added = TRUE, !.opening = {},
                               !.seq = 0, !.peer = NoPeer]
  <2>1. self.op = "poll" /\ self.opening \subseteq Genuine
    BY <1>0, <1>6 DEF Show, At, Tasks
  <2>2. t \in Tasks
    BY <1>0, <2>1 DEF Tasks, TaskRecords, Points, Dealing
  <2>3. worker' = [worker EXCEPT ![w] = t]
    BY <1>0, <1>6 DEF Show
  <2>4. ThreadsOK'
    BY <1>0, <2>2, <2>3, OneThread
  <2>5. cache' \in SUBSET Genuine
    BY <1>0, <1>6, <2>1 DEF Show, StateOK
  <2> QED
    BY <1>0, <1>6, <2>4, <2>5 DEF Show, Accepted, StateOK, disk
<1>7. CASE EndPoll(w)
  <2> DEFINE t == IF self.added THEN [Idle EXCEPT !.at = "caching", !.op = "poll"] ELSE Idle
  <2>1. t \in Tasks
    BY IdleTask, FreshFile DEF Idle, Tasks, TaskRecords, Points, Dealing, Files
  <2>2. worker' = [worker EXCEPT ![w] = t] /\ UNCHANGED State /\ UNCHANGED faults
    BY <1>0, <1>7 DEF EndPoll, State
  <2> QED
    BY <1>0, <2>1, <2>2, OneThread DEF Accepted, StateOK, State, disk
<1>8. CASE SnapshotCache(w)
  <2> DEFINE t == [self EXCEPT !.at = "replacing", !.snap = cache]
  <2>1. cache \subseteq Genuine /\ cache \subseteq Messages
    BY <1>0 DEF StateOK, Genuine
  <2>2. t \in Tasks
    BY <1>0, <2>1 DEF Tasks, TaskRecords, Points, Dealing
  <2>3. worker' = [worker EXCEPT ![w] = t] /\ UNCHANGED State /\ UNCHANGED faults
    BY <1>0, <1>8 DEF SnapshotCache, State
  <2> QED
    BY <1>0, <2>2, <2>3, OneThread DEF Accepted, StateOK, State, disk
<1>9. CASE ReplaceCacheFile(w)
  <2>1. self.snap \subseteq Genuine
    BY <1>0 DEF Tasks
  <2> QED
    BY <1>0, <1>9, <2>1, IdleTask, OneThread DEF ReplaceCacheFile, Accepted, StateOK
<1> QED
  BY <1>1, <1>2, <1>3, <1>4, <1>5, <1>6, <1>7, <1>8, <1>9

LEMMA FaultAccepted ==
  ASSUME Accepted, Crash \/ \E w \in Workers : NetworkError(w) \/ PostAnswerLost(w)
  PROVE  Accepted'
<1>0. StateOK /\ ThreadsOK /\ worker = [v \in Workers |-> worker[v]]
  BY DEF Accepted, ThreadsOK
<1>1. CASE Crash
  BY <1>0, <1>1, IdleTask DEF Crash, Accepted, StateOK, ThreadsOK, disk
<1>2. ASSUME NEW w \in Workers, NetworkError(w) PROVE Accepted'
  <2> DEFINE resumed == [Idle EXCEPT !.at = "polling", !.op = "poll",
                                     !.todo = worker[w].todo, !.added = worker[w].added]
             t == IF worker[w].op = "send" THEN Idle ELSE resumed
  <2>1. worker[w].todo \in SUBSET Messages /\ worker[w].added \in BOOLEAN
    BY <1>0 DEF ThreadsOK, Tasks, TaskRecords
  <2>2. resumed \in Tasks
    BY <2>1, FreshFile DEF Idle, Tasks, TaskRecords, Points, Dealing, Files
  <2>3. t \in Tasks
    BY <2>2, IdleTask
  <2>4. worker' = [worker EXCEPT ![w] = t]
    BY <1>2 DEF NetworkError
  <2>5. ThreadsOK'
    <3> HIDE DEF t
    <3> QED
      BY <1>0, <2>3, <2>4, OneThread
  <2>6. faults' \in Nat
    <3>1. faults' = faults + 1
      BY <1>2 DEF NetworkError
    <3> QED
      BY <1>0, <3>1 DEF StateOK
  <2>7. UNCHANGED State
    BY <1>2 DEF NetworkError, State
  <2> HIDE DEF t
  <2> QED
    BY <1>0, <2>5, <2>6, <2>7 DEF Accepted, StateOK, State, disk
<1>3. ASSUME NEW w \in Workers, PostAnswerLost(w) PROVE Accepted'
  <2>1. Peer(w) \in Peers /\ worker[w].seq \in Nat \ {0}
    BY <1>0, <1>3 DEF PostAnswerLost, At, Peer, ThreadsOK, Tasks, TaskRecords, Dealing
  <2>2. Append(posted[Peer(w)], worker[w].seq) \in Seq(Nat \ {0})
    BY <1>0, <2>1, AppendProperties DEF StateOK
  <2>3. posted' \in [Peers -> Seq(Nat \ {0})]
    BY <1>0, <1>3, <2>2 DEF PostAnswerLost, StateOK
  <2> QED
    BY <1>0, <1>3, <2>3, IdleTask, OneThread DEF PostAnswerLost, Accepted, StateOK, disk
<1> QED
  BY <1>1, <1>2, <1>3

LEMMA AcceptedStep == Accepted /\ [Next]_vars => Accepted'
<1> SUFFICES ASSUME Accepted, [Next]_vars PROVE Accepted'
  OBVIOUS
<1>1. CASE UNCHANGED vars
  BY <1>1 DEF vars, disk, Accepted, StateOK, ThreadsOK
<1>2. ASSUME NEW m \in Messages, Arrive(m) PROVE Accepted'
  BY <1>2 DEF Arrive, disk, Accepted, StateOK, ThreadsOK
<1>3. ASSUME NEW w \in Workers, WorkerStep(w) PROVE Accepted'
  BY <1>3, SendAccepted, PollAccepted DEF WorkerStep
<1> QED
  BY <1>1, <1>2, <1>3, SendAccepted, PollAccepted, FaultAccepted DEF Next

LEMMA InitAccepted == Init => Accepted
<1>1. << >> \in Seq(Nat \ {0})
  OBVIOUS
<1> QED
  BY <1>1, FreshFile, IdleTask DEF Init, Accepted, StateOK, ThreadsOK

LEMMA AlwaysAccepted == Spec => []Accepted
  BY InitAccepted, AcceptedStep, PTL DEF Spec

\* Every variable keeps a value of its kind; in particular a thread that deals
\* with a peer has one, and the number it posts is at least 1.
THEOREM TypeCorrect == Spec => []TypeOK
<1>1. Accepted => TypeOK
  BY DEF Accepted, StateOK, ThreadsOK, TypeOK, Tasks, TaskRecords, Files, Genuine
<1> QED
  BY <1>1, AlwaysAccepted, PTL

\* Whatever the server alters and however threads overlap, crash and overwrite
\* each other's changes, the client shows and keeps only plaintexts their sender
\* sealed, and a receive counter is a number its sender used.
THEOREM GenuineOnly == Spec => []OnlyGenuineAccepted
<1>1. Accepted => OnlyGenuineAccepted
  BY DEF Accepted, StateOK, Files, GenuineSeqs, OnlyGenuineAccepted
<1> QED
  BY <1>1, AlwaysAccepted, PTL

----------------------------------------------------------------------------
(* One thread at a time.                                                   *)

Alone == \A v, w \in Workers : v = w \/ At(v, "idle") \/ At(w, "idle")

\* What thread w holds in memory agrees with what is on disk.
Agrees(w) ==
  /\ worker[w].at \in {"pinning", "counting", "accepting"} => Copy(w) = file
  /\ At(w, "opening") => worker[w].last = file.recv[Peer(w)]
  /\ At(w, "accepting") => file.recv[Peer(w)] <= worker[w].seq
  /\ At(w, "numbered") =>
       /\ worker[w].seq = file.send[Peer(w)]
       /\ \A i \in DOMAIN posted[Peer(w)] : posted[Peer(w)][i] < worker[w].seq

\* No number was posted that the counter on disk has not reached.
OnDisk == \A p \in Peers : \A i \in DOMAIN posted[p] : posted[p][i] <= file.send[p]

Consistent == Alone /\ (\A w \in Workers : Agrees(w)) /\ OnDisk /\ SeqsIncrease

SerialOK == ~overlap => Consistent

\* What a step of one thread has to show.
LEMMA OneActs ==
  ASSUME Accepted, Consistent, NEW w \in Workers,
         ~At(w, "idle") \/ \A v \in Workers : At(v, "idle"),
         \A v \in Workers \ {w} : worker'[v] = worker[v],
         Agrees(w)', OnDisk', SeqsIncrease'
  PROVE  Consistent'
<1>1. ASSUME NEW v \in Workers, v # w PROVE worker'[v].at = "idle"
  BY <1>1 DEF Consistent, Alone, At
<1>2. Alone'
  BY <1>1 DEF Alone, At
<1>3. ASSUME NEW v \in Workers PROVE Agrees(v)'
  BY <1>1, <1>3 DEF Agrees, At
<1> QED
  BY <1>2, <1>3 DEF Consistent

\* Most steps leave the counters and the posts alone.
LEMMA Untouched ==
  ASSUME Consistent, UNCHANGED posted,
         \A p \in Peers : file.send[p] <= file'.send[p], file \in File, file' \in File,
         posted \in [Peers -> Seq(Nat \ {0})]
  PROVE  OnDisk' /\ SeqsIncrease'
<1>1. SeqsIncrease'
  BY DEF Consistent, SeqsIncrease
<1>2. ASSUME NEW p \in Peers, NEW i \in DOMAIN posted[p] PROVE posted[p][i] <= file'.send[p]
  <2>1. posted[p][i] \in Nat /\ file.send[p] \in Nat /\ file'.send[p] \in Nat
    BY ElementOfSeq DEF File
  <2>2. posted[p][i] <= file.send[p] /\ file.send[p] <= file'.send[p]
    BY DEF Consistent, OnDisk
  <2> QED
    BY <2>1, <2>2
<1> QED
  BY <1>1, <1>2 DEF OnDisk

\* What the properties say of a step.
Keeps ==
  /\ file.pins \subseteq file'.pins
  /\ \A p \in Peers : file.send[p] <= file'.send[p] /\ file.recv[p] <= file'.recv[p]

LEMMA SameFile == ASSUME Accepted, UNCHANGED file PROVE Keeps
  BY DEF Keeps, Accepted, StateOK, Files, File

\* The steps that change no file and post nothing, by what the thread holds after.
LEMMA SerialReads ==
  ASSUME Accepted, Accepted', Consistent, ~overlap, NEW w \in Workers,
         (\E p \in Peers : StartSend(w, p)) \/ StartPoll(w) \/ FetchKeys(w)
           \/ LoadToPin(w) \/ LoadSendSeq(w) \/ NextMessage(w) \/ ReadRecvSeq(w)
           \/ Open(w) \/ Show(w) \/ EndPoll(w) \/ SnapshotCache(w)
           \/ ReplaceCacheFile(w) \/ NetworkError(w)
  PROVE  Consistent' /\ Keeps
<1>0. /\ worker = [v \in Workers |-> worker[v]] /\ worker[w] \in TaskRecords
      /\ file \in File /\ posted \in [Peers -> Seq(Nat \ {0})]
  BY DEF Accepted, ThreadsOK, Tasks, StateOK, Files
<1>1. UNCHANGED <<file, posted>>
  BY DEF StartSend, StartPoll, FetchKeys, LoadToPin, LoadSendSeq, NextMessage,
         ReadRecvSeq, Open, Show, EndPoll, SnapshotCache, ReplaceCacheFile,
         NetworkError, disk
<1>2. ~At(w, "idle") \/ \A v \in Workers : At(v, "idle")
  BY DEF StartSend, StartPoll, MayStart, FetchKeys, LoadToPin, LoadSendSeq, NextMessage,
         ReadRecvSeq, Open, Show, EndPoll, SnapshotCache, ReplaceCacheFile,
         NetworkError, At
<1>3. \A v \in Workers \ {w} : worker'[v] = worker[v]
  BY <1>0
  DEF StartSend, StartPoll, FetchKeys, LoadToPin, LoadSendSeq, NextMessage,
      ReadRecvSeq, Open, Goto, Skip, Show, EndPoll, SnapshotCache, ReplaceCacheFile,
      NetworkError
<1>4. OnDisk' /\ SeqsIncrease' /\ Keeps
  BY <1>0, <1>1, Untouched, SameFile DEF Keeps
<1>5. Agrees(w)'
  <2>1. CASE Open(w)
    <3>1. CASE Received(w, TRUE) = "ok" /\ Goto(w, "accepting")
      <4>1. worker'[w] = [worker[w] EXCEPT !.at = "accepting", !.last = 0, !.copy = file]
        BY <1>0, <3>1 DEF Goto
      <4>2. At(w, "opening") /\ worker[w].op = "poll" /\ worker[w].at \in Dealing
        BY <2>1 DEF Open, At, Accepted, ThreadsOK, Tasks, Dealing
      <4>3. worker[w].last = file.recv[Peer(w)] /\ worker[w].last \in Nat
        BY <1>0, <4>2 DEF Consistent, Agrees, TaskRecords
      <4>4. worker[w].last <= worker[w].seq
        <5>1. ThreadsOK
          BY DEF Accepted
        <5>2. Receive(Wire[Opening(w)], Account(Me), Account(From[Opening(w)]),
                      worker[w].last, TRUE) = "ok"
          BY <3>1, <4>2, <5>1, OnMessage DEF Received
        <5> QED
          BY <4>2, <4>3, <5>1, <5>2, OnMessage, OpenedIsAhead
      <4> QED
        BY <1>0, <1>1, <4>1, <4>3, <4>4 DEF Agrees, At, Copy, Peer, TaskRecords
    <3>2. CASE Goto(w, "accepted")
      BY <1>0, <3>2 DEF Goto, Agrees, At, TaskRecords
    <3>3. CASE Skip(w)
      BY <1>0, <3>3 DEF Skip, Agrees, At, TaskRecords
    <3> QED
      BY <2>1, <3>1, <3>2, <3>3 DEF Open
  <2>2. CASE (\E p \in Peers : StartSend(w, p)) \/ StartPoll(w) \/ FetchKeys(w)
                \/ NextMessage(w)
    <3>1. worker'[w].at \in {"fetch", "polling", "pinned", "unpinned"}
      <4>1. ASSUME NEW p \in Peers, StartSend(w, p) PROVE worker'[w].at = "fetch"
        BY <1>0, <4>1 DEF StartSend, TaskRecords
      <4>2. ASSUME StartPoll(w) PROVE worker'[w].at = "polling"
        BY <1>0, <4>2 DEF StartPoll, TaskRecords
      <4>3. ASSUME FetchKeys(w) PROVE worker'[w].at \in {"pinned", "unpinned"}
        BY <1>0, <4>3 DEF FetchKeys, TaskRecords
      <4>4. ASSUME NextMessage(w) PROVE worker'[w].at = "fetch"
        <5>1. PICK m \in Unread(w) :
                worker' = [worker EXCEPT ![w].at = "fetch", ![w].peer = From[m],
                                         ![w].seq = SeqNo(m), ![w].opening = {m},
                                         ![w].todo = Unread(w) \ {m}]
          BY <4>4 DEF NextMessage
        <5> QED
          BY <1>0, <5>1 DEF TaskRecords
      <4> QED
        BY <2>2, <4>1, <4>2, <4>3, <4>4
    <3> QED
      BY <3>1 DEF Agrees, At
  <2>3. CASE LoadToPin(w)
    <3>1. worker'[w].at = "pinning" /\ worker'[w].copy = file
      BY <1>0, <2>3 DEF LoadToPin, TaskRecords
    <3> QED
      BY <1>1, <3>1 DEF Agrees, At, Copy
  <2>4. CASE LoadSendSeq(w)
    <3>1. worker'[w].at = "counting" /\ worker'[w].copy = file
      BY <1>0, <2>4 DEF LoadSendSeq, TaskRecords
    <3> QED
      BY <1>1, <3>1 DEF Agrees, At, Copy
  <2>5. CASE ReadRecvSeq(w)
    BY <1>0, <1>1, <2>5 DEF ReadRecvSeq, Agrees, At, Peer, TaskRecords
  <2>6. CASE Show(w) \/ SnapshotCache(w)
    BY <1>0, <2>6 DEF Show, SnapshotCache, Agrees, At, TaskRecords
  <2>7. CASE EndPoll(w)
    BY <1>0, <2>7 DEF EndPoll, Agrees, At, Idle
  <2>8. CASE ReplaceCacheFile(w)
    BY <1>0, <2>8 DEF ReplaceCacheFile, Agrees, At, Idle
  <2>9. CASE NetworkError(w)
    BY <1>0, <2>9 DEF NetworkError, Agrees, At, Idle
  <2> QED
    BY <2>1, <2>2, <2>3, <2>4, <2>5, <2>6, <2>7, <2>8, <2>9
<1> QED
  BY <1>2, <1>3, <1>4, <1>5, OneActs

\* The steps that change the keystore file, and the posts.
LEMMA SerialWrites ==
  ASSUME Accepted, Accepted', Consistent, ~overlap, NEW w \in Workers,
         SavePin(w) \/ SaveSendSeq(w) \/ Post(w) \/ SaveRecvSeq(w) \/ PostAnswerLost(w)
  PROVE  Consistent' /\ Keeps
<1> DEFINE p == Peer(w)
<1>0. /\ worker = [v \in Workers |-> worker[v]] /\ worker[w] \in TaskRecords
      /\ file \in File /\ file' \in File /\ p \in Peers
      /\ posted \in [Peers -> Seq(Nat \ {0})] /\ Agrees(w) /\ OnDisk /\ SeqsIncrease
  <2>1. worker[w].at \in Dealing
    BY DEF SavePin, SaveSendSeq, Post, SaveRecvSeq, PostAnswerLost, At, Dealing
  <2> QED
    BY <2>1 DEF Accepted, ThreadsOK, Tasks, StateOK, Files, Peer, Consistent
<1>1. ~At(w, "idle")
  BY DEF SavePin, SaveSendSeq, Post, SaveRecvSeq, PostAnswerLost, At
<1>2. \A v \in Workers \ {w} : worker'[v] = worker[v]
  BY <1>0 DEF SavePin, SaveSendSeq, Post, SaveRecvSeq, PostAnswerLost
<1>3. CASE SavePin(w)
  <2>1. file' = [file EXCEPT !.pins = @ \cup {p}] /\ UNCHANGED posted
    BY <1>0, <1>3 DEF SavePin, Agrees, At
  <2>2. worker'[w].at = "pinned"
    BY <1>0, <1>3 DEF SavePin, TaskRecords
  <2>3. Agrees(w)'
    BY <2>2 DEF Agrees, At
  <2>4. Keeps
    BY <1>0, <2>1 DEF Keeps, File
  <2> QED
    BY <1>0, <1>1, <1>2, <2>1, <2>3, <2>4, Untouched, OneActs DEF Keeps
<1>4. CASE SaveRecvSeq(w)
  <2>1. file' = [file EXCEPT !.recv[p] = worker[w].seq] /\ UNCHANGED posted
    BY <1>0, <1>4 DEF SaveRecvSeq, Agrees, At
  <2>2. worker'[w].at = "accepted"
    BY <1>0, <1>4 DEF SaveRecvSeq, TaskRecords
  <2>3. Agrees(w)'
    BY <2>2 DEF Agrees, At
  <2>4. file.recv[p] <= worker[w].seq /\ worker[w].seq \in Nat
    BY <1>0, <1>4 DEF SaveRecvSeq, Agrees, At, TaskRecords
  <2>5. Keeps
    <3>1. \A q \in Peers : file'.recv[q] = IF q = p THEN worker[w].seq ELSE file.recv[q]
      BY <1>0, <2>1 DEF File
    <3> QED
      BY <1>0, <2>1, <2>4, <3>1 DEF Keeps, File
  <2> QED
    BY <1>0, <1>1, <1>2, <2>1, <2>3, <2>5, Untouched, OneActs DEF Keeps
<1>5. CASE SaveSendSeq(w)
  <2> DEFINE next == file.send[p] + 1
  <2>1. file' = [file EXCEPT !.send[p] = next] /\ UNCHANGED posted
    BY <1>0, <1>5 DEF SaveSendSeq, Agrees, At
  <2>2. /\ worker'[w].at = "numbered" /\ worker'[w].seq = next
        /\ worker'[w].peer = p
    BY <1>0, <1>5 DEF SaveSendSeq, Agrees, At, TaskRecords, Peer
  <2>3. file.send[p] \in Nat /\ file'.send[p] = next
    BY <1>0, <2>1 DEF File
  <2>4. ASSUME NEW i \in DOMAIN posted[p] PROVE posted[p][i] < next
    <3>1. posted[p][i] \in Nat
      BY <1>0, ElementOfSeq
    <3> QED
      BY <1>0, <2>3, <3>1 DEF OnDisk
  <2>5. Agrees(w)'
    <3> HIDE DEF next
    <3> QED
      BY <2>1, <2>2, <2>3, <2>4 DEF Agrees, At, Peer
  <2>6. Keeps
    <3>1. \A q \in Peers : file'.send[q] = IF q = p THEN next ELSE file.send[q]
      BY <1>0, <2>1 DEF File
    <3> QED
      BY <1>0, <2>1, <2>3, <3>1 DEF Keeps, File
  <2> QED
    BY <1>0, <1>1, <1>2, <2>1, <2>5, <2>6, Untouched, OneActs DEF Keeps
<1>6. CASE Post(w) \/ PostAnswerLost(w)
  <2> DEFINE n == worker[w].seq
  <2>1. posted' = [posted EXCEPT ![p] = Append(@, n)] /\ UNCHANGED file
    BY <1>6 DEF Post, PostAnswerLost, disk
  <2>2. n = file.send[p] /\ n \in Nat \ {0}
    <3>1. At(w, "numbered")
      BY <1>6 DEF Post, PostAnswerLost
    <3> QED
      BY <1>0, <3>1 DEF Agrees, At, Accepted, ThreadsOK, Tasks, TaskRecords
  <2>3. \A i \in DOMAIN posted[p] : posted[p][i] < n
    BY <1>0, <1>6 DEF Post, PostAnswerLost, Agrees, At
  <2>4. /\ DOMAIN posted'[p] = 1 .. Len(posted[p]) + 1
        /\ DOMAIN posted[p] = 1 .. Len(posted[p])
        /\ Len(posted[p]) \in Nat
        /\ posted'[p][Len(posted[p]) + 1] = n
        /\ \A i \in DOMAIN posted[p] : posted'[p][i] = posted[p][i]
    <3> HIDE DEF n
    <3>1. posted[p] \in Seq(Nat \ {0}) /\ posted'[p] = Append(posted[p], n)
      BY <1>0, <2>1
    <3> QED
      BY <2>2, <3>1, AppendProperties, LenProperties
  <2>5. \A q \in Peers \ {p} : posted'[q] = posted[q]
    BY <1>0, <2>1
  <2>6. OnDisk'
    <3>1. ASSUME NEW i \in DOMAIN posted'[p] PROVE posted'[p][i] <= file.send[p]
      <4>1. CASE i = Len(posted[p]) + 1
        BY <2>2, <2>4, <4>1
      <4>2. CASE i \in DOMAIN posted[p]
        BY <1>0, <2>4, <4>2 DEF OnDisk
      <4> QED
        BY <2>4, <4>1, <4>2
    <3> QED
      BY <1>0, <2>1, <2>5, <3>1 DEF OnDisk
  <2>7. SeqsIncrease'
    <3>1. ASSUME NEW i \in DOMAIN posted'[p], NEW j \in DOMAIN posted'[p], i < j
          PROVE  posted'[p][i] < posted'[p][j]
      <4>1. i \in DOMAIN posted[p]
        BY <2>4, <3>1
      <4>2. CASE j = Len(posted[p]) + 1
        BY <2>3, <2>4, <4>1, <4>2
      <4>3. CASE j \in DOMAIN posted[p]
        BY <1>0, <2>4, <3>1, <4>1, <4>3 DEF SeqsIncrease
      <4> QED
        BY <2>4, <4>2, <4>3
    <3> QED
      BY <1>0, <2>5, <3>1 DEF SeqsIncrease
  <2>8. Agrees(w)'
    <3>1. worker'[w].at \in {"idle", "caching"}
      <4>1. Idle.at = "idle" /\ [Idle EXCEPT !.at = "caching", !.op = "send"].at = "caching"
        BY DEF Idle
      <4>2. CASE Post(w)
        BY <1>0, <4>1, <4>2 DEF Post
      <4>3. CASE PostAnswerLost(w)
        BY <1>0, <4>1, <4>3 DEF PostAnswerLost
      <4> QED
        BY <1>6, <4>2, <4>3
    <3> QED
      BY <3>1 DEF Agrees, At
  <2> QED
    BY <1>0, <1>1, <1>2, <2>1, <2>6, <2>7, <2>8, OneActs, SameFile
<1> QED
  BY <1>3, <1>4, <1>5, <1>6

LEMMA SerialStep ==
  ASSUME Accepted, Accepted', SerialOK, [Next]_vars
  PROVE  SerialOK' /\ (~overlap => Keeps)
<1> SUFFICES ASSUME ~overlap PROVE Consistent' /\ Keeps
  <2>1. UNCHANGED overlap
    BY DEF Next, vars, WorkerStep, StartSend, StartPoll, FetchKeys, LoadToPin, SavePin,
           LoadSendSeq, SaveSendSeq, Post, NextMessage, ReadRecvSeq, Open, SaveRecvSeq,
           Show, EndPoll, SnapshotCache, ReplaceCacheFile, NetworkError, PostAnswerLost,
           Arrive, Crash
  <2> QED
    BY <2>1 DEF SerialOK
<1>0. Consistent
  BY DEF SerialOK
<1>1. CASE UNCHANGED vars \/ \E m \in Messages : Arrive(m)
  <2>1. UNCHANGED <<file, posted, worker>>
    BY <1>1 DEF vars, disk, Arrive
  <2>2. Consistent'
    BY <1>0, <2>1
    DEF Consistent, Alone, Agrees, At, Copy, Peer, OnDisk, SeqsIncrease
  <2> QED
    BY <2>1, <2>2, SameFile
<1>2. CASE Crash
  <2>1. UNCHANGED <<file, posted>> /\ worker' = [w \in Workers |-> Idle]
    BY <1>2 DEF Crash, disk
  <2>2. \A w \in Workers : worker'[w].at = "idle"
    BY <2>1 DEF Idle
  <2>3. Alone' /\ \A w \in Workers : Agrees(w)'
    BY <2>2 DEF Alone, Agrees, At
  <2>4. OnDisk' /\ SeqsIncrease'
    BY <1>0, <2>1 DEF Consistent, OnDisk, SeqsIncrease
  <2> QED
    BY <2>1, <2>3, <2>4, SameFile DEF Consistent
<1>3. ASSUME NEW w \in Workers,
             (\E p \in Peers : StartSend(w, p)) \/ StartPoll(w) \/ WorkerStep(w)
               \/ NetworkError(w) \/ PostAnswerLost(w)
      PROVE  Consistent' /\ Keeps
  BY <1>0, <1>3, SerialReads, SerialWrites DEF WorkerStep
<1> QED
  BY <1>1, <1>2, <1>3 DEF Next

LEMMA InitSerial == Init => SerialOK
<1> SUFFICES ASSUME Init PROVE Consistent
  BY DEF SerialOK
<1>1. \A w \in Workers : worker[w].at = "idle"
  BY DEF Init, Idle
<1>2. \A p \in Peers : DOMAIN posted[p] = {}
  BY DEF Init
<1> QED
  BY <1>1, <1>2 DEF Consistent, Alone, Agrees, At, OnDisk, SeqsIncrease

LEMMA AlwaysSerial == Spec => []SerialOK
  BY InitSerial, SerialStep, AlwaysAccepted, PTL DEF Spec

\* As long as threads do not overlap, no sequence number is used twice, for any
\* number of threads and peers and over any crash, failed request or lost answer.
THEOREM NoNumberTwice == Spec => []SerialSeqsIncrease
<1>1. SerialOK => SerialSeqsIncrease
  BY DEF SerialOK, Consistent, SerialSeqsIncrease
<1> QED
  BY <1>1, AlwaysSerial, PTL

\* As long as threads do not overlap, no step takes a counter back or forgets a
\* pinned peer.
THEOREM KeystoreKeeps == Spec => SerialKeystoreKeeps
<1>1. Accepted /\ Accepted' /\ SerialOK /\ [Next]_vars => (~overlap => Keeps)
  BY SerialStep
<1>2. Accepted /\ Accepted' /\ SerialOK /\ [Next]_vars
        => [~overlap =>
              /\ file.pins \subseteq file'.pins
              /\ \A p \in Peers : /\ file.send[p] <= file'.send[p]
                                  /\ file.recv[p] <= file'.recv[p]]_vars
  BY <1>1 DEF Keeps
<1> QED
  BY <1>2, AlwaysAccepted, AlwaysSerial, PTL DEF Spec, SerialKeystoreKeeps
=============================================================================
