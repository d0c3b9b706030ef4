------------------------- MODULE LocalArchiveProofs -------------------------
(***************************************************************************)
(* Proofs about LocalArchive, for any finite set of threads and any         *)
(* messages: what a process wrote can be renamed over the archive without   *)
(* loss, also over what dead processes left in the temporary file.          *)
(***************************************************************************)
EXTENDS LocalArchive, FiniteSetTheorems, TLAPS

Tasks ==
  [at : Points, op : {"none", "add", "rekey"}, key : Nat, newKey : Nat,
   message : SUBSET Messages, records : SUBSET Messages, fd : Inodes \cup {Absent},
   waits : BOOLEAN]

\* A process that writes has a file open.
ThreadsOK ==
  /\ thread \in [Threads -> Tasks]
  /\ \A t \in Threads : At(t, "writing") => thread[t].fd \in Inodes

FilesOK ==
  /\ overlap \in BOOLEAN
  /\ archive # temp \/ archive = Absent
  /\ kek \in Nat \ {0}
  /\ archive \in Inodes \cup {Absent}
  /\ temp \in Inodes \cup {Absent}
  /\ data \in [Inodes -> Contents]
  /\ saved \subseteq Messages
  /\ faults \in Nat

Typed == FilesOK /\ ThreadsOK

LEMMA IdleTask == Idle \in Tasks
  BY DEF Idle, Tasks, Points

LEMMA KindsOfContent ==
  /\ Empty \in Contents /\ Garbage \in Contents
  /\ \A key \in Nat, records \in SUBSET Messages : Blob(key, records) \in Contents
  BY DEF Empty, Garbage, Blob, Contents

\* While the temporary name is free there is an inode nobody uses.
LEMMA FreeInode ==
  ASSUME temp = Absent
  PROVE  \E j \in Inodes : j \notin InUse
<1> DEFINE fds == {thread[t].fd : t \in Threads}
           C == Cardinality(Threads)
<1> SUFFICES ASSUME Inodes \subseteq InUse PROVE FALSE
  OBVIOUS
<1>1. IsFiniteSet(fds) /\ Cardinality(fds) <= C /\ C \in Nat /\ Cardinality(fds) \in Nat
  <2>1. IsFiniteSet(Threads)
    BY ThreadsAssumption
  <2>2. [t \in Threads |-> thread[t].fd] \in Surjection(Threads, fds)
    BY DEF Surjection
  <2> QED
    BY <2>1, <2>2, FS_Surjection, FS_CardinalityType
<1> HIDE DEF fds
<1>2. IsFiniteSet(fds \cup {archive}) /\ Cardinality(fds \cup {archive}) <= C + 1
  <2>1. IsFiniteSet(fds)
    BY <1>1
  <2>2. /\ IsFiniteSet(fds \cup {archive})
        /\ Cardinality(fds \cup {archive})
             = IF archive \in fds THEN Cardinality(fds) ELSE Cardinality(fds) + 1
    BY <2>1, FS_AddElement
  <2> QED
    BY <1>1, <2>2
<1>3. IsFiniteSet(Inodes) /\ Cardinality(Inodes) = C + 2
  <2>1. 1 \in Int /\ C + 2 \in Int /\ ~(1 > C + 2)
    BY <1>1
  <2>2. Cardinality(1 .. C + 2) = (C + 2) - 1 + 1 /\ IsFiniteSet(1 .. C + 2)
    BY <2>1, FS_Interval
  <2> QED
    BY <1>1, <2>2 DEF Inodes
<1>4. Inodes \subseteq fds \cup {archive}
  BY <1>1, AbsentAssumption DEF Inodes, InUse, fds
<1>5. Cardinality(Inodes) <= Cardinality(fds \cup {archive})
  BY <1>2, <1>4, FS_Subset
<1>6. Cardinality(fds \cup {archive}) \in Nat
  BY <1>2, FS_CardinalityType
<1> QED
  BY <1>1, <1>2, <1>3, <1>5, <1>6

----------------------------------------------------------------------------
(* Values keep their kinds.                                                *)

LEMMA OneThread ==
  ASSUME Typed, NEW t \in Threads, NEW task \in Tasks,
         thread' = [thread EXCEPT ![t] = task],
         task.at = "writing" => task.fd \in Inodes
  PROVE  ThreadsOK'
  BY DEF Typed, ThreadsOK, At

LEMMA TypedStep ==
  ASSUME Typed, NEW t \in Threads,
         (\E m \in Messages : Download(t, m)) \/ Change(t) \/ ThreadStep(t)
           \/ WriteFails(t) \/ ProcessDies(t)
  PROVE  Typed'
<1> DEFINE self == thread[t]
<1>0. /\ self \in Tasks /\ kek \in Nat \ {0} /\ faults \in Nat /\ data \in [Inodes -> Contents]
      /\ thread = [u \in Threads |-> thread[u]] /\ thread \in [Threads -> Tasks]
      /\ archive \in Inodes \cup {Absent} /\ temp \in Inodes \cup {Absent}
      /\ overlap \in BOOLEAN /\ saved \subseteq Messages /\ self.message \subseteq Messages
      /\ archive # temp \/ archive = Absent
  BY DEF Typed, FilesOK, ThreadsOK, Tasks
<1>1. CASE \E m \in Messages : Download(t, m)
  <2> PICK m \in Messages : Download(t, m)
    BY <1>1
  <2> DEFINE task == [self EXCEPT !.at = "loading", !.op = "add", !.key = kek,
                                  !.newKey = kek, !.message = {m}]
  <2>1. task \in Tasks /\ task.at # "writing"
    BY <1>0 DEF Tasks, Points
  <2>2. thread' = [thread EXCEPT ![t] = task]
    BY <1>0 DEF Download
  <2>3. ThreadsOK'
    BY <2>1, <2>2, OneThread
  <2>4. FilesOK'
    BY <1>0 DEF Download, names, FilesOK
  <2> QED
    BY <2>3, <2>4 DEF Typed
<1>2. CASE Change(t)
  <2> DEFINE task == [self EXCEPT !.at = "rewrapping", !.op = "rekey", !.key = kek]
  <2>1. task \in Tasks /\ task.at # "writing"
    BY <1>0 DEF Tasks, Points
  <2>2. thread' = [thread EXCEPT ![t] = task]
    BY <1>0, <1>2 DEF Change
  <2>3. ThreadsOK'
    BY <2>1, <2>2, OneThread
  <2>4. FilesOK'
    BY <1>0, <1>2 DEF Change, names, FilesOK
  <2> QED
    BY <2>3, <2>4 DEF Typed
<1>3. CASE Rewrap(t)
  <2> DEFINE next == kek + 1
             task == [self EXCEPT !.at = "rewrapped", !.newKey = next]
  <2>0. next \in Nat
    BY <1>0
  <2>1. task \in Tasks /\ task.at # "writing"
    <3> HIDE DEF next
    <3> QED
      BY <1>0, <2>0 DEF Tasks, Points
  <2>2. thread' = [thread EXCEPT ![t] = task]
    BY <1>0, <1>3 DEF Rewrap
  <2>3. ThreadsOK'
    BY <2>1, <2>2, OneThread
  <2>4. FilesOK'
    BY <1>0, <1>3 DEF Rewrap, names, FilesOK
  <2> QED
    BY <2>3, <2>4 DEF Typed
<1>4. CASE StartRekey(t)
  <2> DEFINE task == IF archive = Absent THEN Idle ELSE [self EXCEPT !.at = "loading"]
  <2>1. task \in Tasks /\ task.at # "writing"
    BY <1>0, IdleTask DEF Tasks, Points, Idle
  <2>2. thread' = [thread EXCEPT ![t] = task]
    BY <1>0, <1>4 DEF StartRekey
  <2>3. ThreadsOK'
    BY <2>1, <2>2, OneThread
  <2>4. FilesOK'
    BY <1>0, <1>4 DEF StartRekey, names, FilesOK
  <2> QED
    BY <2>3, <2>4 DEF Typed
<1>5. CASE Load(t)
  <2>1. Records \subseteq Messages
    BY <1>0 DEF Records, Contents
  <2> DEFINE task == [self EXCEPT !.at = "opening", !.records = Records \cup self.message]
  <2>2. task \in Tasks /\ task.at # "writing" /\ Idle \in Tasks /\ Idle.at # "writing"
    BY <1>0, <2>1, IdleTask DEF Tasks, Points, Idle
  <2>3. thread' = [thread EXCEPT ![t] = task] \/ thread' = [thread EXCEPT ![t] = Idle]
    BY <1>0, <1>5 DEF Load, Ends
  <2>4. ThreadsOK'
    BY <2>2, <2>3, OneThread
  <2>5. FilesOK'
    BY <1>0, <1>5 DEF Load, names, FilesOK
  <2> QED
    BY <2>4, <2>5 DEF Typed
<1>6. CASE OpenTemp(t)
  <2> DEFINE i == IF temp # Absent THEN temp ELSE CHOOSE j \in Inodes \ InUse : TRUE
             task == [self EXCEPT !.at = "writing", !.fd = i]
  <2>1. i \in Inodes /\ i # archive
    <3>1. CASE temp # Absent
      BY <1>0, <3>1
    <3>2. CASE temp = Absent
      BY <3>2, FreeInode DEF InUse
    <3> QED
      BY <3>1, <3>2
  <2>2. temp' = i /\ data' = [data EXCEPT ![i] = Empty]
    BY <1>6 DEF OpenTemp
  <2>3. thread' = [thread EXCEPT ![t] = task]
    <3>1. thread' = [thread EXCEPT ![t].at = "writing", ![t].fd = i]
      BY <1>6 DEF OpenTemp
    <3> HIDE DEF i
    <3> QED
      BY <1>0, <3>1
  <2> HIDE DEF i
  <2>4. task \in Tasks /\ task.fd \in Inodes
    BY <1>0, <2>1 DEF Tasks, Points
  <2>5. data' \in [Inodes -> Contents]
    BY <1>0, <2>1, <2>2, KindsOfContent
  <2>6. ThreadsOK'
    BY <2>3, <2>4, OneThread
  <2>7. FilesOK'
    BY <1>0, <1>6, <2>1, <2>2, <2>5 DEF OpenTemp, names, FilesOK
  <2> QED
    BY <2>6, <2>7 DEF Typed
<1>7. CASE Write(t)
  <2> DEFINE task == [self EXCEPT !.at = "renaming", !.fd = Absent]
  <2>1. task \in Tasks /\ task.at # "writing"
    BY <1>0 DEF Tasks, Points
  <2>2. thread' = [thread EXCEPT ![t] = task]
    BY <1>0, <1>7 DEF Write
  <2>3. data' \in [Inodes -> Contents]
    <3>1. Blob(self.newKey, self.records) \in Contents /\ Garbage \in Contents
      BY <1>0, KindsOfContent DEF Tasks
    <3> QED
      BY <1>0, <1>7, <3>1 DEF Write
  <2>4. ThreadsOK'
    BY <2>1, <2>2, OneThread
  <2>5. FilesOK'
    BY <1>0, <1>7, <2>3 DEF Write, names, FilesOK
  <2> QED
    BY <2>4, <2>5 DEF Typed
<1>8. CASE Rename(t)
  <2>1. thread' = [thread EXCEPT ![t] = Idle] /\ Idle \in Tasks /\ Idle.at # "writing"
    BY <1>8, IdleTask DEF Rename, Ends, Idle
  <2>2. saved' \subseteq Messages
    BY <1>0, <1>8 DEF Rename, Report
  <2>3. /\ archive' \in Inodes \cup {Absent} /\ temp' \in Inodes \cup {Absent}
        /\ archive' # temp' \/ archive' = Absent
    BY <1>0, <1>8 DEF Rename
  <2>4. ThreadsOK'
    BY <2>1, OneThread
  <2>5. FilesOK'
    BY <1>0, <1>8, <2>2, <2>3 DEF Rename, names, FilesOK
  <2> QED
    BY <2>4, <2>5 DEF Typed
<1>9. CASE WriteFails(t)
  <2>1. thread' = [thread EXCEPT ![t] = Idle] /\ Idle \in Tasks /\ Idle.at # "writing"
    BY <1>9, IdleTask DEF WriteFails, Ends, Idle
  <2>2. data' \in [Inodes -> Contents]
    BY <1>0, <1>9, KindsOfContent DEF WriteFails
  <2>3. ThreadsOK'
    BY <2>1, OneThread
  <2>4. FilesOK'
    BY <1>0, <1>9, <2>2 DEF WriteFails, names, FilesOK
  <2> QED
    BY <2>3, <2>4 DEF Typed
<1>10. CASE ProcessDies(t)
  <2>1. thread' = [thread EXCEPT ![t] = Idle] /\ Idle \in Tasks /\ Idle.at # "writing"
    BY <1>10, IdleTask DEF ProcessDies, Ends, Idle
  <2>2. ThreadsOK'
    BY <2>1, OneThread
  <2>3. FilesOK'
    BY <1>0, <1>10 DEF ProcessDies, names, FilesOK
  <2> QED
    BY <2>2, <2>3 DEF Typed
<1> QED
  BY <1>1, <1>2, <1>3, <1>4, <1>5, <1>6, <1>7, <1>8, <1>9, <1>10 DEF ThreadStep

LEMMA TypedNext == Typed /\ [Next]_vars => Typed'
<1> SUFFICES ASSUME Typed, [Next]_vars PROVE Typed'
  OBVIOUS
<1>1. CASE UNCHANGED vars
  BY <1>1 DEF vars, names, Typed, FilesOK, ThreadsOK, At
<1>2. CASE ClientDies
  <2>1. \A t \in Threads :
          /\ thread'[t] \in Tasks
          /\ thread'[t].at = "writing" => thread'[t].fd \in Inodes
    <3> TAKE t \in Threads
    <3>1. thread[t] \in Tasks
      BY DEF Typed, ThreadsOK
    <3>2. [thread[t] EXCEPT !.waits = At(t, "idle")] \in Tasks
      BY <3>1 DEF Tasks, At
    <3>3. Idle.at # "writing"
      BY DEF Idle
    <3>4. thread'[t] = Idle \/ thread'[t] = [thread[t] EXCEPT !.waits = At(t, "idle")]
      BY <1>2 DEF ClientDies
    <3>5. CASE thread'[t] = Idle
      BY <3>3, <3>5, IdleTask
    <3>6. CASE thread'[t] = [thread[t] EXCEPT !.waits = At(t, "idle")]
      BY <3>1, <3>2, <3>6 DEF Typed, ThreadsOK, At, Tasks
    <3> QED
      BY <3>4, <3>5, <3>6
  <2>2. thread' \in [Threads -> Tasks]
    BY <1>2, <2>1 DEF ClientDies
  <2>3. faults' \in Nat
    BY <1>2 DEF ClientDies, Typed, FilesOK
  <2> QED
    BY <1>2, <2>1, <2>2, <2>3 DEF ClientDies, names, Typed, FilesOK, ThreadsOK, At
<1> QED
  BY <1>1, <1>2, TypedStep DEF Next

LEMMA InitTyped == Init => Typed
<1> SUFFICES ASSUME Init PROVE Typed
  OBVIOUS
<1>1. Idle.at # "writing"
  BY DEF Idle
<1> QED
  BY <1>1, IdleTask, KindsOfContent DEF Init, Typed, FilesOK, ThreadsOK, At

LEMMA AlwaysTyped == Spec => []Typed
  BY InitTyped, TypedNext, PTL DEF Spec

\* Every variable keeps a value of its kind, and with any number of processes at
\* once what is being written is never the archive itself.
THEOREM TypeCorrect == Spec => []TypeOK
<1>1. Typed => TypeOK
  BY DEF Typed, FilesOK, ThreadsOK, Tasks, TypeOK
<1> QED
  BY <1>1, AlwaysTyped, PTL

----------------------------------------------------------------------------
(* One thread at a time.                                                   *)

Alone == \A t, u \in Threads : t = u \/ At(t, "idle") \/ At(u, "idle")

Whole ==
  archive # Absent => data[archive].kind = "blob" /\ data[archive].key \in 1 .. kek

Kept == saved \subseteq Records

\* What a thread carries replaces the archive without loss.
Carries(t) ==
  /\ ~At(t, "idle") /\ ~At(t, "rewrapping") => thread[t].newKey \in 1 .. kek
  /\ thread[t].at \in {"opening", "writing", "renaming"} =>
       saved \cup thread[t].message \subseteq thread[t].records
  /\ At(t, "writing") => thread[t].fd = temp /\ data[temp] = Empty
  /\ At(t, "renaming") =>
       temp # Absent /\ data[temp] = Blob(thread[t].newKey, thread[t].records)

Consistent == Alone /\ Whole /\ Kept /\ \A t \in Threads : Carries(t)

\* While nothing fails the archive opens with the key of whoever is at it, and at
\* rest with the keystore's.
Follows(t) ==
  /\ ~At(t, "idle") => Loads(thread[t].key)
  /\ At(t, "rewrapping") => thread[t].key = kek
  /\ ~At(t, "idle") /\ ~At(t, "rewrapping") => thread[t].newKey = kek
  /\ At(t, "loading") /\ thread[t].op = "rekey" => archive # Absent

Following == (AtRest => Loads(kek)) /\ \A t \in Threads : Follows(t)

SerialOK == ~overlap => Consistent /\ (faults = 0 => Following)

LEMMA OneActs ==
  ASSUME Consistent, NEW t \in Threads,
         ~At(t, "idle") \/ AtRest,
         \A u \in Threads \ {t} : thread'[u] = thread[u]
  PROVE  /\ \A u \in Threads \ {t} : thread'[u].at = "idle"
         /\ Whole' /\ Kept' /\ Carries(t)' => Consistent'
         /\ Follows(t)' /\ (thread'[t].at = "idle" => Loads(kek)') => Following'
<1>1. \A u \in Threads \ {t} : thread'[u].at = "idle"
  BY DEF Consistent, Alone, AtRest, At
<1>2. ASSUME Whole', Kept', Carries(t)' PROVE Consistent'
  <2>1. Alone'
    BY <1>1 DEF Alone, At
  <2>2. \A u \in Threads : Carries(u)'
    BY <1>1, <1>2 DEF Carries, At
  <2> QED
    BY <1>2, <2>1, <2>2 DEF Consistent
<1>3. ASSUME Follows(t)', thread'[t].at = "idle" => Loads(kek)' PROVE Following'
  <2>1. \A u \in Threads : Follows(u)'
    BY <1>1, <1>3 DEF Follows, At
  <2>2. AtRest' => Loads(kek)'
    BY <1>3 DEF AtRest, At
  <2> QED
    BY <2>1, <2>2 DEF Following
<1> QED
  BY <1>1, <1>2, <1>3

\* What a step of one thread has to show.
Shown(t) ==
  /\ Whole' /\ Kept' /\ Carries(t)'
  /\ faults' = 0 => Follows(t)' /\ (thread'[t].at = "idle" => Loads(kek)')

LEMMA ReadingSteps ==
  ASSUME Typed, SerialOK, ~overlap, NEW t \in Threads,
         (\E m \in Messages : Download(t, m)) \/ Change(t) \/ Rewrap(t) \/ StartRekey(t)
           \/ Load(t) \/ ProcessDies(t)
  PROVE  Shown(t)
<1> DEFINE self == thread[t]
<1>0. /\ self \in Tasks /\ kek \in Nat \ {0} /\ faults \in Nat
      /\ thread = [u \in Threads |-> thread[u]]
      /\ Whole /\ Kept /\ Carries(t)
      /\ faults = 0 => Following /\ Follows(t)
  BY DEF Typed, FilesOK, ThreadsOK, SerialOK, Consistent, Following
<1>1. UNCHANGED <<archive, temp, data, saved>>
  BY DEF Download, Change, Rewrap, StartRekey, Load, ProcessDies, names
<1>2. kek' \in {kek, kek + 1} /\ Whole' /\ Kept'
  <2>1. kek' \in {kek, kek + 1}
    BY DEF Download, Change, Rewrap, StartRekey, Load, ProcessDies
  <2>2. 1 .. kek \subseteq 1 .. kek'
    BY <1>0, <2>1
  <2> QED
    BY <1>0, <1>1, <2>1, <2>2 DEF Whole, Kept, Records
<1>3. CASE \E m \in Messages : Download(t, m)
  <2> PICK m \in Messages : Download(t, m)
    BY <1>3
  <2>1. /\ thread'[t].at = "loading" /\ thread'[t].op = "add" /\ thread'[t].key = kek
        /\ thread'[t].newKey = kek /\ UNCHANGED <<kek, faults>> /\ AtRest
    BY <1>0 DEF Download, MayStart, Tasks
  <2>2. kek \in 1 .. kek
    BY <1>0
  <2>3. Carries(t)'
    BY <2>1, <2>2 DEF Carries, At
  <2>4. ASSUME faults' = 0 PROVE Loads(kek)'
    BY <1>0, <1>1, <2>1, <2>4 DEF Following, Loads
  <2>5. ASSUME faults' = 0 PROVE Follows(t)'
    BY <2>1, <2>4, <2>5 DEF Follows, At, Loads
  <2> QED
    BY <1>2, <2>1, <2>3, <2>5 DEF Shown
<1>4. CASE Change(t)
  <2>1. /\ thread'[t].at = "rewrapping" /\ thread'[t].key = kek
        /\ UNCHANGED <<kek, faults>> /\ AtRest
    BY <1>0, <1>4 DEF Change, MayStart, Tasks
  <2>2. Carries(t)'
    BY <2>1 DEF Carries, At
  <2>3. ASSUME faults' = 0 PROVE Loads(kek)'
    BY <1>0, <1>1, <2>1, <2>3 DEF Following, Loads
  <2>4. ASSUME faults' = 0 PROVE Follows(t)'
    BY <2>1, <2>3, <2>4 DEF Follows, At, Loads
  <2> QED
    BY <1>2, <2>1, <2>2, <2>4 DEF Shown
<1>5. CASE Rewrap(t)
  <2>1. /\ thread'[t].at = "rewrapped" /\ thread'[t].key = self.key
        /\ thread'[t].newKey = kek + 1 /\ kek' = kek + 1 /\ UNCHANGED faults
        /\ self.at = "rewrapping"
    BY <1>0, <1>5 DEF Rewrap, Tasks, At
  <2>2. kek + 1 \in 1 .. kek + 1
    BY <1>0
  <2>3. Carries(t)'
    BY <2>1, <2>2 DEF Carries, At
  <2>4. ASSUME faults' = 0 PROVE Follows(t)'
    BY <1>0, <1>1, <2>1, <2>4 DEF Follows, At, Loads
  <2> QED
    BY <1>2, <2>1, <2>3, <2>4 DEF Shown
<1>6. CASE StartRekey(t)
  <2>1. UNCHANGED <<kek, faults>> /\ self.at = "rewrapped"
    BY <1>6 DEF StartRekey, At
  <2>2. CASE archive = Absent
    <3>1. thread'[t].at = "idle"
      BY <1>0, <1>6, <2>2 DEF StartRekey, Idle
    <3> QED
      BY <1>1, <1>2, <2>2, <3>1 DEF Shown, Carries, Follows, At, Loads
  <2>3. CASE archive # Absent
    <3>1. thread'[t] = [self EXCEPT !.at = "loading"]
      BY <1>0, <1>6, <2>3 DEF StartRekey
    <3>2. /\ thread'[t].at = "loading" /\ thread'[t].key = self.key
          /\ thread'[t].newKey = self.newKey
      BY <1>0, <3>1 DEF Tasks
    <3>3. Carries(t)'
      BY <1>0, <2>1, <3>2 DEF Carries, At
    <3>4. ASSUME faults' = 0 PROVE Follows(t)'
      BY <1>0, <1>1, <2>1, <2>3, <3>2, <3>4 DEF Follows, At, Loads
    <3> QED
      BY <1>2, <3>2, <3>3, <3>4 DEF Shown
  <2> QED
    BY <2>2, <2>3
<1>7. CASE Load(t)
  <2>1. UNCHANGED <<kek, faults>> /\ self.at = "loading"
    BY <1>7 DEF Load, At
  <2>2. CASE Loads(self.key) /\ (self.op = "rekey" => archive # Absent)
    <3>1. thread'[t] = [self EXCEPT !.at = "opening", !.records = Records \cup self.message]
      BY <1>0, <1>7, <2>2 DEF Load
    <3>2. /\ thread'[t].at = "opening" /\ thread'[t].key = self.key
          /\ thread'[t].newKey = self.newKey /\ thread'[t].message = self.message
          /\ thread'[t].records = Records \cup self.message
      BY <1>0, <3>1 DEF Tasks
    <3>3. Carries(t)'
      BY <1>0, <1>1, <2>1, <3>2 DEF Carries, At, Kept
    <3>4. ASSUME faults' = 0 PROVE Follows(t)'
      BY <1>0, <1>1, <2>1, <3>2, <3>4 DEF Follows, At, Loads
    <3> QED
      BY <1>2, <3>2, <3>3, <3>4 DEF Shown
  <2>3. CASE ~(Loads(self.key) /\ (self.op = "rekey" => archive # Absent))
    <3>1. thread'[t].at = "idle"
      BY <1>0, <1>7, <2>3 DEF Load, Ends, Idle
    <3>2. faults # 0
      BY <1>0, <2>1, <2>3 DEF Follows, At
    <3> QED
      BY <1>2, <2>1, <3>1, <3>2 DEF Shown, Carries, At
  <2> QED
    BY <2>2, <2>3
<1>8. CASE ProcessDies(t)
  <2>1. thread'[t].at = "idle"
    BY <1>0, <1>8 DEF ProcessDies, Ends, Idle
  <2>2. faults' # 0
    BY <1>0, <1>8 DEF ProcessDies
  <2> QED
    BY <1>2, <2>1, <2>2 DEF Shown, Carries, At
<1> QED
  BY <1>3, <1>4, <1>5, <1>6, <1>7, <1>8

LEMMA WritingSteps ==
  ASSUME Typed, SerialOK, ~overlap, NEW t \in Threads,
         OpenTemp(t) \/ Write(t) \/ Rename(t) \/ WriteFails(t)
  PROVE  Shown(t)
<1> DEFINE self == thread[t]
<1>0. /\ self \in Tasks /\ kek \in Nat \ {0} /\ faults \in Nat
      /\ thread = [u \in Threads |-> thread[u]] /\ data \in [Inodes -> Contents]
      /\ archive # temp \/ archive = Absent
      /\ archive \in Inodes \cup {Absent} /\ temp \in Inodes \cup {Absent}
      /\ At(t, "writing") => self.fd \in Inodes
      /\ Whole /\ Kept /\ Carries(t)
      /\ faults = 0 => Following /\ Follows(t)
  BY DEF Typed, FilesOK, ThreadsOK, SerialOK, Consistent, Following
<1>1. UNCHANGED kek
  BY DEF OpenTemp, Write, Rename, WriteFails
\* The archive's content is not touched before the rename.
<1>2. ASSUME NEW i \in Inodes, NEW c, i # archive, data' = [data EXCEPT ![i] = c],
             UNCHANGED <<archive, saved>>
      PROVE  /\ Whole' /\ Kept'
             /\ \A key : Loads(key) => Loads(key)'
  BY <1>0, <1>1, <1>2 DEF Whole, Kept, Records, Loads
<1>3. CASE OpenTemp(t)
  <2> DEFINE i == IF temp # Absent THEN temp ELSE CHOOSE j \in Inodes \ InUse : TRUE
  <2>1. i \in Inodes /\ i # archive
    <3>1. CASE temp # Absent
      BY <1>0, <3>1
    <3>2. CASE temp = Absent
      BY <3>2, FreeInode DEF InUse
    <3> QED
      BY <3>1, <3>2
  <2>2. /\ temp' = i /\ data' = [data EXCEPT ![i] = Empty] /\ self.at = "opening"
        /\ thread' = [thread EXCEPT ![t].at = "writing", ![t].fd = i]
        /\ UNCHANGED <<archive, saved, faults>>
    BY <1>3 DEF OpenTemp, At
  <2> HIDE DEF i
  <2>3. /\ thread'[t].at = "writing" /\ thread'[t].fd = i /\ thread'[t].key = self.key
        /\ thread'[t].newKey = self.newKey /\ thread'[t].records = self.records
        /\ thread'[t].message = self.message
    BY <1>0, <2>2 DEF Tasks
  <2>4. Whole' /\ Kept' /\ \A key : Loads(key) => Loads(key)'
    BY <1>2, <2>1, <2>2
  <2>5. data'[temp'] = Empty
    BY <1>0, <2>1, <2>2
  <2>6. Carries(t)'
    BY <1>0, <1>1, <2>2, <2>3, <2>5 DEF Carries, At
  <2>7. ASSUME faults' = 0 PROVE Follows(t)'
    BY <1>0, <1>1, <2>2, <2>3, <2>4, <2>7 DEF Follows, At
  <2> QED
    BY <2>3, <2>4, <2>6, <2>7 DEF Shown
<1>4. CASE Write(t)
  <2> DEFINE c == Blob(self.newKey, self.records)
  <2>1. /\ self.at = "writing" /\ self.fd = temp /\ data[temp] = Empty /\ temp \in Inodes
        /\ temp # archive
    BY <1>0, <1>4, AbsentAssumption DEF Write, Carries, At, Inodes
  <2>2. data' = [data EXCEPT ![temp] = c]
    <3>1. data[self.fd].records = {} /\ data[self.fd].kind # "garbage"
      BY <2>1 DEF Empty
    <3>2. PICK d \in {c, Garbage} :
            /\ d = Garbage => ~(data[self.fd].records \subseteq self.records)
                              \/ data[self.fd].kind = "garbage"
            /\ data' = [data EXCEPT ![self.fd] = d]
      BY <1>4 DEF Write
    <3> QED
      BY <2>1, <3>1, <3>2
  <2>3. UNCHANGED <<archive, temp, saved, faults>>
    BY <1>4 DEF Write, names
  <2>4. /\ thread'[t].at = "renaming" /\ thread'[t].key = self.key
        /\ thread'[t].newKey = self.newKey /\ thread'[t].records = self.records
        /\ thread'[t].message = self.message
    BY <1>0, <1>4 DEF Write, Tasks
  <2>5. Whole' /\ Kept' /\ \A key : Loads(key) => Loads(key)'
    <3> HIDE DEF c
    <3> QED
      BY <1>2, <2>1, <2>2, <2>3
  <2>6. data'[temp'] = Blob(thread'[t].newKey, thread'[t].records) /\ temp' # Absent
    BY <1>0, <2>1, <2>2, <2>3, <2>4, AbsentAssumption DEF Inodes
  <2>7. Carries(t)'
    BY <1>0, <1>1, <2>1, <2>3, <2>4, <2>6 DEF Carries, At
  <2>8. ASSUME faults' = 0 PROVE Follows(t)'
    BY <1>0, <1>1, <2>1, <2>3, <2>4, <2>5, <2>8 DEF Follows, At
  <2> QED
    BY <2>4, <2>5, <2>7, <2>8 DEF Shown
<1>5. CASE Rename(t)
  <2>1. /\ self.at = "renaming" /\ temp # Absent
        /\ data[temp] = Blob(self.newKey, self.records) /\ self.newKey \in 1 .. kek
        /\ saved \cup self.message \subseteq self.records
    BY <1>0, <1>5 DEF Rename, Carries, At
  <2>2. /\ archive' = temp /\ UNCHANGED <<data, faults>>
        /\ saved' \subseteq saved \cup self.message
    BY <1>5, <2>1 DEF Rename, Report
  <2>3. thread'[t].at = "idle"
    BY <1>0, <1>5 DEF Rename, Ends, Idle
  <2>4. /\ data'[archive'].kind = "blob" /\ data'[archive'].key = self.newKey
        /\ data'[archive'].records = self.records
    BY <2>1, <2>2 DEF Blob
  <2>5. Whole' /\ Kept'
    BY <1>1, <2>1, <2>2, <2>4 DEF Whole, Kept, Records
  <2>6. Carries(t)' /\ Follows(t)'
    BY <2>3 DEF Carries, Follows, At
  <2>7. ASSUME faults' = 0 PROVE Loads(kek)'
    BY <1>0, <1>1, <2>1, <2>2, <2>4, <2>7 DEF Follows, At, Loads
  <2> QED
    BY <2>5, <2>6, <2>7 DEF Shown
<1>6. CASE WriteFails(t)
  <2>1. /\ self.fd \in Inodes /\ self.fd # archive /\ data' = [data EXCEPT ![self.fd] = Garbage]
        /\ UNCHANGED <<archive, saved>>
    BY <1>0, <1>6, AbsentAssumption DEF WriteFails, Carries, At, Inodes
  <2>2. thread'[t].at = "idle"
    BY <1>0, <1>6 DEF WriteFails, Ends, Idle
  <2>3. faults' # 0
    BY <1>0, <1>6 DEF WriteFails
  <2>4. Whole' /\ Kept'
    BY <1>2, <2>1
  <2> QED
    BY <2>2, <2>3, <2>4 DEF Shown, Carries, At
<1> QED
  BY <1>3, <1>4, <1>5, <1>6

LEMMA SerialStep ==
  ASSUME Typed, SerialOK, [Next]_vars
  PROVE  SerialOK'
<1> SUFFICES ASSUME ~overlap PROVE Consistent' /\ (faults' = 0 => Following')
  <2>1. ASSUME NEW t \in Threads, ThreadStep(t) PROVE UNCHANGED overlap
    BY <2>1 DEF ThreadStep, Rewrap, StartRekey, Load, OpenTemp, Write, Rename
  <2>2. UNCHANGED overlap
    BY <2>1 DEF Next, vars, Download, Change, WriteFails, ProcessDies, ClientDies
  <2> QED
    BY <2>2 DEF SerialOK
<1>0. Consistent /\ (faults = 0 => Following) /\ thread = [u \in Threads |-> thread[u]]
  BY DEF SerialOK, Typed, ThreadsOK
<1>1. CASE UNCHANGED vars
  BY <1>0, <1>1
  DEF vars, names, Consistent, Alone, Whole, Kept, Records, Carries, Following, Follows,
      AtRest, At, Loads
<1>2. CASE ClientDies
  <2>1. UNCHANGED <<kek, archive, temp, data, saved>> /\ faults' # 0
    <3>1. faults' = faults + 1 /\ UNCHANGED <<kek, archive, temp, data, saved>>
      BY <1>2 DEF ClientDies, names
    <3>2. faults \in Nat
      BY DEF Typed, FilesOK
    <3> QED
      BY <3>1, <3>2
  <2>2. Whole' /\ Kept'
    BY <1>0, <2>1 DEF Consistent, Whole, Kept, Records
  <2>3. ASSUME NEW t \in Threads
        PROVE  /\ At(t, "idle") => At(t, "idle")'
               /\ Carries(t)'
    <3>1. thread[t] \in Tasks /\ Carries(t)
      BY <1>0 DEF Consistent, Typed, ThreadsOK
    <3>2. CASE thread'[t] = Idle
      <4>1. thread'[t].at = "idle"
        BY <3>2 DEF Idle
      <4> QED
        BY <4>1 DEF Carries, At
    <3>3. CASE thread'[t] = [thread[t] EXCEPT !.waits = At(t, "idle")]
      BY <2>1, <3>1, <3>3 DEF Carries, At, Tasks
    <3> QED
      BY <1>2, <3>2, <3>3 DEF ClientDies
  <2>4. Alone'
    BY <1>0, <2>3 DEF Consistent, Alone
  <2> QED
    BY <2>1, <2>2, <2>3, <2>4 DEF Consistent
<1>3. ASSUME NEW t \in Threads,
             (\E m \in Messages : Download(t, m)) \/ Change(t) \/ ThreadStep(t)
               \/ WriteFails(t) \/ ProcessDies(t)
      PROVE  Consistent' /\ (faults' = 0 => Following')
  <2>1. Shown(t)
    BY <1>3, ReadingSteps, WritingSteps DEF ThreadStep
  <2>2. ~At(t, "idle") \/ AtRest
    BY <1>3
    DEF ThreadStep, Download, Change, MayStart, Rewrap, StartRekey, Load, OpenTemp,
        Write, Rename, WriteFails, ProcessDies, At
  <2>3. \A u \in Threads \ {t} : thread'[u] = thread[u]
    BY <1>0, <1>3
    DEF ThreadStep, Download, Change, Rewrap, StartRekey, Load, Ends, OpenTemp, Write,
        Rename, WriteFails, ProcessDies
  <2> QED
    BY <1>0, <2>1, <2>2, <2>3, OneActs DEF Shown
<1> QED
  BY <1>1, <1>2, <1>3 DEF Next

LEMMA InitSerial == Init => SerialOK
<1> SUFFICES ASSUME Init PROVE Consistent /\ Following
  BY DEF SerialOK
<1>1. \A t \in Threads : thread[t].at = "idle"
  BY DEF Init, Idle
<1> QED
  BY <1>1
  DEF Init, Consistent, Alone, Whole, Kept, Records, Carries, Following, Follows, At, Loads

LEMMA AlwaysSerial == Spec => []SerialOK
  BY InitSerial, SerialStep, AlwaysTyped, PTL DEF Spec

\* With one thread at a time the archive is never a torn or foreign file, for any
\* number of downloads and password changes, whatever a process left behind.
THEOREM ArchiveWhole == Spec => []SerialArchiveWhole
<1>1. SerialOK => SerialArchiveWhole
  BY DEF SerialOK, Consistent, Whole, SerialArchiveWhole
<1> QED
  BY <1>1, AlwaysSerial, PTL

\* With one thread at a time what the user was told is archived stays archived.
THEOREM DownloadsKept == Spec => []SerialDownloadsKept
<1>1. SerialOK => SerialDownloadsKept
  BY DEF SerialOK, Consistent, Kept, SerialDownloadsKept
<1> QED
  BY <1>1, AlwaysSerial, PTL

\* With one thread at a time and no faults, a change of the password that is
\* through leaves an archive that the keystore's present key opens.
THEOREM FollowsPassword == Spec => []ArchiveFollowsPassword
<1>1. SerialOK => ArchiveFollowsPassword
  BY DEF SerialOK, Following, ArchiveFollowsPassword
<1> QED
  BY <1>1, AlwaysSerial, PTL

----------------------------------------------------------------------------
(* The files as one store.                                                 *)

\* What the thread is about, and what its process will have written: an add keeps
\* the key and adds its message, a rekey moves the key on and adds nothing.
Aims(t) ==
  /\ At(t, "idle") \/ thread[t].op = "rekey" => thread[t].message = {}
  /\ At(t, "rewrapping") => thread[t].op = "rekey" /\ thread[t].key = kek
  /\ ~At(t, "idle") /\ ~At(t, "rewrapping") =>
       \/ /\ thread[t].op = "add"
          /\ thread[t].newKey = thread[t].key
          /\ \E m \in Messages : thread[t].message = {m}
       \/ /\ thread[t].op = "rekey"
          /\ thread[t].newKey = thread[t].key + 1
  /\ thread[t].at \in {"opening", "writing", "renaming"} =>
       /\ Loads(thread[t].key)
       /\ thread[t].records = Records \cup thread[t].message
       /\ thread[t].op = "rekey" => archive # Absent

Aimed == ~overlap => \A t \in Threads : Aims(t)

\* Only the rename touches what the archive's name refers to.
LEMMA ArchiveStays ==
  ASSUME Typed, SerialOK, ~overlap, NEW t \in Threads,
         (\E m \in Messages : Download(t, m)) \/ Change(t) \/ Rewrap(t) \/ StartRekey(t)
           \/ Load(t) \/ OpenTemp(t) \/ Write(t) \/ WriteFails(t) \/ ProcessDies(t)
  PROVE  /\ UNCHANGED <<archive, saved>>
         /\ archive # Absent => data'[archive] = data[archive]
<1>0. /\ archive # temp \/ archive = Absent
      /\ data \in [Inodes -> Contents] /\ temp \in Inodes \cup {Absent}
      /\ Carries(t)
  BY DEF Typed, FilesOK, SerialOK, Consistent
<1>1. CASE (\E m \in Messages : Download(t, m)) \/ Change(t) \/ Rewrap(t) \/ StartRekey(t)
             \/ Load(t) \/ ProcessDies(t)
  BY <1>1 DEF Download, Change, Rewrap, StartRekey, Load, ProcessDies, names
<1>2. CASE OpenTemp(t)
  <2> DEFINE i == IF temp # Absent THEN temp ELSE CHOOSE j \in Inodes \ InUse : TRUE
  <2>1. i # archive
    <3>1. CASE temp # Absent
      BY <1>0, <3>1
    <3>2. CASE temp = Absent
      BY <3>2, FreeInode DEF InUse
    <3> QED
      BY <3>1, <3>2
  <2>2. data' = [data EXCEPT ![i] = Empty] /\ UNCHANGED <<archive, saved>>
    BY <1>2 DEF OpenTemp
  <2> HIDE DEF i
  <2> QED
    BY <1>0, <2>1, <2>2
<1>3. CASE Write(t) \/ WriteFails(t)
  <2>1. thread[t].fd = temp
    BY <1>0, <1>3 DEF Carries, Write, WriteFails, At
  <2>2. \E c : data' = [data EXCEPT ![temp] = c]
    BY <1>3, <2>1 DEF Write, WriteFails
  <2>3. UNCHANGED <<archive, saved>>
    BY <1>3 DEF Write, WriteFails, names
  <2> QED
    BY <1>0, <2>2, <2>3
<1> QED
  BY <1>1, <1>2, <1>3

LEMMA AimsStep ==
  ASSUME Typed, SerialOK, ~overlap, Aimed, NEW t \in Threads,
         (\E m \in Messages : Download(t, m)) \/ Change(t) \/ ThreadStep(t)
           \/ WriteFails(t) \/ ProcessDies(t)
  PROVE  Aims(t)'
<1> DEFINE self == thread[t]
<1>0. /\ self \in Tasks /\ kek \in Nat \ {0} /\ Aims(t)
      /\ thread = [u \in Threads |-> thread[u]] /\ thread \in [Threads -> Tasks]
  BY DEF Typed, FilesOK, ThreadsOK, Aimed
<1>1. ASSUME (\E m \in Messages : Download(t, m)) \/ Change(t) \/ Rewrap(t) \/ StartRekey(t)
               \/ Load(t) \/ OpenTemp(t) \/ Write(t) \/ WriteFails(t) \/ ProcessDies(t)
      PROVE  Records' = Records /\ (\A key : Loads(key) => Loads(key)')
             /\ (archive' = Absent <=> archive = Absent)
  <2>1. archive' = archive /\ (archive # Absent => data'[archive] = data[archive])
    BY <1>1, ArchiveStays
  <2> QED
    BY <2>1 DEF Records, Loads
<1>2. CASE Rename(t) \/ WriteFails(t) \/ ProcessDies(t)
  <2>1. thread'[t] = Idle
    BY <1>0, <1>2 DEF Rename, WriteFails, ProcessDies, Ends
  <2> QED
    BY <2>1 DEF Aims, At, Idle
<1>3. CASE \E m \in Messages : Download(t, m)
  <2> PICK m \in Messages : Download(t, m)
    BY <1>3
  <2>1. /\ thread'[t].at = "loading" /\ thread'[t].op = "add" /\ thread'[t].key = kek
        /\ thread'[t].newKey = kek /\ thread'[t].message = {m}
    BY <1>0 DEF Download, Tasks
  <2> QED
    BY <2>1 DEF Aims, At
<1>4. CASE Change(t)
  <2>1. /\ thread'[t].at = "rewrapping" /\ thread'[t].op = "rekey" /\ thread'[t].key = kek
        /\ thread'[t].message = self.message /\ self.message = {} /\ kek' = kek
    BY <1>0, <1>4 DEF Change, Tasks, MayStart, Aims
  <2> QED
    BY <2>1 DEF Aims, At
<1>5. CASE Rewrap(t)
  <2>1. /\ thread'[t].at = "rewrapped" /\ thread'[t].op = self.op
        /\ thread'[t].key = self.key /\ thread'[t].newKey = kek + 1
        /\ thread'[t].message = self.message /\ self.at = "rewrapping"
    BY <1>0, <1>5 DEF Rewrap, Tasks, At
  <2> QED
    BY <1>0, <2>1 DEF Aims, At
<1>6. CASE StartRekey(t)
  <2>1. CASE archive = Absent
    <3>1. thread'[t] = Idle
      BY <1>0, <1>6, <2>1 DEF StartRekey
    <3> QED
      BY <3>1 DEF Aims, At, Idle
  <2>2. CASE archive # Absent
    <3>1. /\ thread'[t].at = "loading" /\ thread'[t].op = self.op
          /\ thread'[t].key = self.key /\ thread'[t].newKey = self.newKey
          /\ thread'[t].message = self.message /\ self.at = "rewrapped"
      BY <1>0, <1>6, <2>2 DEF StartRekey, Tasks, At
    <3> QED
      BY <1>0, <3>1 DEF Aims, At
  <2> QED
    BY <2>1, <2>2
<1>7. CASE Load(t)
  <2>1. CASE Loads(self.key) /\ (self.op = "rekey" => archive # Absent)
    <3>1. thread'[t] = [self EXCEPT !.at = "opening", !.records = Records \cup self.message]
      BY <1>0, <1>7, <2>1 DEF Load
    <3>2. /\ thread'[t].at = "opening" /\ thread'[t].op = self.op
          /\ thread'[t].key = self.key /\ thread'[t].newKey = self.newKey
          /\ thread'[t].message = self.message /\ self.at = "loading"
          /\ thread'[t].records = Records \cup self.message
      BY <1>0, <1>7, <3>1 DEF Load, Tasks, At
    <3> QED
      BY <1>0, <1>1, <1>7, <2>1, <3>2 DEF Aims, At
  <2>2. CASE ~(Loads(self.key) /\ (self.op = "rekey" => archive # Absent))
    <3>1. thread'[t] = Idle
      BY <1>0, <1>7, <2>2 DEF Load, Ends
    <3> QED
      BY <3>1 DEF Aims, At, Idle
  <2> QED
    BY <2>1, <2>2
<1>8. CASE OpenTemp(t) \/ Write(t)
  <2>1. /\ self.at \in {"opening", "writing"} /\ thread'[t].at \in {"writing", "renaming"}
        /\ thread'[t].op = self.op /\ thread'[t].key = self.key
        /\ thread'[t].newKey = self.newKey /\ thread'[t].message = self.message
        /\ thread'[t].records = self.records
    BY <1>0, <1>8 DEF OpenTemp, Write, Tasks, At
  <2> QED
    BY <1>0, <1>1, <1>8, <2>1 DEF Aims, At
<1> QED
  BY <1>2, <1>3, <1>4, <1>5, <1>6, <1>7, <1>8 DEF ThreadStep

LEMMA AimedStep ==
  ASSUME Typed, SerialOK, Aimed, [Next]_vars
  PROVE  Aimed'
<1> SUFFICES ASSUME ~overlap, NEW u \in Threads PROVE Aims(u)'
  <2>1. ASSUME NEW t \in Threads, ThreadStep(t) PROVE UNCHANGED overlap
    BY <2>1 DEF ThreadStep, Rewrap, StartRekey, Load, OpenTemp, Write, Rename
  <2>2. UNCHANGED overlap
    BY <2>1 DEF Next, vars, Download, Change, WriteFails, ProcessDies, ClientDies
  <2> QED
    BY <2>2 DEF Aimed
<1>0. /\ Aims(u) /\ thread = [t \in Threads |-> thread[t]]
      /\ thread[u] \in Tasks /\ Consistent
  BY DEF SerialOK, Typed, ThreadsOK, Aimed
<1>1. CASE UNCHANGED vars
  BY <1>0, <1>1 DEF vars, names, Aims, At, Loads, Records
<1>2. CASE ClientDies
  <2>1. UNCHANGED <<kek, archive, data>>
    BY <1>2 DEF ClientDies, names
  <2>2. CASE thread'[u] = Idle
    BY <2>2 DEF Aims, At, Idle
  <2>3. CASE thread'[u] = [thread[u] EXCEPT !.waits = At(u, "idle")]
    <3>1. /\ thread'[u].at = thread[u].at /\ thread'[u].op = thread[u].op
          /\ thread'[u].key = thread[u].key /\ thread'[u].newKey = thread[u].newKey
          /\ thread'[u].message = thread[u].message
          /\ thread'[u].records = thread[u].records
      BY <1>0, <2>3 DEF Tasks
    <3> QED
      BY <1>0, <2>1, <3>1 DEF Aims, At, Loads, Records
  <2> QED
    BY <1>2, <2>2, <2>3 DEF ClientDies
<1>3. ASSUME NEW t \in Threads,
             (\E m \in Messages : Download(t, m)) \/ Change(t) \/ ThreadStep(t)
               \/ WriteFails(t) \/ ProcessDies(t)
      PROVE  Aims(u)'
  <2>1. CASE u = t
    BY <1>3, <2>1, AimsStep
  <2>2. CASE u # t
    <3>1. thread'[u] = thread[u]
      BY <1>0, <1>3, <2>2
      DEF ThreadStep, Download, Change, Rewrap, StartRekey, Load, Ends, OpenTemp, Write,
          Rename, WriteFails, ProcessDies
    <3>2. ~At(t, "idle") \/ AtRest
      BY <1>3
      DEF ThreadStep, Download, Change, MayStart, Rewrap, StartRekey, Load, OpenTemp,
          Write, Rename, WriteFails, ProcessDies, At
    <3>3. thread[u].at = "idle"
      BY <1>0, <2>2, <3>2 DEF Consistent, Alone, AtRest, At
    <3> QED
      BY <1>0, <3>1, <3>3 DEF Aims, At
  <2> QED
    BY <2>1, <2>2
<1> QED
  BY <1>1, <1>2, <1>3 DEF Next

LEMMA InitAimed == Init => Aimed
  BY DEF Init, Aimed, Aims, At, Idle

LEMMA AlwaysAimed == Spec => []Aimed
  BY InitAimed, AimedStep, AlwaysTyped, AlwaysSerial, PTL DEF Spec

\* The rename is the one step that the store sees.
LEMMA RenameIsStoreStep ==
  ASSUME Typed, SerialOK, ~overlap, ~overlap', Aimed, NEW t \in Threads, Rename(t)
  PROVE  Store!StoreNext
<1> DEFINE self == thread[t]
           present == archive # Absent
<1>1. /\ self \in Tasks /\ self.at = "renaming" /\ temp # Absent
      /\ data[temp] = Blob(self.newKey, self.records) /\ self.newKey \in 1 .. kek
      /\ archive' = temp /\ data' = data
      /\ saved' \in {saved, saved \cup self.message}
      /\ kek \in Nat
  BY DEF Typed, ThreadsOK, FilesOK, SerialOK, Consistent, Carries, At, Rename, Report
<1>2. /\ data'[archive'].key = self.newKey /\ Records' = self.records
      /\ archive' # Absent /\ self.newKey \in Nat \ {0}
  BY <1>1 DEF Blob, Records
<1>3. /\ self.records = Records \cup self.message
      /\ present => data[archive].key = self.key
      /\ Whole
  BY <1>1 DEF Aimed, Aims, SerialOK, Consistent, Loads
<1>4. present => data[archive].key # 0
  BY <1>1, <1>3 DEF Whole
<1>5. CASE self.op = "add"
  <2>1. PICK m \in Messages : self.message = {m}
    BY <1>1, <1>5 DEF Aimed, Aims, At
  <2>2. self.newKey = self.key
    BY <1>1, <1>5 DEF Aimed, Aims, At
  <2>3. Store!Put(m)
    <3>1. Records' = Records \cup {m}
      BY <1>2, <1>3, <2>1
    <3>2. saved' \in {saved, saved \cup {m}}
      BY <1>1, <2>1
    <3> QED
      BY <3>1, <3>2 DEF Store!Put
  <2>4. CASE present
    <3>1. Store!Add(m)
      BY <1>2, <1>3, <1>4, <2>2, <2>3, <2>4 DEF Store!Add
    <3> QED
      BY <3>1 DEF Store!StoreNext
  <2>5. CASE ~present
    <3>1. Store!Create(m)
      BY <1>2, <2>3, <2>5 DEF Store!Create
    <3> QED
      BY <3>1 DEF Store!StoreNext
  <2> QED
    BY <2>4, <2>5
<1>6. CASE self.op # "add"
  <2>1. /\ self.op = "rekey" /\ self.newKey = self.key + 1 /\ self.message = {} /\ present
    BY <1>1, <1>6 DEF Aimed, Aims, At
  <2>2. Store!Rekey
    BY <1>1, <1>2, <1>3, <1>4, <2>1 DEF Store!Rekey
  <2> QED
    BY <2>2 DEF Store!StoreNext
<1> QED
  BY <1>5, <1>6

LEMMA StepRefinesStore ==
  ASSUME Typed, SerialOK, Aimed, [Next]_vars
  PROVE  [Store!StoreNext]_(Store!storeVars)
<1>0. UNCHANGED overlap
  <2>1. ASSUME NEW t \in Threads, ThreadStep(t) PROVE UNCHANGED overlap
    BY <2>1 DEF ThreadStep, Rewrap, StartRekey, Load, OpenTemp, Write, Rename
  <2> QED
    BY <2>1 DEF Next, vars, Download, Change, WriteFails, ProcessDies, ClientDies
<1>1. CASE overlap
  BY <1>0, <1>1 DEF Store!storeVars
<1>2. ASSUME ~overlap, UNCHANGED <<archive, saved>>,
             archive # Absent => data'[archive] = data[archive]
      PROVE  UNCHANGED Store!storeVars
  BY <1>0, <1>2 DEF Store!storeVars, Records
<1>3. CASE ~overlap /\ UNCHANGED vars
  BY <1>2, <1>3 DEF vars, names
<1>4. CASE ~overlap /\ ClientDies
  BY <1>2, <1>4 DEF ClientDies, names
<1>5. ASSUME ~overlap, NEW t \in Threads,
             (\E m \in Messages : Download(t, m)) \/ Change(t) \/ Rewrap(t) \/ StartRekey(t)
               \/ Load(t) \/ OpenTemp(t) \/ Write(t) \/ WriteFails(t) \/ ProcessDies(t)
      PROVE  UNCHANGED Store!storeVars
  BY <1>2, <1>5, ArchiveStays
<1>6. ASSUME ~overlap, NEW t \in Threads, Rename(t) PROVE Store!StoreNext
  BY <1>0, <1>6, RenameIsStoreStep
<1> QED
  BY <1>1, <1>3, <1>4, <1>5, <1>6 DEF Next, ThreadStep

\* Processes that share two file names, and die anywhere, implement a store whose
\* adds and rekeys are indivisible, as long as threads do not overlap.
THEOREM ArchiveRefinesStore == Spec => RefinesStore
<1>1. Init => Store!StoreInit
  BY DEF Init, Store!StoreInit, Records
<1>2. Typed /\ SerialOK /\ Aimed /\ [Next]_vars => [Store!StoreNext]_(Store!storeVars)
  BY StepRefinesStore
<1> QED
  BY AlwaysTyped, AlwaysSerial, AlwaysAimed, <1>1, <1>2, PTL
     DEF Spec, RefinesStore, Store!StoreSpec
=============================================================================
