---------------------------- MODULE LocalArchive ----------------------------
(***************************************************************************)
(* The encrypted archive of downloaded messages of one account: a file that *)
(* the C++ program message-store reads and replaces.  Each Download button  *)
(* starts a thread and a process of its own (add); a password change        *)
(* re-wraps the keystore and then re-encrypts the archive (rekey), because  *)
(* the archive key is derived from the keystore's KEK.  All processes write *)
(* the same temporary file and rename it over the archive, so the module    *)
(* models file names and what they refer to (inodes).                       *)
(*                                                                         *)
(* overlap says whether threads overlap in this behaviour.                  *)
(*                                                                         *)
(* Operators named Faulty... are plausible slips in the code; each makes    *)
(* one of the properties below fail and none is part of Spec.              *)
(***************************************************************************)
EXTENDS Naturals, FiniteSets

CONSTANTS
  Threads,    (* the client's threads, with the process each one runs       *)
  Messages,   (* messages that can be downloaded                            *)
  Absent,     (* what a name refers to when there is no such file           *)
  MaxChanges, (* bound on password changes                                  *)
  MaxFaults   (* bound on failed writes, kills and crashes                  *)

ASSUME BoundsAssumption == MaxChanges \in Nat /\ MaxFaults \in Nat
ASSUME AbsentAssumption == Absent \notin Nat
ASSUME ThreadsAssumption == IsFiniteSet(Threads)

VARIABLES
  overlap,    (* may threads overlap                                        *)
  kek,        (* which password the keystore is wrapped under, counted       *)
  archive,    (* the inode the archive's name refers to                     *)
  temp,       (* the inode the temporary name refers to                     *)
  data,       (* data[i]: the content of inode i                            *)
  thread,     (* thread[t]: what thread t and its process are doing         *)
  saved,      (* the messages the user was told are in the archive          *)
  faults      (* faults so far                                              *)

names == <<archive, temp>>
vars == <<overlap, kek, archive, temp, data, thread, saved, faults>>

\* Both names and every open file fit.
Inodes == 1 .. Cardinality(Threads) + 2

\* A content that decrypts, an empty file, and one that does not decrypt.
Blob(key, records) == [kind |-> "blob", key |-> key, records |-> records]
Empty   == [kind |-> "empty", key |-> 0, records |-> {}]
Garbage == [kind |-> "garbage", key |-> 0, records |-> {}]

Contents == [kind : {"blob", "empty", "garbage"}, key : Nat, records : SUBSET Messages]

\* op: what the thread is for; key: the key its process reads with; newKey: the
\* one it writes with; message: what is added; records: the archive as the process
\* read it; fd: the inode it has open; waits: does a thread wait for the process.
Idle == [at |-> "idle", op |-> "none", key |-> 0, newKey |-> 0, message |-> {},
         records |-> {}, fd |-> Absent, waits |-> TRUE]

Points == {"idle", "rewrapping", "rewrapped", "loading", "opening", "writing", "renaming"}

Init ==
  /\ overlap \in BOOLEAN
  /\ kek = 1
  /\ archive = Absent
  /\ temp = Absent
  /\ data = [i \in Inodes |-> Empty]
  /\ thread = [t \in Threads |-> Idle]
  /\ saved = {}
  /\ faults = 0

At(t, point) == thread[t].at = point

AtRest == \A t \in Threads : At(t, "idle")

MayStart(t) == At(t, "idle") /\ (overlap \/ AtRest)

\* archive::load with a key: does it succeed, and what does it give.
Loads(key) ==
  archive # Absent => data[archive].kind = "blob" /\ data[archive].key = key

Records == IF archive = Absent THEN {} ELSE data[archive].records

----------------------------------------------------------------------------
(* The client.                                                             *)

\* _download_msg: the key is derived when the button is pressed.
Download(t, m) ==
  /\ MayStart(t)
  /\ thread' = [thread EXCEPT ![t].at = "loading", ![t].op = "add", ![t].key = kek,
                              ![t].newKey = kek, ![t].message = {m}]
  /\ UNCHANGED <<overlap, kek, names, data, saved, faults>>

\* Changing is one thread's: the account dialog waits for the server, and the old
\* archive key is derived before the keystore is re-wrapped.
Change(t) ==
  /\ MayStart(t)
  /\ kek <= MaxChanges
  /\ \A u \in Threads : thread[u].op # "rekey"
  /\ thread' = [thread EXCEPT ![t].at = "rewrapping", ![t].op = "rekey", ![t].key = kek]
  /\ UNCHANGED <<overlap, kek, names, data, saved, faults>>

\* The old archive key is derived only when the archive is about to be re-keyed.
FaultyRewrap(t) ==
  /\ At(t, "rewrapping")
  /\ kek' = kek + 1
  /\ thread' = [thread EXCEPT ![t].at = "rewrapped", ![t].key = kek + 1,
                              ![t].newKey = kek + 1]
  /\ UNCHANGED <<overlap, names, data, saved, faults>>

Rewrap(t) ==
  /\ At(t, "rewrapping")
  /\ kek' = kek + 1
  /\ thread' = [thread EXCEPT ![t].at = "rewrapped", ![t].newKey = kek + 1]
  /\ UNCHANGED <<overlap, names, data, saved, faults>>

\* rekey_archive starts a process unless there is no archive.
StartRekey(t) ==
  /\ At(t, "rewrapped")
  /\ thread' = [thread EXCEPT ![t] = IF archive = Absent THEN Idle
                                       ELSE [@ EXCEPT !.at = "loading"]]
  /\ UNCHANGED <<overlap, kek, names, data, saved, faults>>

----------------------------------------------------------------------------
(* The process: cmdAdd, cmdRekey and archive::save.                        *)

\* The process ends, and with it the thread that waits for it.
Ends(t) == thread' = [thread EXCEPT ![t] = Idle]

\* An archive the process cannot decrypt is started afresh.
FaultyLoad(t) ==
  /\ At(t, "loading")
  /\ thread' = [thread EXCEPT ![t].at = "opening",
                  ![t].records = (IF Loads(thread[t].key) THEN Records ELSE {})
                                   \cup thread[t].message]
  /\ UNCHANGED <<overlap, kek, names, data, saved, faults>>

\* A rekey whose archive vanished ends well; one that cannot decrypt it fails.
Load(t) ==
  /\ At(t, "loading")
  /\ IF Loads(thread[t].key) /\ (thread[t].op = "rekey" => archive # Absent)
       THEN thread' = [thread EXCEPT ![t].at = "opening",
                                     ![t].records = Records \cup thread[t].message]
       ELSE Ends(t)
  /\ UNCHANGED <<overlap, kek, names, data, saved, faults>>

InUse == {archive, temp} \cup {thread[t].fd : t \in Threads}

\* The archive is opened and written in place.
FaultyOpen(t) ==
  /\ At(t, "opening")
  /\ LET i == IF archive # Absent THEN archive
              ELSE CHOOSE j \in Inodes \ InUse : TRUE
     IN  /\ temp' = i
         /\ archive' = i
         /\ data' = [data EXCEPT ![i] = Empty]
         /\ thread' = [thread EXCEPT ![t].at = "writing", ![t].fd = i]
  /\ UNCHANGED <<overlap, kek, saved, faults>>

\* O_CREAT | O_TRUNC: an existing temporary file is emptied, whoever uses it.
OpenTemp(t) ==
  /\ At(t, "opening")
  /\ LET i == IF temp # Absent THEN temp
              ELSE CHOOSE j \in Inodes \ InUse : TRUE
     IN  /\ temp' = i
         /\ data' = [data EXCEPT ![i] = Empty]
         /\ thread' = [thread EXCEPT ![t].at = "writing", ![t].fd = i]
  /\ UNCHANGED <<overlap, kek, archive, saved, faults>>

\* Every process writes from offset 0: over a longer content of another process a
\* tail of that content stays.  More records make a longer content.
Write(t) ==
  /\ At(t, "writing")
  /\ \E c \in {Blob(thread[t].newKey, thread[t].records), Garbage} :
       /\ c = Garbage => ~(data[thread[t].fd].records \subseteq thread[t].records)
                         \/ data[thread[t].fd].kind = "garbage"
       /\ data' = [data EXCEPT ![thread[t].fd] = c]
  /\ thread' = [thread EXCEPT ![t].at = "renaming", ![t].fd = Absent]
  /\ UNCHANGED <<overlap, kek, names, saved, faults>>

\* The thread reads the exit status and says so.
Report(t) ==
  saved' = IF thread[t].op = "add" /\ thread[t].waits
             THEN saved \cup thread[t].message ELSE saved

\* Whatever the temporary name refers to by now becomes the archive.  Without
\* such a file rename fails.
Rename(t) ==
  /\ At(t, "renaming")
  /\ IF temp # Absent
       THEN archive' = temp /\ temp' = Absent /\ Report(t)
       ELSE UNCHANGED <<archive, temp, saved>>
  /\ Ends(t)
  /\ UNCHANGED <<overlap, kek, data, faults>>

----------------------------------------------------------------------------
(* Faults.                                                                 *)

\* A write fails half-way: the temporary name is removed, whatever it refers to.
WriteFails(t) ==
  /\ faults < MaxFaults
  /\ faults' = faults + 1
  /\ At(t, "writing")
  /\ data' = [data EXCEPT ![thread[t].fd] = Garbage]
  /\ temp' = Absent
  /\ Ends(t)
  /\ UNCHANGED <<overlap, kek, archive, saved>>

\* A process is killed, or the close or the start of it fails.
ProcessDies(t) ==
  /\ faults < MaxFaults
  /\ faults' = faults + 1
  /\ thread[t].at \in {"loading", "opening", "writing", "renaming"}
  /\ Ends(t)
  /\ UNCHANGED <<overlap, kek, names, data, saved>>

\* The client dies: its threads are gone, the processes run on unattended.
ClientDies ==
  /\ faults < MaxFaults
  /\ faults' = faults + 1
  /\ ~AtRest
  /\ thread' = [t \in Threads |-> IF thread[t].at \in {"rewrapping", "rewrapped"}
                                    THEN Idle
                                    ELSE [thread[t] EXCEPT !.waits = At(t, "idle")]]
  /\ UNCHANGED <<overlap, kek, names, data, saved>>

ThreadStep(t) ==
  \/ Rewrap(t)
  \/ StartRekey(t)
  \/ Load(t)
  \/ OpenTemp(t)
  \/ Write(t)
  \/ Rename(t)

Next ==
  \/ \E t \in Threads :
       \/ \E m \in Messages : Download(t, m)
       \/ Change(t)
       \/ ThreadStep(t)
       \/ WriteFails(t)
       \/ ProcessDies(t)
  \/ ClientDies

Spec == Init /\ [][Next]_vars

----------------------------------------------------------------------------
(* Properties.                                                             *)

\* Every variable holds a value of its kind, and the two names never refer to one
\* file: what is being written is not the archive's name yet.
TypeOK ==
  /\ overlap \in BOOLEAN
  /\ archive # temp \/ archive = Absent
  /\ kek \in Nat
  /\ archive \in Inodes \cup {Absent}
  /\ temp \in Inodes \cup {Absent}
  /\ data \in [Inodes -> Contents]
  /\ thread \in [Threads -> [at : Points, op : {"none", "add", "rekey"}, key : Nat,
                             newKey : Nat, message : SUBSET Messages,
                             records : SUBSET Messages, fd : Inodes \cup {Absent},
                             waits : BOOLEAN]]
  /\ saved \subseteq Messages
  /\ faults \in Nat

\* As long as threads do not overlap, the archive is always a whole file that one
\* of the passwords opens, wherever a process or the client dies and whatever an
\* earlier one left in the temporary file (write to a temporary file, then rename).
SerialArchiveWhole ==
  ~overlap /\ archive # Absent =>
    /\ data[archive].kind = "blob"
    /\ data[archive].key \in 1 .. kek

\* As long as threads do not overlap, what the user was told is archived stays in
\* the archive, through failures and through changes of the password.
SerialDownloadsKept == ~overlap => saved \subseteq Records

\* With one thread at a time and no faults, the archive opens with the keystore's
\* present key once a password change is through: the old key is derived before
\* the keystore is re-wrapped.
ArchiveFollowsPassword == ~overlap /\ faults = 0 /\ AtRest => Loads(kek)

\* The store the files amount to.  What overlapping threads do to it is not one.
Store == INSTANCE ArchiveStore WITH
  Downloads <- Messages,
  key    <- IF overlap \/ archive = Absent THEN 0 ELSE data[archive].key,
  stored <- IF overlap THEN {} ELSE Records,
  told   <- IF overlap THEN {} ELSE saved

\* As long as threads do not overlap, the processes, the two names and the files
\* amount to indivisible steps on one store, also when a process or the client
\* dies anywhere in between: an add and a rekey take effect in full or not at all.
RefinesStore == Store!StoreSpec
=============================================================================
