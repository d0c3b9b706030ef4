---------------------------- MODULE AccountProofs ----------------------------
(***************************************************************************)
(* Proofs about Account, for any accounts, threads, passwords and keystores. *)
(*                                                                         *)
(* A thread works with numbers of Keystore objects and windows; WorkersOK    *)
(* says that they are there, and that a thread of a window has the user and  *)
(* the token the window had when it was opened.                             *)
(***************************************************************************)
EXTENDS Account, SequenceTheorems, TLAPS

TaskRecords ==
  [at : Points, op : {"none", "register", "login", "poll", "change"},
   account : Accounts \cup {Nobody}, ks : 0 .. MaxKeystores, frame : Nat,
   pwd : Passwords, copy : Files, kek : Keks]

Windows ==
  [user : Accounts \cup {Nobody}, token : Passwords, ks : Nat \ {0}, cache : SUBSET Accounts]

Objects == [account : Accounts, kek : Keks]

Op(w) == worker[w].op

\* Thread w has what its next steps need.
WorkerOK(w) ==
  /\ worker[w] \in TaskRecords
  /\ worker[w].ks <= Len(keystores)
  /\ Op(w) \in {"register", "login", "change"} => worker[w].ks # 0
  /\ Op(w) = "poll" /\ worker[w].at # "posting" => worker[w].ks # 0 /\ User(w) \in Accounts
  /\ Op(w) \in {"register", "login"} => User(w) \in Accounts /\ worker[w].pwd # 0
  /\ Op(w) \in {"poll", "change"} =>
       /\ worker[w].frame \in 1 .. Len(frames)
       /\ Frame(w).token = worker[w].pwd
       /\ Frame(w).user = User(w)
  /\ Op(w) = "change" => worker[w].pwd < MaxPasswords
  /\ At(w, "login", "showing") => app.ks # 0

WorkersOK ==
  /\ worker = [w \in Workers |-> worker[w]]
  /\ \A w \in Workers : WorkerOK(w)

DiskOK ==
  /\ overlap \in BOOLEAN
  /\ server \in [Accounts -> Passwords]
  /\ published \in [Accounts -> 0 .. Earlier]
  /\ file \in [Accounts -> Files]
  /\ cacheFile \in [Accounts -> [kek : Keks, of : SUBSET Accounts]]
  /\ faults \in Nat

MemoryOK ==
  /\ keystores \in Seq(Objects)
  /\ Len(keystores) <= MaxKeystores
  /\ frames \in Seq(Windows)
  /\ \A f \in 1 .. Len(frames) : frames[f].ks <= Len(keystores)
  /\ app \in [user : Accounts \cup {Nobody}, token : Passwords, ks : 0 .. MaxKeystores]
  /\ app.ks <= Len(keystores)
  /\ frames # << >> => app.ks # 0
  /\ screen \in 0 .. Len(frames)

Typed == DiskOK /\ MemoryOK /\ WorkersOK

LEMMA Bounds ==
  /\ MaxPasswords \in Nat \ {0} /\ MaxKeystores \in Nat /\ Earlier = MaxKeystores + 1
  /\ 0 \in Passwords /\ 1 \in Passwords /\ Passwords \subseteq Nat
  /\ Earlier \in 0 .. Earlier /\ 0 \in 0 .. Earlier /\ 0 .. MaxKeystores \subseteq 0 .. Earlier
  BY BoundsAssumption DEF Passwords, Earlier

LEMMA Nothing == NoFile \in Files /\ Locked \in Keks /\ Idle \in TaskRecords
  BY Bounds DEF NoFile, Files, Locked, Kek, Keks, Idle, TaskRecords, Points

\* What the others have stays there: windows are not changed in user and token, and
\* nothing is taken away.
Grows ==
  /\ Len(keystores) <= Len(keystores')
  /\ Len(frames) <= Len(frames')
  /\ \A f \in 1 .. Len(frames) :
       frames'[f].token = frames[f].token /\ frames'[f].user = frames[f].user
  /\ app.ks # 0 => app'.ks # 0

LEMMA OneStays ==
  ASSUME Typed, MemoryOK', NEW v \in Workers, worker'[v] = worker[v], Grows
  PROVE  WorkerOK(v)'
<1>1. /\ Len(frames) \in Nat /\ Len(frames') \in Nat
      /\ Len(keystores) \in Nat /\ Len(keystores') \in Nat
      /\ WorkerOK(v)
  BY LenProperties DEF Typed, WorkersOK, MemoryOK
<1>2. worker[v].ks <= Len(keystores')
  BY <1>1 DEF WorkerOK, TaskRecords, Grows
<1>3. Op(v) \in {"poll", "change"} => worker[v].frame \in 1 .. Len(frames')
  BY <1>1 DEF WorkerOK, Grows
<1> QED
  BY <1>1, <1>2, <1>3 DEF WorkerOK, Op, User, Frame, At, Grows

LEMMA OneActs ==
  ASSUME Typed, MemoryOK', NEW w \in Workers, NEW t, worker' = [worker EXCEPT ![w] = t],
         Grows, WorkerOK(w)'
  PROVE  WorkersOK'
<1>1. worker = [v \in Workers |-> worker[v]]
  BY DEF Typed, WorkersOK
<1>2. ASSUME NEW v \in Workers, v # w PROVE WorkerOK(v)'
  BY <1>1, <1>2, OneStays
<1> QED
  BY <1>1, <1>2 DEF WorkersOK

\* Nothing in memory changes but what the thread itself is doing.
LEMMA SameMemory ==
  ASSUME Typed, UNCHANGED memory
  PROVE  MemoryOK' /\ Grows
<1>1. Len(keystores) \in Nat /\ Len(frames) \in Nat
  BY LenProperties DEF Typed, MemoryOK
<1> QED
  BY <1>1 DEF Typed, MemoryOK, Grows, memory

LEMMA IdleOK ==
  ASSUME Typed, MemoryOK', NEW w \in Workers, worker' = [worker EXCEPT ![w] = Idle]
  PROVE  WorkerOK(w)'
<1>1. worker'[w] = Idle /\ Len(keystores') \in Nat
  BY LenProperties DEF Typed, WorkersOK, MemoryOK
<1> QED
  BY <1>1, Nothing DEF WorkerOK, Op, At, Idle

\* A thread that goes on to another point of its operation.
LEMMA GotoOK ==
  ASSUME Typed, NEW w \in Workers, NEW point \in Points, Goto(w, point), UNCHANGED memory,
         point # "showing", Op(w) = "poll" => worker[w].at # "posting"
  PROVE  WorkerOK(w)'
<1>1. worker'[w] = [worker[w] EXCEPT !.at = point] /\ WorkerOK(w)
  BY DEF Goto, Typed, WorkersOK
<1> QED
  BY <1>1 DEF WorkerOK, TaskRecords, Op, User, Frame, At, memory

\* The parts of a thread on which WorkerOK depends, for a thread of a window.
LEMMA InWindowOK ==
  ASSUME Typed, NEW w \in Workers, UNCHANGED memory, worker'[w] \in TaskRecords,
         worker'[w].op \in {"poll", "change"}, worker'[w].frame \in 1 .. Len(frames),
         frames[worker'[w].frame].token = worker'[w].pwd,
         frames[worker'[w].frame].user = worker'[w].account,
         worker'[w].ks <= Len(keystores),
         worker'[w].op = "poll" =>
           worker'[w].at = "posting" \/ (worker'[w].ks # 0 /\ worker'[w].account \in Accounts),
         worker'[w].op = "change" => worker'[w].ks # 0,
         worker'[w].op = "change" => worker'[w].pwd < MaxPasswords
  PROVE  WorkerOK(w)'
<1>1. UNCHANGED <<keystores, frames, app>>
  BY DEF memory
<1> QED
  BY <1>1 DEF WorkerOK, Op, User, Frame, At

LEMMA StartedOK ==
  ASSUME Typed, NEW w \in Workers,
         StartPoll(w) \/ StartChange(w)
  PROVE  DiskOK' /\ MemoryOK' /\ Grows /\ WorkerOK(w)'
<1>0. /\ screen \in 1 .. Len(frames) /\ UNCHANGED <<overlap, remote, disk, memory, faults>>
      /\ worker[w] \in TaskRecords
      /\ frames[screen].user \in Accounts \cup {Nobody} /\ frames[screen].token \in Passwords
      /\ Len(frames) \in Nat /\ app.ks \in 0 .. MaxKeystores /\ app.ks <= Len(keystores)
      /\ Len(keystores) \in Nat
  <2>1. screen # 0 /\ UNCHANGED <<overlap, remote, disk, memory, faults>>
    BY DEF StartPoll, StartChange, StartInWindow
  <2>2. Len(frames) \in Nat /\ Len(keystores) \in Nat /\ screen \in 0 .. Len(frames)
    BY LenProperties DEF Typed, MemoryOK
  <2>3. screen \in 1 .. Len(frames)
    BY <2>1, <2>2
  <2>4. frames[screen] \in Windows
    BY <2>3, ElementOfSeq DEF Typed, MemoryOK
  <2>5. worker[w] \in TaskRecords /\ app.ks \in 0 .. MaxKeystores /\ app.ks <= Len(keystores)
    BY DEF Typed, MemoryOK, WorkersOK, WorkerOK
  <2> QED
    BY <2>1, <2>2, <2>3, <2>4, <2>5 DEF Windows
<1>1. DiskOK' /\ MemoryOK' /\ Grows
  BY <1>0, SameMemory DEF Typed, DiskOK, remote, disk
<1>2. CASE StartPoll(w)
  <2>1. worker'[w] = [Idle EXCEPT !.at = "posting", !.op = "poll",
                        !.account = frames[screen].user, !.ks = 0,
                        !.frame = screen, !.pwd = frames[screen].token]
    BY <1>2 DEF StartPoll, StartInWindow, Typed, WorkersOK
  <2>2. /\ worker'[w] \in TaskRecords /\ worker'[w].op = "poll" /\ worker'[w].at = "posting"
        /\ worker'[w].account = frames[screen].user /\ worker'[w].ks = 0
        /\ worker'[w].frame = screen /\ worker'[w].pwd = frames[screen].token
    <3>1. screen \in Nat /\ 0 \in 0 .. MaxKeystores
      BY <1>0, Bounds
    <3> QED
      BY <1>0, <2>1, <3>1, Nothing DEF TaskRecords, Points
  <2> QED
    BY <1>0, <1>1, <2>2, InWindowOK
<1>3. CASE StartChange(w)
  <2>1. worker'[w] = [Idle EXCEPT !.at = "posting", !.op = "change",
                        !.account = frames[screen].user, !.ks = app.ks,
                        !.frame = screen, !.pwd = frames[screen].token]
    BY <1>3 DEF StartChange, StartInWindow, Typed, WorkersOK
  <2>2. app.ks # 0 /\ frames[screen].token < MaxPasswords
    BY <1>3 DEF StartChange
  <2>3. /\ worker'[w] \in TaskRecords /\ worker'[w].op = "change"
        /\ worker'[w].at = "posting"
        /\ worker'[w].account = frames[screen].user /\ worker'[w].ks = app.ks
        /\ worker'[w].frame = screen /\ worker'[w].pwd = frames[screen].token
    <3> DEFINE k == app.ks
               user == frames[screen].user
               token == frames[screen].token
    <3>1. /\ k \in 0 .. MaxKeystores /\ screen \in Nat /\ Idle \in TaskRecords
          /\ user \in Accounts \cup {Nobody} /\ token \in Passwords
          /\ worker'[w] = [Idle EXCEPT !.at = "posting", !.op = "change", !.account = user,
                                       !.ks = k, !.frame = screen, !.pwd = token]
      BY <1>0, <2>1, Nothing
    <3> HIDE DEF k, user, token
    <3>2. worker'[w] \in TaskRecords
      BY <3>1 DEF TaskRecords, Points
    <3>3. /\ worker'[w].op = "change" /\ worker'[w].at = "posting"
          /\ worker'[w].account = user /\ worker'[w].ks = k
          /\ worker'[w].frame = screen /\ worker'[w].pwd = token
      BY <3>1 DEF TaskRecords
    <3> QED
      BY <3>2, <3>3 DEF k, user, token
  <2> QED
    BY <1>0, <1>1, <2>2, <2>3, InWindowOK
<1> QED
  BY <1>1, <1>2, <1>3

\* The window of a thread, while the account is the one the token names.
LEMMA ValidToken ==
  ASSUME Typed, NEW w \in Workers, Op(w) \in {"poll", "change"}, TokenValid(w)
  PROVE  User(w) \in Accounts /\ server[User(w)] = worker[w].pwd
<1>1. WorkerOK(w)
  BY DEF Typed, WorkersOK
<1> QED
  BY <1>1 DEF TokenValid, WorkerOK, TaskRecords, User

LEMMA RequestsOK ==
  ASSUME Typed, NEW w \in Workers,
         Register(w) \/ LogIn(w) \/ Publish(w) \/ Fetch(w) \/ ChangeAtServer(w)
           \/ RequestFails(w) \/ AnswerLost(w)
  PROVE  DiskOK' /\ MemoryOK' /\ Grows /\ WorkerOK(w)'
<1>0. /\ UNCHANGED <<overlap, file, cacheFile, memory>> /\ WorkerOK(w) /\ DiskOK
      /\ worker = [v \in Workers |-> worker[v]]
  BY DEF Register, LogIn, Publish, Fetch, ChangeAtServer, RequestFails, AnswerLost, disk,
         Typed, WorkersOK
<1>1. MemoryOK' /\ Grows
  BY <1>0, SameMemory
<1>2. ASSUME worker' = [worker EXCEPT ![w] = Idle] PROVE WorkerOK(w)'
  BY <1>1, <1>2, IdleOK
<1>3. ASSUME NEW a \in Accounts, server[a] + 1 \in Passwords,
             server' = [server EXCEPT ![a] = @ + 1]
      PROVE  server' \in [Accounts -> Passwords]
  BY <1>0, <1>3 DEF DiskOK
<1>4. CASE Register(w)
  <2>1. Op(w) = "register" /\ User(w) \in Accounts
    BY <1>0, <1>4 DEF Register, At, Op, WorkerOK
  <2>2. server' \in [Accounts -> Passwords]
    BY <1>0, <1>4, <2>1, Bounds DEF Register, DiskOK
  <2>3. WorkerOK(w)'
    BY <1>0, <1>2, <1>4, <2>1, GotoOK DEF Register, Ends, Points
  <2> QED
    BY <1>0, <1>1, <1>4, <2>2, <2>3 DEF Register, DiskOK
<1>5. CASE LogIn(w)
  <2>1. Op(w) = "login"
    BY <1>5 DEF LogIn, At, Op
  <2>2. WorkerOK(w)'
    BY <1>0, <1>2, <1>5, <2>1, GotoOK DEF LogIn, Ends, Points
  <2> QED
    BY <1>0, <1>1, <1>5, <2>2 DEF LogIn, DiskOK, remote
<1>6. CASE Publish(w)
  <2>1. Op(w) = "login" /\ User(w) \in Accounts
    BY <1>0, <1>6 DEF Publish, At, Op, WorkerOK
  <2>2. WorkerOK(w)'
    BY <1>0, <1>2, <1>6, <2>1, GotoOK DEF Publish, Ends, Points
  <2>3. published' \in [Accounts -> 0 .. Earlier]
    BY <1>0, <1>6, <2>1 DEF Publish, DiskOK, Files
  <2> QED
    BY <1>0, <1>1, <1>6, <2>2, <2>3 DEF Publish, DiskOK
<1>7. CASE Fetch(w)
  <2>1. Op(w) = "poll" /\ worker[w].at = "posting"
    BY <1>7 DEF Fetch, At, Op
  <2>2. ASSUME TokenValid(w),
               worker' = [worker EXCEPT ![w] = [@ EXCEPT !.at = "opening", !.ks = app.ks]]
        PROVE  WorkerOK(w)'
    <3>1. worker'[w] = [worker[w] EXCEPT !.at = "opening", !.ks = app.ks]
      BY <1>0, <2>2
    <3>2. app.ks # 0 /\ app.ks \in 0 .. MaxKeystores /\ app.ks <= Len(keystores)
      <4>1. Len(frames) # 0
        BY <1>0, <2>1, LenProperties DEF WorkerOK, Typed, MemoryOK
      <4> QED
        BY <4>1, LenProperties DEF Typed, MemoryOK
    <3>3. /\ worker'[w] \in TaskRecords /\ worker'[w].op = "poll"
          /\ worker'[w].at = "opening" /\ worker'[w].ks = app.ks
          /\ worker'[w].account = worker[w].account
          /\ worker'[w].frame = worker[w].frame /\ worker'[w].pwd = worker[w].pwd
      BY <1>0, <2>1, <3>1, <3>2 DEF WorkerOK, TaskRecords, Points, Op
    <3>4. /\ worker[w].frame \in 1 .. Len(frames)
          /\ frames[worker[w].frame].token = worker[w].pwd
          /\ frames[worker[w].frame].user = worker[w].account
          /\ worker[w].account \in Accounts
      BY <1>0, <2>1, <2>2, ValidToken DEF WorkerOK, Op, User, Frame
    <3> QED
      BY <1>0, <2>1, <3>2, <3>3, <3>4, InWindowOK
  <2>3. WorkerOK(w)'
    BY <1>2, <1>7, <2>2 DEF Fetch
  <2> QED
    BY <1>0, <1>1, <1>7, <2>3 DEF Fetch, DiskOK, remote
<1>8. CASE ChangeAtServer(w)
  <2>1. Op(w) = "change"
    BY <1>8 DEF ChangeAtServer, At, Op
  <2>2. WorkerOK(w)'
    BY <1>0, <1>2, <1>8, <2>1, GotoOK DEF ChangeAtServer, Ends, Points
  <2>3. server' \in [Accounts -> Passwords]
    <3>1. CASE TokenValid(w)
      <4>1. server[User(w)] + 1 \in Passwords
        BY <1>0, <2>1, <3>1, ValidToken, Bounds DEF WorkerOK, TaskRecords, Passwords
      <4> QED
        BY <1>3, <1>8, <2>1, <3>1, <4>1, ValidToken DEF ChangeAtServer
    <3> QED
      BY <1>0, <1>8, <3>1 DEF ChangeAtServer, DiskOK
  <2> QED
    BY <1>0, <1>1, <1>8, <2>2, <2>3 DEF ChangeAtServer, DiskOK
<1>9. CASE RequestFails(w)
  <2>1. faults' \in Nat
    BY <1>0, <1>9 DEF RequestFails, DiskOK
  <2> QED
    BY <1>0, <1>1, <1>2, <1>9, <2>1 DEF RequestFails, Ends, DiskOK, remote
<1>10. CASE AnswerLost(w)
  <2>1. User(w) \in Accounts /\ server[User(w)] + 1 \in Passwords
    <3>1. CASE At(w, "register", "posting") /\ server[User(w)] = 0
      BY <1>0, <3>1, Bounds DEF WorkerOK, At, Op
    <3>2. CASE At(w, "change", "posting") /\ TokenValid(w)
      <4>1. Op(w) = "change"
        BY <3>2 DEF At, Op
      <4> QED
        BY <1>0, <3>2, <4>1, ValidToken, Bounds DEF WorkerOK, TaskRecords, Passwords
    <3> QED
      BY <1>10, <3>1, <3>2 DEF AnswerLost
  <2>2. server' \in [Accounts -> Passwords]
    BY <1>3, <1>10, <2>1 DEF AnswerLost
  <2>3. faults' \in Nat
    BY <1>0, <1>10 DEF AnswerLost, DiskOK
  <2> QED
    BY <1>0, <1>1, <1>2, <1>10, <2>2, <2>3 DEF AnswerLost, Ends, DiskOK
<1> QED
  BY <1>4, <1>5, <1>6, <1>7, <1>8, <1>9, <1>10

\* The Keystore object of a thread.
LEMMA OwnerOK ==
  ASSUME Typed, NEW k \in Nat \ {0}, k <= Len(keystores)
  PROVE  Owner(k) \in Accounts /\ keystores[k].kek \in Keks
<1>1. k \in 1 .. Len(keystores)
  BY LenProperties DEF Typed, MemoryOK
<1>2. keystores[k] \in Objects
  BY <1>1, ElementOfSeq DEF Typed, MemoryOK
<1> QED
  BY <1>2 DEF Owner, Objects

LEMMA WindowOK ==
  ASSUME Typed, NEW f \in 1 .. Len(frames)
  PROVE  /\ frames[f] \in Windows
         /\ frames[f].ks \in Nat \ {0} /\ frames[f].ks <= Len(keystores)
         /\ frames[f].cache \in SUBSET Accounts
<1>1. frames[f] \in Windows /\ frames[f].ks <= Len(keystores)
  BY ElementOfSeq DEF Typed, MemoryOK
<1> QED
  BY <1>1 DEF Windows

LEMMA OwnKeystore ==
  ASSUME Typed, NEW w \in Workers,
         \/ Op(w) \in {"register", "login", "change"}
         \/ Op(w) = "poll" /\ worker[w].at # "posting"
  PROVE  /\ worker[w].ks \in Nat \ {0} /\ worker[w].ks \in 1 .. Len(keystores)
         /\ worker[w].ks <= Len(keystores) /\ worker[w].ks <= MaxKeystores
         /\ Owner(worker[w].ks) \in Accounts /\ keystores[worker[w].ks].kek \in Keks
<1>1. worker[w].ks \in Nat \ {0} /\ worker[w].ks <= Len(keystores) /\ worker[w].ks <= MaxKeystores
  BY Bounds DEF Typed, WorkersOK, WorkerOK, TaskRecords
<1>2. Len(keystores) \in Nat
  BY LenProperties DEF Typed, MemoryOK
<1> QED
  BY <1>1, <1>2, OwnerOK

LEMMA FilesStepOK ==
  ASSUME Typed, NEW w \in Workers,
         ClearKeystore(w) \/ OpenMessages(w) \/ SaveCache(w) \/ LoadWrapped(w) \/ Recache(w)
  PROVE  DiskOK' /\ MemoryOK' /\ Grows /\ WorkerOK(w)'
<1>0. /\ UNCHANGED <<overlap, remote, memory, faults>> /\ WorkerOK(w) /\ DiskOK
      /\ worker = [v \in Workers |-> worker[v]] /\ worker[w] \in TaskRecords
  BY DEF ClearKeystore, OpenMessages, SaveCache, LoadWrapped, Recache, disk, Typed,
         WorkersOK, WorkerOK
<1>1. MemoryOK' /\ Grows
  BY <1>0, SameMemory
<1>2. ASSUME worker' = [worker EXCEPT ![w] = Idle] PROVE WorkerOK(w)'
  BY <1>1, <1>2, IdleOK
\* A thread of a window that goes on with a copy of a file.
<1>3. ASSUME Op(w) \in {"poll", "change"}, worker[w].at # "posting", NEW point \in Points,
             NEW copy \in Files,
             worker' = [worker EXCEPT ![w].at = point, ![w].copy = copy]
      PROVE  WorkerOK(w)'
  <2>1. worker'[w] = [worker[w] EXCEPT !.at = point, !.copy = copy]
    BY <1>0, <1>3
  <2>2. /\ worker'[w] \in TaskRecords /\ worker'[w].op = worker[w].op
        /\ worker'[w].account = worker[w].account /\ worker'[w].ks = worker[w].ks
        /\ worker'[w].frame = worker[w].frame /\ worker'[w].pwd = worker[w].pwd
    BY <1>0, <2>1 DEF TaskRecords
  <2>3. /\ worker[w].frame \in 1 .. Len(frames) /\ worker[w].ks <= Len(keystores)
        /\ frames[worker[w].frame].token = worker[w].pwd
        /\ frames[worker[w].frame].user = worker[w].account
        /\ worker[w].ks # 0 /\ (worker[w].op = "poll" => worker[w].account \in Accounts)
        /\ worker[w].op = "change" => worker[w].pwd < MaxPasswords
    BY <1>0, <1>3 DEF WorkerOK, Op, User, Frame
  <2> QED
    BY <1>0, <1>3, <2>2, <2>3, InWindowOK DEF Op
<1>4. CASE ClearKeystore(w)
  <2>1. Op(w) = "register" /\ file' \in [Accounts -> Files] /\ UNCHANGED cacheFile
    BY <1>0, <1>4, Nothing DEF ClearKeystore, At, Op, DiskOK
  <2>2. WorkerOK(w)'
    BY <1>0, <1>4, <2>1, GotoOK DEF ClearKeystore, Points
  <2> QED
    BY <1>0, <1>1, <2>1, <2>2 DEF DiskOK, remote
<1>5. CASE OpenMessages(w)
  <2>1. Op(w) = "poll" /\ worker[w].at # "posting" /\ UNCHANGED disk
    BY <1>5 DEF OpenMessages, At, Op
  <2>2. CASE worker' = [worker EXCEPT ![w].at = "saving", ![w].copy = file[User(w)]]
             /\ file[User(w)] # NoFile /\ User(w) \in Accounts
    <3>1. file[User(w)] \in Files
      BY <1>0, <2>2 DEF DiskOK
    <3>2. WorkerOK(w)'
      BY <1>3, <2>1, <2>2, <3>1 DEF Points
    <3> QED
      BY <1>0, <1>1, <2>1, <3>2 DEF DiskOK, remote, disk
  <2>3. Owner(Frame(w).ks) = User(w) => User(w) \in Accounts
    <3>1. worker[w].frame \in 1 .. Len(frames)
      BY <1>0, <2>1 DEF WorkerOK
    <3>2. Frame(w).ks \in Nat \ {0} /\ Frame(w).ks <= Len(keystores)
      BY <3>1, WindowOK DEF Frame
    <3> QED
      BY <3>2, OwnerOK
  <2>4. CASE Ends(w)
    BY <1>0, <1>1, <1>2, <2>1, <2>4 DEF Ends, DiskOK, remote, disk
  <2> QED
    BY <1>5, <2>2, <2>3, <2>4 DEF OpenMessages
<1>6. CASE SaveCache(w)
  <2>1. Op(w) = "poll" /\ worker[w].at # "posting" /\ UNCHANGED file
    BY <1>6 DEF SaveCache, At, Op
  <2>2. Owner(worker[w].ks) \in Accounts /\ keystores[worker[w].ks].kek \in Keks
    BY <2>1, OwnKeystore
  <2>3. Frame(w).cache \in SUBSET Accounts
    <3>1. worker[w].frame \in 1 .. Len(frames)
      BY <1>0, <2>1 DEF WorkerOK
    <3> QED
      BY <3>1, WindowOK DEF Frame
  <2>4. cacheFile' \in [Accounts -> [kek : Keks, of : SUBSET Accounts]]
    BY <1>0, <1>6, <2>2, <2>3 DEF SaveCache, DiskOK
  <2> QED
    BY <1>0, <1>1, <1>2, <1>6, <2>1, <2>4 DEF SaveCache, Ends, DiskOK, remote
<1>7. CASE LoadWrapped(w)
  <2>1. Op(w) = "change" /\ worker[w].at # "posting" /\ UNCHANGED disk
    BY <1>7 DEF LoadWrapped, At, Op
  <2>2. file[Owner(worker[w].ks)] \in Files
    BY <1>0, <2>1, OwnKeystore DEF DiskOK
  <2>3. CASE worker' = [worker EXCEPT ![w].at = "rewriting",
                                      ![w].copy = file[Owner(worker[w].ks)]]
    <3>1. WorkerOK(w)'
      BY <1>3, <2>1, <2>2, <2>3 DEF Points
    <3> QED
      BY <1>0, <1>1, <2>1, <3>1 DEF DiskOK, remote, disk
  <2>4. CASE Ends(w)
    BY <1>0, <1>1, <1>2, <2>1, <2>4 DEF Ends, DiskOK, remote, disk
  <2> QED
    BY <1>7, <2>3, <2>4 DEF LoadWrapped
<1>8. CASE Recache(w)
  <2>1. Op(w) = "change" /\ UNCHANGED file /\ Goto(w, "closing")
    BY <1>8 DEF Recache, At, Op
  <2>2. Owner(worker[w].ks) \in Accounts /\ keystores[worker[w].ks].kek \in Keks
    BY <2>1, OwnKeystore
  <2>3. cacheFile' \in [Accounts -> [kek : Keks, of : SUBSET Accounts]]
    BY <1>0, <1>8, <2>2 DEF Recache, DiskOK
  <2>4. WorkerOK(w)'
    BY <1>0, <2>1, GotoOK DEF Points
  <2> QED
    BY <1>0, <1>1, <2>1, <2>3, <2>4 DEF DiskOK, remote
<1> QED
  BY <1>4, <1>5, <1>6, <1>7, <1>8

\* A thread that goes on to another point while memory grows.
LEMMA MovesOK ==
  ASSUME Typed, MemoryOK', Grows, NEW w \in Workers, NEW point \in Points, Goto(w, point),
         Op(w) = "poll" => worker[w].at # "posting",
         Op(w) = "login" /\ point = "showing" => app'.ks # 0
  PROVE  WorkerOK(w)'
<1>0. /\ Len(frames) \in Nat /\ Len(frames') \in Nat
      /\ Len(keystores) \in Nat /\ Len(keystores') \in Nat
  BY LenProperties DEF Typed, MemoryOK
<1>1. worker'[w] = [worker[w] EXCEPT !.at = point] /\ WorkerOK(w)
  BY DEF Goto, Typed, WorkersOK
<1>2. worker'[w] \in TaskRecords /\ worker[w].ks \in Nat
  BY <1>1, Bounds DEF WorkerOK, TaskRecords
<1>3. /\ worker'[w].op = Op(w) /\ worker'[w].account = User(w) /\ worker'[w].at = point
      /\ worker'[w].ks = worker[w].ks /\ worker'[w].frame = worker[w].frame
      /\ worker'[w].pwd = worker[w].pwd
  BY <1>1 DEF WorkerOK, TaskRecords, Op, User
<1>4. worker[w].ks <= Len(keystores')
  BY <1>0, <1>1, <1>2 DEF WorkerOK, Grows
<1>5. Op(w) \in {"poll", "change"} =>
        /\ worker[w].frame \in 1 .. Len(frames')
        /\ frames'[worker[w].frame].token = worker[w].pwd
        /\ frames'[worker[w].frame].user = User(w)
  BY <1>0, <1>1 DEF WorkerOK, Grows, Frame
<1> QED
  BY <1>1, <1>2, <1>3, <1>4, <1>5 DEF WorkerOK, Op, User, Frame, At

\* A Keystore object gets a KEK.
LEMMA KekSet ==
  ASSUME Typed, NEW k \in 1 .. Len(keystores), NEW kek \in Keks,
         keystores' = [keystores EXCEPT ![k].kek = kek]
  PROVE  keystores' \in Seq(Objects) /\ Len(keystores') = Len(keystores)
<1>1. keystores \in Seq(Objects) /\ keystores[k] \in Objects
  BY ElementOfSeq DEF Typed, MemoryOK
<1> DEFINE new == [keystores[k] EXCEPT !.kek = kek]
<1>2. new \in Objects
  BY <1>1 DEF Objects
<1>3. keystores' = [keystores EXCEPT ![k] = new]
  OBVIOUS
<1> HIDE DEF new
<1> QED
  BY <1>1, <1>2, <1>3, ExceptSeq

LEMMA SigningStepOK ==
  ASSUME Typed, NEW w \in Workers, NEW op \in {"register", "login"}, NEW a \in Accounts,
         NEW p \in Passwords \ {0}, StartSigning(w, op, a, p)
  PROVE  DiskOK' /\ MemoryOK' /\ Grows /\ WorkerOK(w)'
<1>0. /\ Len(keystores) \in Nat /\ Len(keystores) < MaxKeystores /\ Len(frames) \in Nat
      /\ keystores \in Seq(Objects)
      /\ keystores' = Append(keystores, [account |-> a, kek |-> Locked])
      /\ UNCHANGED <<overlap, remote, disk, frames, app, screen, faults>>
  BY LenProperties DEF StartSigning, Typed, MemoryOK
<1>1. [account |-> a, kek |-> Locked] \in Objects
  BY Nothing DEF Objects
<1>2. keystores' \in Seq(Objects) /\ Len(keystores') = Len(keystores) + 1
  BY <1>0, <1>1, AppendProperties
<1>3. MemoryOK'
  <2>1. \A f \in 1 .. Len(frames) : frames[f].ks <= Len(keystores) + 1
    BY <1>0, WindowOK DEF Typed, MemoryOK
  <2>2. app.ks <= Len(keystores) + 1
    BY <1>0, Bounds DEF Typed, MemoryOK
  <2>3. Len(keystores') <= MaxKeystores
    BY <1>0, <1>2, Bounds
  <2> QED
    BY <1>0, <1>2, <2>1, <2>2, <2>3 DEF Typed, MemoryOK
<1>4. Grows
  BY <1>0, <1>2 DEF Grows
<1> DEFINE k == Len(keystores) + 1
<1>5. /\ worker'[w] = [Idle EXCEPT !.at = "posting", !.op = op, !.account = a, !.ks = k,
                                   !.pwd = p]
      /\ k \in 0 .. MaxKeystores /\ k # 0 /\ k <= Len(keystores')
  BY <1>0, <1>2, Bounds DEF StartSigning, Typed, WorkersOK
<1> HIDE DEF k
<1>6. worker'[w] \in TaskRecords
  BY <1>5, Nothing DEF TaskRecords, Points
<1>7. /\ worker'[w].at = "posting" /\ worker'[w].op = op /\ worker'[w].account = a
      /\ worker'[w].ks = k /\ worker'[w].pwd = p
  BY <1>5, Nothing DEF TaskRecords
<1>8. WorkerOK(w)'
  BY <1>5, <1>6, <1>7 DEF WorkerOK, Op, User, At
<1> QED
  BY <1>0, <1>3, <1>4, <1>8 DEF Typed, DiskOK, remote, disk

\* What Keystore.create, an unlock or a change of the password leaves in memory.
LEMMA KeystoreStepOK ==
  ASSUME Typed, NEW w \in Workers, NEW kek \in Keks,
         worker[w].ks \in 1 .. Len(keystores),
         keystores' = [keystores EXCEPT ![worker[w].ks].kek = kek],
         UNCHANGED <<frames, screen>>,
         app' = app \/ app' = [app EXCEPT !.ks = worker[w].ks]
  PROVE  MemoryOK' /\ Grows
<1>1. keystores' \in Seq(Objects) /\ Len(keystores') = Len(keystores)
  BY KekSet
<1>2. Len(keystores) \in Nat /\ Len(frames) \in Nat /\ Len(keystores) <= MaxKeystores
  BY LenProperties DEF Typed, MemoryOK
<1>3. worker[w].ks \in 0 .. MaxKeystores /\ worker[w].ks # 0 /\ worker[w].ks <= Len(keystores)
  BY <1>2, Bounds
<1> DEFINE k == worker[w].ks
<1>4. k \in 0 .. MaxKeystores /\ k # 0 /\ k <= Len(keystores)
  BY <1>3
<1>5. app' = app \/ app' = [app EXCEPT !.ks = k]
  OBVIOUS
<1> HIDE DEF k
<1>6. /\ app' \in [user : Accounts \cup {Nobody}, token : Passwords, ks : 0 .. MaxKeystores]
      /\ app'.ks <= Len(keystores) /\ (app.ks # 0 => app'.ks # 0)
  BY <1>4, <1>5 DEF Typed, MemoryOK
<1> QED
  BY <1>1, <1>2, <1>6 DEF Typed, MemoryOK, Grows

LEMMA CreatedOK ==
  ASSUME Typed, NEW w \in Workers, Op(w) \in {"register", "login"}, Create(w)
  PROVE  /\ file' \in [Accounts -> Files]
         /\ Kek(worker[w].pwd, worker[w].ks) \in Keks
<1>1. WorkerOK(w) /\ User(w) \in Accounts /\ file \in [Accounts -> Files]
  BY DEF Typed, DiskOK, WorkersOK, WorkerOK
<1>2. worker[w].pwd \in Passwords /\ worker[w].ks \in 0 .. Earlier
  BY <1>1, Bounds DEF WorkerOK, TaskRecords
<1> QED
  BY <1>1, <1>2 DEF Create, Kek, Keks, Files

LEMMA UnlockStepOK ==
  ASSUME Typed, NEW w \in Workers, MakeKeystore(w) \/ Unlock(w)
  PROVE  DiskOK' /\ MemoryOK' /\ Grows /\ WorkerOK(w)'
<1>0. /\ UNCHANGED <<overlap, remote, cacheFile, frames, screen, faults>>
      /\ WorkerOK(w) /\ DiskOK /\ worker[w] \in TaskRecords
      /\ worker = [v \in Workers |-> worker[v]]
      /\ Op(w) \in {"register", "login"} /\ User(w) \in Accounts
  BY DEF MakeKeystore, Unlock, Typed, WorkersOK, WorkerOK, At, Op
<1>1. worker[w].ks \in 1 .. Len(keystores)
  BY <1>0, OwnKeystore
<1>2. file' \in [Accounts -> Files]
  BY <1>0, CreatedOK DEF MakeKeystore, Unlock, DiskOK
<1>3. MemoryOK' /\ Grows
  <2>1. CASE UNCHANGED <<keystores, app>>
    BY <1>0, <2>1, SameMemory DEF memory
  <2>2. CASE Create(w) /\ (app' = app \/ app' = [app EXCEPT !.ks = worker[w].ks])
    <3>1. Kek(worker[w].pwd, worker[w].ks) \in Keks
      BY <1>0, <2>2, CreatedOK
    <3> QED
      BY <1>0, <1>1, <2>2, <3>1, KeystoreStepOK DEF Create
  <2>3. CASE /\ keystores' = [keystores EXCEPT ![worker[w].ks].kek =
                                Kek(worker[w].pwd, file[User(w)].identity)]
             /\ UNCHANGED app
    <3>1. Kek(worker[w].pwd, file[User(w)].identity) \in Keks
      BY <1>0 DEF DiskOK, Files, Kek, Keks, TaskRecords
    <3> QED
      BY <1>0, <1>1, <2>3, <3>1, KeystoreStepOK
  <2> QED
    BY <2>1, <2>2, <2>3 DEF MakeKeystore, Unlock
<1>4. CASE Ends(w)
  BY <1>0, <1>2, <1>3, <1>4, IdleOK DEF Ends, DiskOK, remote
<1>5. CASE Goto(w, "publishing") /\ Op(w) = "login"
  <2>1. WorkerOK(w)'
    BY <1>0, <1>3, <1>5, MovesOK DEF Points
  <2> QED
    BY <1>0, <1>2, <1>3, <2>1 DEF DiskOK, remote
<1> QED
  BY <1>4, <1>5 DEF MakeKeystore, Unlock, At, Op

LEMMA LeaveOK ==
  ASSUME Typed, Leave, UNCHANGED <<keystores, frames>>
  PROVE  MemoryOK' /\ Grows
<1>1. /\ Len(keystores) \in Nat /\ Len(frames) \in Nat /\ 0 \in Passwords
      /\ MemoryOK /\ screen' = 0
  BY LenProperties, Bounds DEF Leave, Typed, MemoryOK
<1>2. /\ app' \in [user : Accounts \cup {Nobody}, token : Passwords, ks : 0 .. MaxKeystores]
      /\ app'.ks = app.ks
  BY <1>1 DEF Leave, MemoryOK
<1>3. screen' \in 0 .. Len(frames)
  BY <1>1
<1>4. MemoryOK'
  BY <1>1, <1>2, <1>3 DEF MemoryOK
<1> QED
  BY <1>1, <1>2, <1>4 DEF Grows

LEMMA EnterStepOK ==
  ASSUME Typed, NEW w \in Workers, Enter(w) \/ CloseDialog(w)
  PROVE  DiskOK' /\ MemoryOK' /\ Grows /\ WorkerOK(w)'
<1>0. /\ UNCHANGED <<overlap, remote, disk, keystores, frames, faults>>
      /\ WorkerOK(w) /\ DiskOK /\ worker[w] \in TaskRecords /\ Len(frames) \in Nat
  BY LenProperties DEF Enter, CloseDialog, Typed, MemoryOK, WorkersOK, WorkerOK
<1>1. CASE Enter(w)
  <2>1. /\ Op(w) = "login" /\ worker[w].ks # 0 /\ worker[w].ks <= Len(keystores)
        /\ worker[w].ks \in 0 .. MaxKeystores /\ User(w) \in Accounts
        /\ worker[w].pwd \in Passwords /\ UNCHANGED screen
        /\ app' = [user |-> User(w), token |-> worker[w].pwd, ks |-> worker[w].ks]
    BY <1>0, <1>1 DEF Enter, WorkerOK, TaskRecords, Op, At
  <2>2. MemoryOK' /\ Grows
    BY <1>0, <2>1 DEF Typed, MemoryOK, Grows
  <2>3. WorkerOK(w)'
    BY <1>1, <2>1, <2>2, MovesOK DEF Enter, Points
  <2> QED
    BY <1>0, <2>2, <2>3 DEF DiskOK, remote, disk
<1>2. CASE CloseDialog(w)
  <2>1. MemoryOK' /\ Grows
    BY <1>0, <1>2, LeaveOK DEF CloseDialog
  <2> QED
    BY <1>0, <1>2, <2>1, IdleOK DEF CloseDialog, Ends, DiskOK, remote, disk
<1> QED
  BY <1>1, <1>2

LEMMA ShowStepOK ==
  ASSUME Typed, NEW w \in Workers, ShowMain(w)
  PROVE  DiskOK' /\ MemoryOK' /\ Grows /\ WorkerOK(w)'
<1>0. /\ UNCHANGED <<overlap, remote, disk, keystores, app, faults>> /\ DiskOK
      /\ app.ks \in Nat \ {0} /\ app.ks <= Len(keystores) /\ Len(frames) \in Nat
      /\ frames \in Seq(Windows) /\ app.user \in Accounts \cup {Nobody}
      /\ app.token \in Passwords /\ screen' = Len(frames) + 1
  BY LenProperties DEF ShowMain, Typed, MemoryOK, WorkersOK, WorkerOK
<1> DEFINE cache == LoadCache(app.ks)
           new   == [user |-> app.user, token |-> app.token, ks |-> app.ks, cache |-> cache]
<1>1. cache \in SUBSET Accounts
  BY <1>0, OwnerOK DEF LoadCache, DiskOK
<1> HIDE DEF cache
<1>2. new \in Windows /\ new.ks = app.ks
  BY <1>0, <1>1 DEF Windows
<1>3. frames' = Append(frames, new)
  BY DEF ShowMain, cache
<1> HIDE DEF new
<1>4. /\ frames' \in Seq(Windows) /\ Len(frames') = Len(frames) + 1
      /\ \A f \in 1 .. Len(frames) : frames'[f] = frames[f]
      /\ frames'[Len(frames) + 1] = new
  BY <1>0, <1>2, <1>3, AppendProperties
<1>5. \A f \in 1 .. Len(frames') : frames'[f].ks <= Len(keystores)
  <2> SUFFICES ASSUME NEW f \in 1 .. Len(frames') PROVE frames'[f].ks <= Len(keystores)
    OBVIOUS
  <2>1. f \in 1 .. Len(frames) \/ f = Len(frames) + 1
    BY <1>0, <1>4
  <2> QED
    BY <1>0, <1>2, <1>4, <2>1, WindowOK
<1>6. screen' \in 0 .. Len(frames')
  BY <1>0, <1>4
<1>7. MemoryOK'
  BY <1>0, <1>4, <1>5, <1>6 DEF Typed, MemoryOK
<1>8. Grows
  BY <1>0, <1>4, LenProperties DEF Grows, Typed, MemoryOK
<1> QED
  BY <1>0, <1>7, <1>8, IdleOK DEF ShowMain, Ends, DiskOK, remote, disk

LEMMA SaveStepOK ==
  ASSUME Typed, NEW w \in Workers, SaveCounter(w)
  PROVE  DiskOK' /\ MemoryOK' /\ Grows /\ WorkerOK(w)'
<1>0. /\ UNCHANGED <<overlap, remote, cacheFile, keystores, app, screen, faults>> /\ DiskOK
      /\ Op(w) = "poll" /\ worker[w].at = "saving" /\ worker[w] \in TaskRecords
      /\ User(w) \in Accounts /\ worker[w].frame \in 1 .. Len(frames) /\ WorkerOK(w)
      /\ worker = [v \in Workers |-> worker[v]] /\ Len(frames) \in Nat
      /\ frames \in Seq(Windows)
  BY LenProperties DEF SaveCounter, Typed, MemoryOK, WorkersOK, WorkerOK, At, Op
<1> DEFINE f   == worker[w].frame
           new == [frames[f] EXCEPT !.cache = @ \cup {User(w)}]
<1>1. frames[f] \in Windows
  BY <1>0, WindowOK
<1>2. /\ new \in Windows /\ new.ks = frames[f].ks /\ new.user = frames[f].user
      /\ new.token = frames[f].token
  BY <1>0, <1>1 DEF Windows
<1>3. frames' = [frames EXCEPT ![f] = new]
  BY DEF SaveCounter
<1> HIDE DEF new, f
<1>4. /\ frames' \in Seq(Windows) /\ Len(frames') = Len(frames)
      /\ \A j \in 1 .. Len(frames) : frames'[j] = IF j = f THEN new ELSE frames[j]
  BY <1>0, <1>2, <1>3, ExceptSeq DEF f
<1>5. \A j \in 1 .. Len(frames) :
        /\ frames'[j].ks = frames[j].ks /\ frames'[j].user = frames[j].user
        /\ frames'[j].token = frames[j].token
  BY <1>2, <1>4
<1>6. frames # << >>
  BY <1>0, LenProperties
<1>7. MemoryOK'
  BY <1>0, <1>4, <1>5, <1>6 DEF Typed, MemoryOK
<1>8. Grows
  BY <1>0, <1>4, <1>5, LenProperties DEF Grows, Typed, MemoryOK
<1>9. /\ worker'[w] = [worker[w] EXCEPT !.at = "caching", !.copy = NoFile]
      /\ file' = [file EXCEPT ![User(w)] = worker[w].copy]
  BY <1>0 DEF SaveCounter
<1>10. file' \in [Accounts -> Files]
  BY <1>0, <1>9 DEF DiskOK, TaskRecords
<1>11. /\ worker'[w] \in TaskRecords /\ worker'[w].op = "poll" /\ worker'[w].at = "caching"
       /\ worker'[w].account = User(w) /\ worker'[w].ks = worker[w].ks
       /\ worker'[w].frame = worker[w].frame /\ worker'[w].pwd = worker[w].pwd
  BY <1>0, <1>9, Nothing DEF TaskRecords, Points, Op, User
<1>12. WorkerOK(w)'
  BY <1>0, <1>4, <1>5, <1>11 DEF WorkerOK, Op, User, Frame, At
<1> QED
  BY <1>0, <1>7, <1>8, <1>10, <1>12 DEF DiskOK, remote

LEMMA RewrapStepOK ==
  ASSUME Typed, NEW w \in Workers, Rewrap(w)
  PROVE  DiskOK' /\ MemoryOK' /\ Grows /\ WorkerOK(w)'
<1>0. /\ UNCHANGED <<overlap, remote, cacheFile, frames, app, screen, faults>> /\ DiskOK
      /\ Op(w) = "change" /\ worker[w].at = "rewriting" /\ worker[w] \in TaskRecords
      /\ worker[w].pwd < MaxPasswords /\ WorkerOK(w)
      /\ worker = [v \in Workers |-> worker[v]]
  BY DEF Rewrap, Typed, WorkersOK, WorkerOK, At, Op
<1>1. /\ worker[w].ks \in 1 .. Len(keystores) /\ Owner(worker[w].ks) \in Accounts
      /\ worker[w].copy \in Files /\ worker[w].pwd \in Passwords
      /\ worker[w].pwd + 1 \in Passwords
  BY <1>0, OwnKeystore, Bounds DEF TaskRecords, Passwords
<1>2. /\ Rewrapped(w) \in Files /\ Kek(Rewrapped(w).pwd, Rewrapped(w).identity) \in Keks
      /\ Kek(worker[w].pwd, worker[w].copy.identity) \in Keks
  BY <1>1 DEF Rewrapped, Files, Kek, Keks
<1>3. file' \in [Accounts -> Files]
  BY <1>0, <1>1, <1>2 DEF Rewrap, DiskOK
<1>4. MemoryOK' /\ Grows /\ Len(keystores') = Len(keystores)
  BY <1>0, <1>1, <1>2, KeystoreStepOK, KekSet DEF Rewrap
<1> DEFINE kek == Kek(worker[w].pwd, worker[w].copy.identity)
<1>5. worker'[w] = [worker[w] EXCEPT !.at = "recaching", !.kek = kek] /\ kek \in Keks
  BY <1>0, <1>2 DEF Rewrap
<1> HIDE DEF kek
<1>6. /\ worker'[w] \in TaskRecords /\ worker'[w].op = "change" /\ worker'[w].at = "recaching"
      /\ worker'[w].account = User(w) /\ worker'[w].ks = worker[w].ks
      /\ worker'[w].frame = worker[w].frame /\ worker'[w].pwd = worker[w].pwd
  BY <1>0, <1>5 DEF TaskRecords, Points, Op, User
<1>7. WorkerOK(w)'
  BY <1>0, <1>4, <1>6 DEF WorkerOK, Op, User, Frame, At
<1> QED
  BY <1>0, <1>3, <1>4, <1>7 DEF DiskOK, remote

LEMMA TypedNext ==
  ASSUME Typed, [Next]_vars
  PROVE  Typed'
<1>1. ASSUME NEW w \in Workers, DiskOK', MemoryOK', Grows, WorkerOK(w)',
             \E t : worker' = [worker EXCEPT ![w] = t]
      PROVE  Typed'
  BY <1>1, OneActs DEF Typed
<1>2. ASSUME NEW w \in Workers, NEW a \in Accounts, NEW p \in 1 .. MaxPasswords,
             StartRegister(w, a) \/ StartLogin(w, a, p)
      PROVE  Typed'
  <2>1. p \in Passwords \ {0} /\ 1 \in Passwords \ {0}
    BY Bounds DEF Passwords
  <2>2. \E op \in {"register", "login"}, q \in Passwords \ {0} : StartSigning(w, op, a, q)
    BY <1>2, <2>1 DEF StartRegister, StartLogin
  <2> QED
    BY <1>1, <2>2, SigningStepOK DEF StartSigning
<1>3. ASSUME NEW w \in Workers, StartPoll(w) \/ StartChange(w)
      PROVE  Typed'
  BY <1>1, <1>3, StartedOK DEF StartPoll, StartChange, StartInWindow
<1>4. ASSUME NEW w \in Workers,
             Register(w) \/ LogIn(w) \/ Publish(w) \/ Fetch(w) \/ ChangeAtServer(w)
               \/ RequestFails(w) \/ AnswerLost(w)
      PROVE  Typed'
  <2>1. \E t : worker' = [worker EXCEPT ![w] = t]
    BY <1>4 DEF Register, LogIn, Publish, Fetch, ChangeAtServer, RequestFails, AnswerLost,
                Goto, Ends
  <2> QED
    BY <1>1, <1>4, <2>1, RequestsOK
<1>5. ASSUME NEW w \in Workers,
             ClearKeystore(w) \/ OpenMessages(w) \/ SaveCache(w) \/ LoadWrapped(w) \/ Recache(w)
      PROVE  Typed'
  <2>1. \E t : worker' = [worker EXCEPT ![w] = t]
    BY <1>5 DEF ClearKeystore, OpenMessages, SaveCache, LoadWrapped, Recache, Goto, Ends
  <2> QED
    BY <1>1, <1>5, <2>1, FilesStepOK
<1>6. ASSUME NEW w \in Workers,
             MakeKeystore(w) \/ Unlock(w) \/ Enter(w) \/ CloseDialog(w) \/ ShowMain(w)
               \/ SaveCounter(w) \/ Rewrap(w)
      PROVE  Typed'
  <2>1. \E t : worker' = [worker EXCEPT ![w] = t]
    BY <1>6 DEF MakeKeystore, Unlock, Enter, CloseDialog, ShowMain, SaveCounter, Rewrap,
                Goto, Ends
  <2> QED
    BY <1>1, <1>6, <2>1, UnlockStepOK, EnterStepOK, ShowStepOK, SaveStepOK, RewrapStepOK
<1>7. CASE LogOut
  <2>1. MemoryOK' /\ Grows /\ UNCHANGED <<overlap, remote, disk, worker, faults>>
    BY <1>7, LeaveOK DEF LogOut
  <2>2. WorkersOK'
    BY <2>1, OneStays DEF Typed, WorkersOK
  <2> QED
    BY <2>1, <2>2 DEF Typed, DiskOK, remote, disk
<1>8. CASE Crash
  <2>1. /\ UNCHANGED <<overlap, remote, disk, keystores>> /\ faults' \in Nat
        /\ frames' = << >> /\ app' = LoggedOut /\ screen' = 0
        /\ worker' = [v \in Workers |-> Idle]
    BY <1>8 DEF Crash, Typed, DiskOK
  <2>2. MemoryOK'
    BY <2>1, EmptySeq, LenProperties, Bounds DEF Typed, MemoryOK, LoggedOut
  <2>3. WorkersOK'
    <3>1. Len(keystores') \in Nat
      BY <2>2, LenProperties DEF MemoryOK
    <3>2. ASSUME NEW v \in Workers PROVE WorkerOK(v)'
      BY <2>1, <3>1, Nothing DEF WorkerOK, Op, At, Idle
    <3> QED
      BY <2>1, <3>2 DEF WorkersOK
  <2> QED
    BY <2>1, <2>2, <2>3 DEF Typed, DiskOK, remote, disk
<1>9. CASE UNCHANGED vars
  <2>1. MemoryOK' /\ Grows
    BY <1>9, SameMemory DEF vars
  <2> QED
    BY <1>9, <2>1 DEF vars, Typed, DiskOK, WorkersOK, WorkerOK, Op, User, Frame, At, memory,
                      remote, disk
<1> QED
  BY <1>2, <1>3, <1>4, <1>5, <1>6, <1>7, <1>8, <1>9, Bounds DEF Next, WorkerStep

LEMMA TypedInit == Init => Typed
<1> SUFFICES ASSUME Init PROVE Typed
  OBVIOUS
<1>1. DiskOK
  BY Nothing, Bounds DEF Init, DiskOK, FileOf, NoCache, Files, NoFile
<1>2. MemoryOK
  BY EmptySeq, Bounds DEF Init, MemoryOK, LoggedOut
<1>3. WorkersOK
  <2>1. Len(keystores) \in Nat /\ worker = [w \in Workers |-> Idle]
    BY EmptySeq DEF Init
  <2> QED
    BY <2>1, Nothing DEF WorkersOK, WorkerOK, Op, At, Idle
<1> QED
  BY <1>1, <1>2, <1>3 DEF Typed

LEMMA TypedTypes == Typed => TypeOK
<1> SUFFICES ASSUME Typed PROVE TypeOK
  OBVIOUS
<1>1. /\ DOMAIN keystores = 1 .. Len(keystores) /\ Len(keystores) \in Nat
      /\ DOMAIN frames = 1 .. Len(frames) /\ Len(frames) \in Nat
      /\ frames \in [1 .. Len(frames) -> Windows]
  BY LenProperties DEF Typed, MemoryOK
<1>2. \A w \in Workers : worker[w].op = "poll" /\ worker[w].at # "posting" => worker[w].ks # 0
  BY DEF Typed, WorkersOK, WorkerOK, Op
<1>3. worker \in [Workers -> [at : Points, op : {"none", "register", "login", "poll", "change"},
                             account : Accounts \cup {Nobody},
                             ks : DOMAIN keystores \cup {0}, frame : Nat,
                             pwd : Passwords, copy : Files, kek : Keks]]
  <2>1. ASSUME NEW w \in Workers
        PROVE  worker[w] \in TaskRecords /\ worker[w].ks \in DOMAIN keystores \cup {0}
    <3>1. worker[w] \in TaskRecords /\ worker[w].ks <= Len(keystores)
      BY DEF Typed, WorkersOK, WorkerOK
    <3>2. worker[w].ks \in 0 .. MaxKeystores
      BY <3>1 DEF TaskRecords
    <3> QED
      BY <1>1, <3>1, <3>2, Bounds
  <2> QED
    BY <2>1 DEF Typed, WorkersOK, TaskRecords
<1>4. /\ app \in [user : Accounts \cup {Nobody}, token : Passwords,
                  ks : DOMAIN keystores \cup {0}]
      /\ screen \in DOMAIN frames \cup {0}
  <2>1. app.ks \in DOMAIN keystores \cup {0}
    BY <1>1, Bounds DEF Typed, MemoryOK
  <2> QED
    BY <1>1, <2>1 DEF Typed, MemoryOK
<1>5. keystores \in Seq([account : Accounts, kek : Keks])
  BY DEF Typed, MemoryOK, Objects
<1>6. frames \in Seq([user : Accounts \cup {Nobody}, token : Passwords, ks : Nat,
                      cache : SUBSET Accounts])
  <2> DEFINE Records == [user : Accounts \cup {Nobody}, token : Passwords, ks : Nat,
                         cache : SUBSET Accounts]
  <2>1. Windows \subseteq Records
    BY DEF Windows
  <2> HIDE DEF Records
  <2>2. frames \in Seq(Records)
    BY <1>1, <2>1
  <2> QED
    BY <2>2 DEF Records
<1> QED
  BY <1>2, <1>3, <1>4, <1>5, <1>6 DEF TypeOK, Typed, DiskOK

\* Every value is of its kind, whatever the threads, the windows and the faults; and a
\* poll that has its messages has a keystore to save them with.
THEOREM TypeCorrect == Spec => []TypeOK
<1>1. Init => Typed
  BY TypedInit
<1>2. Typed /\ [Next]_vars => Typed'
  BY TypedNext
<1>3. Typed => TypeOK
  BY TypedTypes
<1> QED
  BY <1>1, <1>2, <1>3, PTL DEF Spec

----------------------------------------------------------------------------
(* Threads that do not overlap.                                            *)

Alone == \A v, w \in Workers : v # w => worker[v] = Idle \/ worker[w] = Idle

\* A keystore file is under a password its account has had and holds the identity that
\* is published; a cache file is of its account.
DiskAgrees ==
  \A a \in Accounts :
    /\ file[a] # NoFile => file[a].pwd \in 1 .. server[a] /\ file[a].identity # 0
    /\ published[a] # 0 => file[a].identity = published[a]
    /\ cacheFile[a].of \subseteq {a}

\* A window's keystore and messages are its user's, and the application has the
\* keystore of the window shown.
WindowsAgree ==
  /\ \A f \in 1 .. Len(frames) :
       /\ frames[f].user \in Accounts /\ frames[f].token # 0
       /\ Owner(frames[f].ks) = frames[f].user
       /\ frames[f].cache \subseteq {frames[f].user}
  /\ screen # 0 => app.ks = frames[screen].ks

\* Where a thread is says what is true of server, file and application.
Task(w) ==
  /\ Op(w) \in {"register", "login"} => screen = 0 /\ Owner(worker[w].ks) = User(w)
  /\ At(w, "register", "clearing") \/ At(w, "register", "making") =>
       file[User(w)] = NoFile /\ server[User(w)] # 0
  /\ Op(w) = "register" => worker[w].pwd = 1
  /\ At(w, "login", "unlocking") => worker[w].pwd <= server[User(w)]
  /\ At(w, "login", "showing") =>
       app.user = User(w) /\ app.ks = worker[w].ks /\ app.token # 0
  /\ At(w, "poll", "posting") => worker[w].frame = screen
  /\ Op(w) = "poll" /\ worker[w].at # "posting" => Owner(worker[w].ks) = User(w)
  /\ At(w, "poll", "saving") => worker[w].copy = file[User(w)]
  /\ Op(w) = "change" => Owner(worker[w].ks) = User(w) /\ User(w) \in Accounts
  /\ At(w, "change", "rewrapping") \/ At(w, "change", "rewriting") =>
       worker[w].pwd + 1 = server[User(w)]
  /\ At(w, "change", "rewriting") =>
       worker[w].copy = file[User(w)] /\ worker[w].copy # NoFile

SerialState == Alone /\ DiskAgrees /\ WindowsAgree /\ \A w \in Workers : Task(w)

LEMMA IdleTask ==
  ASSUME NEW w \in Workers, worker[w] = Idle
  PROVE  Task(w)
BY DEF Task, Op, At, Idle

\* Where one thread works, the others have nothing in hand.
LEMMA OneTask ==
  ASSUME Typed, Alone, NEW w \in Workers, NEW t, worker' = [worker EXCEPT ![w] = t],
         worker[w] # Idle \/ AtRest, Task(w)'
  PROVE  Alone' /\ \A v \in Workers : Task(v)'
<1>1. worker = [v \in Workers |-> worker[v]]
  BY DEF Typed, WorkersOK
<1>2. \A v \in Workers : v # w => worker[v] = Idle
  BY DEF Alone, AtRest
<1>3. \A v \in Workers : v # w => worker'[v] = Idle
  BY <1>1, <1>2
<1>4. \A v \in Workers : v # w => Task(v)'
  BY <1>3 DEF Task, Op, At, Idle
<1> QED
  BY <1>3, <1>4 DEF Alone

LEMMA GotoFields ==
  ASSUME Typed, NEW w \in Workers, NEW point \in Points, Goto(w, point)
  PROVE  /\ worker'[w].at = point /\ worker'[w].op = Op(w) /\ worker'[w].account = User(w)
         /\ worker'[w].ks = worker[w].ks /\ worker'[w].frame = worker[w].frame
         /\ worker'[w].pwd = worker[w].pwd /\ worker'[w].copy = worker[w].copy
         /\ worker'[w].kek = worker[w].kek
<1>1. worker'[w] = [worker[w] EXCEPT !.at = point] /\ worker[w] \in TaskRecords
  BY DEF Goto, Typed, WorkersOK, WorkerOK
<1> QED
  BY <1>1 DEF TaskRecords, Op, User

LEMMA EndsIdle ==
  ASSUME Typed, NEW w \in Workers, Ends(w)
  PROVE  worker'[w] = Idle /\ Task(w)'
<1>1. worker'[w] = Idle
  BY DEF Ends, Typed, WorkersOK
<1> QED
  BY <1>1 DEF Task, Op, At, Idle

\* The windows stay what they are while every Keystore object keeps its account.
LEMMA SameWindows ==
  ASSUME Typed, WindowsAgree, UNCHANGED frames,
         \A k \in 1 .. Len(keystores) : Owner(k)' = Owner(k),
         UNCHANGED <<screen, app>> \/ screen' = 0
  PROVE  WindowsAgree'
<1>1. ASSUME NEW f \in 1 .. Len(frames) PROVE Owner(frames[f].ks)' = Owner(frames[f].ks)
  <2>1. frames[f].ks \in 1 .. Len(keystores)
    <3>1. Len(keystores) \in Nat
      BY LenProperties DEF Typed, MemoryOK
    <3>2. frames[f].ks \in Nat \ {0} /\ frames[f].ks <= Len(keystores)
      BY WindowOK
    <3> QED
      BY <3>1, <3>2
  <2> QED
    BY <2>1 DEF Owner
<1> QED
  BY <1>1 DEF WindowsAgree

LEMMA OwnersKept ==
  ASSUME Typed, NEW k \in 1 .. Len(keystores), NEW kek \in Keks,
         keystores' = [keystores EXCEPT ![k].kek = kek]
  PROVE  /\ \A j \in 1 .. Len(keystores) : Owner(j)' = Owner(j)
         /\ keystores'[k].kek = kek
<1>1. keystores \in Seq(Objects) /\ keystores[k] \in Objects
  BY ElementOfSeq DEF Typed, MemoryOK
<1> DEFINE new == [keystores[k] EXCEPT !.kek = kek]
<1>2. new \in Objects /\ new.account = keystores[k].account /\ new.kek = kek
  BY <1>1 DEF Objects
<1>3. keystores' = [keystores EXCEPT ![k] = new]
  OBVIOUS
<1> HIDE DEF new
<1>4. \A j \in 1 .. Len(keystores) : keystores'[j] = IF j = k THEN new ELSE keystores[j]
  BY <1>1, <1>2, <1>3, ExceptSeq
<1> QED
  BY <1>2, <1>4 DEF Owner

LEMMA SignsSerial ==
  ASSUME Typed, SerialState, NEW w \in Workers, NEW op \in {"register", "login"},
         NEW a \in Accounts, NEW p \in Passwords \ {0}, StartSigning(w, op, a, p), AtRest,
         op = "register" => p = 1
  PROVE  SerialState'
<1>0. /\ Len(keystores) \in Nat /\ screen = 0 /\ keystores \in Seq(Objects)
      /\ keystores' = Append(keystores, [account |-> a, kek |-> Locked])
      /\ UNCHANGED <<overlap, remote, disk, frames, app, screen, faults>>
  BY LenProperties DEF StartSigning, Typed, MemoryOK
<1>1. [account |-> a, kek |-> Locked] \in Objects
  BY Nothing DEF Objects
<1>2. /\ \A k \in 1 .. Len(keystores) : keystores'[k] = keystores[k]
      /\ keystores'[Len(keystores) + 1].account = a
  BY <1>0, <1>1, AppendProperties
<1>3. WindowsAgree'
  BY <1>0, <1>2, SameWindows DEF Owner, SerialState
<1>4. DiskAgrees'
  BY <1>0 DEF SerialState, DiskAgrees, disk, remote
<1> DEFINE k == Len(keystores) + 1
<1>5. /\ worker'[w] = [Idle EXCEPT !.at = "posting", !.op = op, !.account = a, !.ks = k,
                                   !.pwd = p]
      /\ keystores'[k].account = a
  <2>1. worker'[w] = [Idle EXCEPT !.at = "posting", !.op = op, !.account = a, !.ks = k,
                                  !.pwd = p]
    BY DEF StartSigning, Typed, WorkersOK
  <2> QED
    BY <1>2, <2>1
<1> HIDE DEF k
<1>6. worker'[w].at = "posting" /\ worker'[w].op = op /\ worker'[w].account = a
      /\ worker'[w].ks = k /\ worker'[w].pwd = p
  BY <1>5, Nothing DEF TaskRecords
<1>7. Task(w)'
  <2>1. screen' = 0 /\ keystores'[worker'[w].ks].account = worker'[w].account
    BY <1>0, <1>5, <1>6
  <2> QED
    BY <1>6, <2>1 DEF Task, Op, User, At, Owner
<1> QED
  BY <1>3, <1>4, <1>7, OneTask DEF StartSigning, SerialState

LEMMA StartsSerial ==
  ASSUME Typed, SerialState, NEW w \in Workers, StartPoll(w) \/ StartChange(w), AtRest
  PROVE  SerialState'
<1>0. /\ UNCHANGED <<overlap, remote, disk, memory, faults>> /\ screen # 0
      /\ screen \in 1 .. Len(frames)
  BY LenProperties DEF StartPoll, StartChange, StartInWindow, Typed, MemoryOK
<1>1. DiskAgrees' /\ WindowsAgree'
  BY <1>0, SameWindows DEF SerialState, DiskAgrees, disk, remote, memory, Owner
<1>2. /\ Owner(app.ks) = frames[screen].user /\ frames[screen].user \in Accounts
  BY <1>0 DEF SerialState, WindowsAgree
<1>3. ASSUME NEW op \in {"poll", "change"}, NEW ks \in 0 .. MaxKeystores,
             StartInWindow(w, op, ks)
      PROVE  /\ worker'[w].op = op /\ worker'[w].at = "posting" /\ worker'[w].ks = ks
             /\ worker'[w].account = frames[screen].user /\ worker'[w].frame = screen
  <2> DEFINE user == frames[screen].user
             token == frames[screen].token
  <2>1. worker'[w] = [Idle EXCEPT !.at = "posting", !.op = op, !.account = user, !.ks = ks,
                                  !.frame = screen, !.pwd = token]
    BY <1>3 DEF StartInWindow, Typed, WorkersOK
  <2> HIDE DEF user, token
  <2>2. /\ worker'[w].op = op /\ worker'[w].at = "posting" /\ worker'[w].ks = ks
        /\ worker'[w].account = user /\ worker'[w].frame = screen
    BY <2>1, Nothing DEF TaskRecords
  <2> QED
    BY <2>2 DEF user
<1>4. CASE StartPoll(w)
  <2>1. Task(w)'
    BY <1>0, <1>3, <1>4, Bounds DEF StartPoll, Task, Op, At, User, memory
  <2> QED
    BY <1>1, <1>4, <2>1, OneTask DEF StartPoll, StartInWindow, SerialState
<1>5. CASE StartChange(w)
  <2>1. app.ks \in 0 .. MaxKeystores
    BY DEF Typed, MemoryOK
  <2>2. Task(w)'
    BY <1>0, <1>2, <1>3, <1>5, <2>1 DEF StartChange, Task, Op, At, User, Owner, memory
  <2> QED
    BY <1>1, <1>5, <2>2, OneTask DEF StartChange, StartInWindow, SerialState
<1> QED
  BY <1>4, <1>5

LEMMA BusyThread ==
  ASSUME NEW w \in Workers, Op(w) # "none"
  PROVE  worker[w] # Idle
BY DEF Op, Idle

LEMMA AccountNext ==
  ASSUME Typed, DiskAgrees, UNCHANGED disk, UNCHANGED published,
         NEW a \in Accounts, server' = server \/ server' = [server EXCEPT ![a] = @ + 1]
  PROVE  DiskAgrees' /\ \A b \in Accounts : server[b] <= server'[b]
<1>1. server \in [Accounts -> Nat] /\ file \in [Accounts -> Files]
  BY Bounds DEF Typed, DiskOK
<1>2. \A b \in Accounts : server'[b] \in Nat /\ server[b] <= server'[b]
  BY <1>1
<1>3. \A b \in Accounts : file[b].pwd \in Nat
  BY <1>1, Bounds DEF Files
<1>4. ASSUME NEW b \in Accounts, file[b].pwd \in 1 .. server[b]
      PROVE  file[b].pwd \in 1 .. server'[b]
  BY <1>1, <1>2, <1>3, <1>4
<1> QED
  BY <1>2, <1>4 DEF DiskAgrees, disk

LEMMA RequestsSerial ==
  ASSUME Typed, SerialState, NEW w \in Workers,
         Register(w) \/ LogIn(w) \/ Publish(w) \/ Fetch(w) \/ ChangeAtServer(w)
           \/ (RequestFails(w) /\ Op(w) # "none") \/ AnswerLost(w)
  PROVE  SerialState'
<1>0. /\ UNCHANGED <<overlap, disk, memory>> /\ WorkerOK(w) /\ Task(w) /\ Alone
      /\ worker = [v \in Workers |-> worker[v]] /\ DiskAgrees
      /\ server \in [Accounts -> Nat] /\ file \in [Accounts -> Files]
      /\ published \in [Accounts -> Nat]
  BY Bounds DEF Register, LogIn, Publish, Fetch, ChangeAtServer, RequestFails, AnswerLost, disk,
         Typed, WorkersOK, SerialState, DiskOK
<1>1. WindowsAgree' /\ UNCHANGED <<file, cacheFile, keystores, frames, app, screen>>
  BY <1>0, SameWindows DEF SerialState, Owner, memory, disk
<1>2. ASSUME NEW t, worker' = [worker EXCEPT ![w] = t], Op(w) # "none", Task(w)', DiskAgrees'
      PROVE  SerialState'
  BY <1>0, <1>1, <1>2, BusyThread, OneTask DEF SerialState
<1>3. ASSUME Ends(w), Op(w) # "none", DiskAgrees'
      PROVE  SerialState'
  BY <1>2, <1>3, EndsIdle DEF Ends
<1>4. ASSUME NEW point \in Points, Goto(w, point), Op(w) # "none", Task(w)', DiskAgrees'
      PROVE  SerialState'
  BY <1>2, <1>4 DEF Goto
<1>5. ASSUME UNCHANGED remote PROVE DiskAgrees'
  BY <1>0, <1>5 DEF DiskAgrees, disk, remote
<1>6. CASE Register(w)
  <2>1. Op(w) = "register" /\ At(w, "register", "posting") /\ User(w) \in Accounts
        /\ UNCHANGED published
    BY <1>0, <1>6 DEF Register, At, Op, WorkerOK
  <2>2. CASE Ends(w) /\ UNCHANGED server
    BY <1>3, <1>5, <2>1, <2>2 DEF remote
  <2>3. CASE server[User(w)] = 0 /\ server' = [server EXCEPT ![User(w)] = 1]
             /\ Goto(w, "clearing")
    <3>1. server' = [server EXCEPT ![User(w)] = @ + 1]
      BY <1>0, <2>1, <2>3
    <3>2. DiskAgrees' /\ server'[User(w)] = 1
      BY <1>0, <2>1, <2>3, <3>1, AccountNext
    <3>3. file[User(w)] = NoFile
      BY <1>0, <2>1, <2>3 DEF DiskAgrees
    <3>4. Task(w)'
      BY <1>0, <1>1, <2>1, <2>3, <3>2, <3>3, GotoFields DEF Task, At, Op, User, Points, Owner
    <3> QED
      BY <1>4, <2>1, <2>3, <3>2, <3>4 DEF Points
  <2> QED
    BY <1>6, <2>1, <2>2, <2>3 DEF Register
<1>7. CASE LogIn(w)
  <2>1. Op(w) = "login" /\ At(w, "login", "posting") /\ User(w) \in Accounts
        /\ UNCHANGED remote /\ DiskAgrees'
    BY <1>0, <1>5, <1>7 DEF LogIn, At, Op, WorkerOK
  <2>2. CASE Ends(w)
    BY <1>3, <2>1, <2>2
  <2>3. CASE worker[w].pwd = server[User(w)] /\ Goto(w, "unlocking")
    <3>1. worker[w].pwd <= server[User(w)]
      BY <1>0, <2>1, <2>3
    <3>2. Task(w)'
      BY <1>0, <1>1, <2>1, <2>3, <3>1, GotoFields DEF Task, At, Op, User, Points, Owner, remote
    <3> QED
      BY <1>4, <2>1, <2>3, <3>2 DEF Points
  <2> QED
    BY <1>7, <2>2, <2>3 DEF LogIn
<1>8. CASE Publish(w)
  <2>1. Op(w) = "login" /\ At(w, "login", "publishing") /\ User(w) \in Accounts
        /\ UNCHANGED server
    BY <1>0, <1>8 DEF Publish, At, Op, WorkerOK
  <2>2. CASE Ends(w) /\ UNCHANGED published
    BY <1>3, <1>5, <2>1, <2>2 DEF remote
  <2>3. CASE /\ published' = [published EXCEPT ![User(w)] = file[User(w)].identity]
             /\ Goto(w, "entering")
    <3>1. DiskAgrees'
      BY <1>0, <1>1, <2>1, <2>3 DEF DiskAgrees
    <3>2. Task(w)'
      BY <1>0, <1>1, <2>1, <2>3, GotoFields DEF Task, At, Op, User, Points, Owner
    <3> QED
      BY <1>4, <2>1, <2>3, <3>1, <3>2 DEF Points
  <2> QED
    BY <1>8, <2>2, <2>3 DEF Publish
<1>9. CASE Fetch(w)
  <2>1. Op(w) = "poll" /\ At(w, "poll", "posting") /\ UNCHANGED remote /\ DiskAgrees'
    BY <1>5, <1>9 DEF Fetch, At, Op
  <2>2. CASE worker' = [worker EXCEPT ![w] = Idle]
    BY <1>3, <2>1, <2>2 DEF Ends
  <2>3. CASE worker' = [worker EXCEPT ![w] = [@ EXCEPT !.at = "opening", !.ks = app.ks]]
    <3>1. /\ worker'[w] = [worker[w] EXCEPT !.at = "opening", !.ks = app.ks]
          /\ worker[w] \in TaskRecords
      BY <1>0, <2>3 DEF WorkerOK
    <3>2. /\ worker'[w].op = "poll" /\ worker'[w].at = "opening" /\ worker'[w].ks = app.ks
          /\ worker'[w].account = worker[w].account
      BY <2>1, <3>1 DEF TaskRecords, Op
    <3>3. Owner(app.ks) = User(w)
      <4>1. screen = worker[w].frame /\ screen \in 1 .. Len(frames)
            /\ frames[screen].user = User(w)
        BY <1>0, <2>1 DEF Task, WorkerOK, Frame
      <4>2. Len(frames) \in Nat
        BY LenProperties DEF Typed, MemoryOK
      <4> QED
        BY <4>1, <4>2 DEF SerialState, WindowsAgree
    <3>4. Task(w)'
      BY <1>1, <3>2, <3>3 DEF Task, At, Op, User, Owner
    <3> QED
      BY <1>2, <2>1, <2>3, <3>4
  <2> QED
    BY <1>9, <2>2, <2>3 DEF Fetch
<1>10. CASE ChangeAtServer(w)
  <2>1. Op(w) = "change" /\ At(w, "change", "posting") /\ User(w) \in Accounts
        /\ UNCHANGED published
    BY <1>0, <1>10 DEF ChangeAtServer, At, Op, Task
  <2>2. CASE Ends(w) /\ UNCHANGED server
    BY <1>3, <1>5, <2>1, <2>2 DEF remote
  <2>3. CASE /\ TokenValid(w) /\ server' = [server EXCEPT ![User(w)] = @ + 1]
             /\ Goto(w, "rewrapping")
    <3>1. server[User(w)] = worker[w].pwd
      BY <2>1, <2>3, ValidToken
    <3>2. DiskAgrees' /\ server'[User(w)] = worker[w].pwd + 1
      BY <1>0, <2>1, <2>3, <3>1, AccountNext
    <3>3. Task(w)'
      BY <1>0, <1>1, <2>1, <2>3, <3>2, GotoFields DEF Task, At, Op, User, Points, Owner
    <3> QED
      BY <1>4, <2>1, <2>3, <3>2, <3>3 DEF Points
  <2> QED
    BY <1>10, <2>1, <2>2, <2>3 DEF ChangeAtServer
<1>11. CASE RequestFails(w) /\ Op(w) # "none"
  BY <1>3, <1>5, <1>11 DEF RequestFails
<1>12. CASE AnswerLost(w)
  <2>1. Op(w) \in {"register", "change"} /\ User(w) \in Accounts /\ UNCHANGED published
    BY <1>0, <1>12 DEF AnswerLost, At, Op, WorkerOK, Task
  <2>2. DiskAgrees'
    BY <1>0, <1>12, <2>1, AccountNext DEF AnswerLost
  <2> QED
    BY <1>3, <1>12, <2>1, <2>2 DEF AnswerLost
<1> QED
  BY <1>6, <1>7, <1>8, <1>9, <1>10, <1>11, <1>12

LEMMA FilesSerial ==
  ASSUME Typed, SerialState, NEW w \in Workers,
         ClearKeystore(w) \/ OpenMessages(w) \/ SaveCache(w) \/ LoadWrapped(w) \/ Recache(w)
  PROVE  SerialState'
<1>0. /\ UNCHANGED <<overlap, remote, memory, faults>> /\ WorkerOK(w) /\ Task(w) /\ Alone
      /\ worker = [v \in Workers |-> worker[v]] /\ DiskAgrees /\ DiskOK
      /\ worker[w] \in TaskRecords
  BY DEF ClearKeystore, OpenMessages, SaveCache, LoadWrapped, Recache, Typed, WorkersOK,
         WorkerOK, SerialState
<1>1. /\ WindowsAgree'
      /\ UNCHANGED <<server, published, keystores, frames, app, screen>>
  BY <1>0, SameWindows DEF SerialState, Owner, memory, remote
<1>2. ASSUME NEW t, worker' = [worker EXCEPT ![w] = t], Op(w) # "none", Task(w)', DiskAgrees'
      PROVE  SerialState'
  BY <1>0, <1>1, <1>2, BusyThread, OneTask DEF SerialState
<1>3. ASSUME Ends(w), Op(w) # "none", DiskAgrees'
      PROVE  SerialState'
  BY <1>2, <1>3, EndsIdle DEF Ends
<1>4. ASSUME NEW point \in Points, Goto(w, point), Op(w) # "none", Task(w)', DiskAgrees'
      PROVE  SerialState'
  BY <1>2, <1>4 DEF Goto
<1>5. ASSUME UNCHANGED disk PROVE DiskAgrees'
  BY <1>0, <1>5 DEF DiskAgrees, disk, remote
\* A thread that goes on with a copy of a file.
<1>6. ASSUME NEW point \in Points, NEW copy \in Files,
             worker' = [worker EXCEPT ![w].at = point, ![w].copy = copy]
      PROVE  /\ worker'[w].at = point /\ worker'[w].copy = copy
             /\ worker'[w].op = worker[w].op /\ worker'[w].pwd = worker[w].pwd
             /\ worker'[w].account = worker[w].account /\ worker'[w].ks = worker[w].ks
             /\ \E t : worker' = [worker EXCEPT ![w] = t]
  <2>1. worker'[w] = [worker[w] EXCEPT !.at = point, !.copy = copy]
    BY <1>0, <1>6
  <2> QED
    BY <1>0, <1>6, <2>1 DEF TaskRecords
<1>7. CASE ClearKeystore(w)
  <2>1. /\ Op(w) = "register" /\ At(w, "register", "clearing") /\ UNCHANGED cacheFile
        /\ file' = [file EXCEPT ![User(w)] = NoFile] /\ Goto(w, "making")
        /\ User(w) \in Accounts
    BY <1>0, <1>7 DEF ClearKeystore, At, Op, WorkerOK
  <2>2. file[User(w)] = NoFile /\ server[User(w)] # 0
    BY <1>0, <2>1 DEF Task
  <2>3. DiskAgrees' /\ file'[User(w)] = NoFile
    BY <1>0, <1>1, <2>1, <2>2 DEF DiskAgrees, DiskOK
  <2>4. Task(w)'
    BY <1>0, <1>1, <2>1, <2>2, <2>3, GotoFields DEF Task, At, Op, User, Points, Owner
  <2> QED
    BY <1>4, <2>1, <2>3, <2>4 DEF Points
<1>8. CASE OpenMessages(w)
  <2>1. Op(w) = "poll" /\ At(w, "poll", "opening") /\ UNCHANGED disk /\ User(w) \in Accounts
    BY <1>0, <1>8 DEF OpenMessages, At, Op, WorkerOK
  <2>2. CASE Ends(w)
    BY <1>3, <1>5, <2>1, <2>2
  <2>3. CASE worker' = [worker EXCEPT ![w].at = "saving", ![w].copy = file[User(w)]]
    <3>1. file[User(w)] \in Files /\ file' = file
      BY <1>0, <2>1 DEF DiskOK, disk
    <3>2. Task(w)'
      BY <1>0, <1>1, <1>6, <2>1, <2>3, <3>1 DEF Task, At, Op, User, Points, Owner
    <3> QED
      BY <1>2, <1>5, <1>6, <2>1, <2>3, <3>1, <3>2 DEF Points
  <2> QED
    BY <1>8, <2>2, <2>3 DEF OpenMessages
<1>9. CASE SaveCache(w)
  <2>1. Op(w) = "poll" /\ At(w, "poll", "caching") /\ UNCHANGED file /\ Ends(w)
    BY <1>9 DEF SaveCache, At, Op
  <2>2. Owner(worker[w].ks) = User(w) /\ User(w) \in Accounts
    BY <1>0, <2>1 DEF Task, At, WorkerOK
  <2>3. Frame(w).cache \subseteq {User(w)}
    BY <1>0, <2>1 DEF WorkerOK, Frame, SerialState, WindowsAgree
  <2>4. DiskAgrees'
    BY <1>0, <1>1, <1>9, <2>1, <2>2, <2>3 DEF SaveCache, DiskAgrees, DiskOK
  <2> QED
    BY <1>3, <2>1, <2>4
<1>10. CASE LoadWrapped(w)
  <2>1. Op(w) = "change" /\ At(w, "change", "rewrapping") /\ UNCHANGED disk
    BY <1>10 DEF LoadWrapped, At, Op
  <2>2. Owner(worker[w].ks) = User(w) /\ User(w) \in Accounts
    BY <1>0, <2>1 DEF Task
  <2>3. CASE Ends(w)
    BY <1>3, <1>5, <2>1, <2>3
  <2>4. CASE /\ worker' = [worker EXCEPT ![w].at = "rewriting",
                                         ![w].copy = file[Owner(worker[w].ks)]]
             /\ file[Owner(worker[w].ks)].pwd = worker[w].pwd
    <3>1. file[User(w)] \in Files /\ file' = file
      BY <1>0, <2>1, <2>2 DEF DiskOK, disk
    <3>2. worker[w].pwd # 0
      <4>1. Frame(w).token = worker[w].pwd /\ worker[w].frame \in 1 .. Len(frames)
        BY <1>0, <2>1 DEF WorkerOK
      <4> QED
        BY <4>1 DEF Frame, SerialState, WindowsAgree
    <3>3. file[User(w)] # NoFile
      BY <2>2, <2>4, <3>2 DEF NoFile
    <3>4. Task(w)'
      <4>1. /\ worker'[w].at = "rewriting" /\ worker'[w].copy = file[User(w)]
            /\ worker'[w].op = "change" /\ worker'[w].pwd = worker[w].pwd
            /\ worker'[w].account = User(w) /\ worker'[w].ks = worker[w].ks
        BY <1>6, <2>1, <2>2, <2>4, <3>1 DEF Points, Op, User
      <4>2. worker[w].pwd + 1 = server[User(w)]
        BY <1>0, <2>1 DEF Task
      <4>3. keystores'[worker'[w].ks].account = User(w)
        BY <1>1, <2>2, <4>1 DEF Owner
      <4> QED
        BY <1>1, <2>2, <3>1, <3>3, <4>1, <4>2, <4>3 DEF Task, At, Op, User, Owner
    <3> QED
      BY <1>2, <1>5, <1>6, <2>1, <2>2, <2>4, <3>1, <3>4 DEF Points
  <2> QED
    BY <1>10, <2>3, <2>4 DEF LoadWrapped
<1>11. CASE Recache(w)
  <2>1. /\ Op(w) = "change" /\ At(w, "change", "recaching") /\ UNCHANGED file
        /\ Goto(w, "closing")
    BY <1>11 DEF Recache, At, Op
  <2>2. \A a \in Accounts : cacheFile'[a].of = cacheFile[a].of
    <3>1. Owner(worker[w].ks) \in Accounts
      BY <2>1, OwnKeystore
    <3> QED
      BY <1>0, <1>11, <3>1 DEF Recache, DiskOK
  <2>3. DiskAgrees'
    BY <1>0, <1>1, <2>1, <2>2 DEF DiskAgrees
  <2>4. Task(w)'
    BY <1>0, <1>1, <2>1, GotoFields DEF Task, At, Op, User, Points, Owner
  <2> QED
    BY <1>4, <2>1, <2>3, <2>4 DEF Points
<1> QED
  BY <1>7, <1>8, <1>9, <1>10, <1>11

LEMMA UnlockSerial ==
  ASSUME Typed, SerialState, NEW w \in Workers, MakeKeystore(w) \/ Unlock(w)
  PROVE  SerialState'
<1>0. /\ UNCHANGED <<overlap, remote, cacheFile, frames, screen, faults>>
      /\ WorkerOK(w) /\ Task(w) /\ Alone /\ DiskAgrees /\ DiskOK /\ worker[w] \in TaskRecords
      /\ worker = [v \in Workers |-> worker[v]]
      /\ Op(w) \in {"register", "login"} /\ User(w) \in Accounts
  BY DEF MakeKeystore, Unlock, Typed, WorkersOK, WorkerOK, At, Op, SerialState
<1>1. /\ worker[w].ks \in 1 .. Len(keystores) /\ worker[w].ks # 0
      /\ worker[w].pwd \in 1 .. server[User(w)] /\ screen = 0
  <2>1. worker[w].ks \in 1 .. Len(keystores) /\ worker[w].ks # 0
    BY <1>0, OwnKeystore
  <2>2. /\ worker[w].pwd \in Nat \ {0} /\ server[User(w)] \in Nat
        /\ worker[w].pwd <= server[User(w)]
    BY <1>0, Bounds DEF MakeKeystore, Unlock, Task, At, Op, WorkerOK, TaskRecords, DiskOK
  <2> QED
    BY <1>0, <2>1, <2>2 DEF Task
<1>2. DiskAgrees'
  <2>1. CASE Create(w) /\ file[User(w)] = NoFile
    <3>1. published[User(w)] = 0
      BY <1>0, <2>1 DEF DiskAgrees, NoFile
    <3> QED
      BY <1>0, <1>1, <2>1, <3>1 DEF Create, DiskAgrees, DiskOK, remote
  <2>2. CASE UNCHANGED file
    BY <1>0, <2>2 DEF DiskAgrees, remote
  <2> QED
    BY <2>1, <2>2 DEF MakeKeystore, Unlock
<1>3. \A k \in 1 .. Len(keystores) : Owner(k)' = Owner(k)
  <2>1. CASE UNCHANGED keystores
    BY <2>1 DEF Owner
  <2>2. CASE Create(w)
    <3>1. Kek(worker[w].pwd, worker[w].ks) \in Keks
      BY <1>0, <2>2, CreatedOK
    <3> QED
      BY <1>1, <2>2, <3>1, OwnersKept DEF Create
  <2>3. CASE keystores' = [keystores EXCEPT ![worker[w].ks].kek =
                             Kek(worker[w].pwd, file[User(w)].identity)]
    <3>1. Kek(worker[w].pwd, file[User(w)].identity) \in Keks
      BY <1>0 DEF DiskOK, Files, Kek, Keks, TaskRecords
    <3> QED
      BY <1>1, <2>3, <3>1, OwnersKept
  <2> QED
    BY <2>1, <2>2, <2>3 DEF MakeKeystore, Unlock
<1>4. WindowsAgree'
  BY <1>0, <1>1, <1>3, SameWindows DEF SerialState
<1>5. CASE Ends(w)
  BY <1>0, <1>2, <1>4, <1>5, EndsIdle, OneTask, BusyThread DEF SerialState, Ends
<1>6. CASE Goto(w, "publishing") /\ Op(w) = "login"
  <2>1. Owner(worker[w].ks)' = User(w)
    <3>1. Owner(worker[w].ks) = User(w) /\ worker'[w].ks = worker[w].ks
      BY <1>0, <1>6, GotoFields DEF Task, Points
    <3> QED
      BY <1>1, <1>3, <3>1 DEF Owner
  <2>2. Task(w)'
    BY <1>0, <1>1, <1>6, <2>1, GotoFields DEF Task, At, Op, User, Points
  <2> QED
    BY <1>0, <1>2, <1>4, <1>6, <2>2, OneTask, BusyThread DEF SerialState, Goto
<1> QED
  BY <1>5, <1>6 DEF MakeKeystore, Unlock, At, Op

LEMMA EnterSerial ==
  ASSUME Typed, SerialState, NEW w \in Workers, Enter(w) \/ CloseDialog(w)
  PROVE  SerialState'
<1>0. /\ UNCHANGED <<overlap, remote, disk, keystores, frames, faults>>
      /\ WorkerOK(w) /\ Task(w) /\ Alone /\ WindowsAgree
  BY DEF Enter, CloseDialog, Typed, WorkersOK, SerialState
<1>1. DiskAgrees'
  BY <1>0 DEF SerialState, DiskAgrees, remote, disk
<1>2. CASE Enter(w)
  <2>1. /\ Op(w) = "login" /\ screen' = 0 /\ Goto(w, "showing") /\ worker[w].pwd # 0
        /\ app' = [user |-> User(w), token |-> worker[w].pwd, ks |-> worker[w].ks]
        /\ Owner(worker[w].ks) = User(w)
    BY <1>0, <1>2 DEF Enter, Task, At, Op, WorkerOK
  <2>2. WindowsAgree'
    BY <1>0, <2>1 DEF WindowsAgree, Owner
  <2>3. Task(w)'
    BY <1>0, <2>1, GotoFields DEF Task, At, Op, User, Points, Owner
  <2> QED
    BY <1>0, <1>1, <2>1, <2>2, <2>3, OneTask, BusyThread DEF SerialState, Goto
<1>3. CASE CloseDialog(w)
  <2>1. Op(w) = "change" /\ screen' = 0 /\ Ends(w)
    BY <1>3 DEF CloseDialog, Leave, At, Op
  <2>2. WindowsAgree'
    BY <1>0, <2>1 DEF WindowsAgree, Owner
  <2> QED
    BY <1>0, <1>1, <2>1, <2>2, EndsIdle, OneTask, BusyThread DEF SerialState, Ends
<1> QED
  BY <1>2, <1>3

LEMMA ShowSerial ==
  ASSUME Typed, SerialState, NEW w \in Workers, ShowMain(w)
  PROVE  SerialState'
<1>0. /\ UNCHANGED <<overlap, remote, disk, keystores, app, faults>>
      /\ Op(w) = "login" /\ At(w, "login", "showing") /\ Task(w) /\ WorkerOK(w) /\ Alone
      /\ Len(frames) \in Nat /\ frames \in Seq(Windows) /\ Ends(w)
      /\ screen' = Len(frames) + 1 /\ User(w) \in Accounts
  BY LenProperties DEF ShowMain, At, Op, Typed, MemoryOK, WorkersOK, WorkerOK, SerialState
<1>1. app.user = User(w) /\ app.token # 0 /\ Owner(app.ks) = User(w)
  BY <1>0 DEF Task
<1> DEFINE new == [user |-> app.user, token |-> app.token, ks |-> app.ks,
                   cache |-> LoadCache(app.ks)]
<1>2. new.cache \subseteq {User(w)}
  BY <1>0, <1>1 DEF LoadCache, SerialState, DiskAgrees
<1>3. new \in Windows
  <2>1. app.ks \in Nat \ {0} /\ app.token \in Passwords
    BY <1>0, Bounds DEF WorkerOK, Typed, MemoryOK
  <2> QED
    BY <1>0, <1>1, <1>2, <2>1 DEF Windows
<1>4. /\ new.user = User(w) /\ new.token # 0 /\ new.ks = app.ks
      /\ frames' = Append(frames, new)
  BY <1>1 DEF ShowMain
<1> HIDE DEF new
<1>5. /\ Len(frames') = Len(frames) + 1 /\ frames'[Len(frames) + 1] = new
      /\ \A f \in 1 .. Len(frames) : frames'[f] = frames[f]
  BY <1>0, <1>3, <1>4, AppendProperties
<1>6. WindowsAgree'
  <2>1. ASSUME NEW f \in 1 .. Len(frames')
        PROVE  /\ frames'[f].user \in Accounts /\ frames'[f].token # 0
               /\ Owner(frames'[f].ks) = frames'[f].user
               /\ frames'[f].cache \subseteq {frames'[f].user}
    <3>1. CASE f = Len(frames) + 1
      BY <1>0, <1>1, <1>2, <1>4, <1>5, <3>1
    <3>2. CASE f \in 1 .. Len(frames)
      BY <1>5, <3>2 DEF SerialState, WindowsAgree
    <3> QED
      BY <1>0, <1>5, <3>1, <3>2
  <2>2. app'.ks = frames'[screen'].ks
    BY <1>0, <1>4, <1>5
  <2> QED
    BY <1>0, <2>1, <2>2 DEF WindowsAgree, Owner
<1>7. DiskAgrees'
  BY <1>0 DEF SerialState, DiskAgrees, remote, disk
<1> QED
  BY <1>0, <1>6, <1>7, EndsIdle, OneTask, BusyThread DEF SerialState, Ends

LEMMA SaveSerial ==
  ASSUME Typed, SerialState, NEW w \in Workers, SaveCounter(w)
  PROVE  SerialState'
<1>0. /\ UNCHANGED <<overlap, remote, cacheFile, keystores, app, screen, faults>>
      /\ Op(w) = "poll" /\ At(w, "poll", "saving") /\ Task(w) /\ WorkerOK(w) /\ Alone
      /\ worker[w].frame \in 1 .. Len(frames) /\ User(w) \in Accounts
      /\ frames[worker[w].frame].user = User(w) /\ worker[w] \in TaskRecords
      /\ worker = [v \in Workers |-> worker[v]] /\ file \in [Accounts -> Files]
      /\ frames \in Seq(Windows)
  BY DEF SaveCounter, At, Op, Typed, MemoryOK, DiskOK, WorkersOK, WorkerOK, SerialState, Frame
<1>1. UNCHANGED file
  BY <1>0 DEF SaveCounter, Task
<1>2. DiskAgrees'
  BY <1>0, <1>1 DEF SerialState, DiskAgrees, remote
<1> DEFINE i   == worker[w].frame
           new == [frames[i] EXCEPT !.cache = @ \cup {User(w)}]
<1>3. frames[i] \in Windows /\ frames[i].cache \subseteq {User(w)}
  BY <1>0, WindowOK DEF SerialState, WindowsAgree
<1>4. /\ new \in Windows /\ new.ks = frames[i].ks /\ new.user = User(w)
      /\ new.token = frames[i].token /\ new.cache \subseteq {User(w)}
  BY <1>0, <1>3 DEF Windows
<1>5. frames' = [frames EXCEPT ![i] = new]
  BY DEF SaveCounter
<1> HIDE DEF new
<1>6. /\ Len(frames') = Len(frames)
      /\ \A j \in 1 .. Len(frames) : frames'[j] = IF j = i THEN new ELSE frames[j]
  BY <1>0, <1>4, <1>5, ExceptSeq
<1>7. WindowsAgree'
  <2>1. ASSUME NEW f \in 1 .. Len(frames)
        PROVE  /\ frames'[f].user \in Accounts /\ frames'[f].token # 0
               /\ keystores[frames'[f].ks].account = frames'[f].user
               /\ frames'[f].cache \subseteq {frames'[f].user}
    BY <1>0, <1>4, <1>6 DEF SerialState, WindowsAgree, Owner
  <2>2. screen # 0 => app.ks = frames'[screen].ks
    <3>1. screen # 0 => screen \in 1 .. Len(frames)
      BY LenProperties DEF Typed, MemoryOK
    <3> QED
      BY <1>4, <1>6, <3>1 DEF SerialState, WindowsAgree
  <2> QED
    BY <1>0, <1>6, <2>1, <2>2 DEF WindowsAgree, Owner
<1>8. worker'[w] = [worker[w] EXCEPT !.at = "caching", !.copy = NoFile]
  BY <1>0 DEF SaveCounter
<1>9. /\ worker'[w].op = "poll" /\ worker'[w].at = "caching"
      /\ worker'[w].account = User(w) /\ worker'[w].ks = worker[w].ks
  BY <1>0, <1>8 DEF TaskRecords, Op, User
<1>10. Task(w)'
  BY <1>0, <1>9 DEF Task, At, Op, User, Owner
<1> QED
  BY <1>0, <1>2, <1>7, <1>10, OneTask, BusyThread DEF SerialState, SaveCounter

LEMMA RewrapSerial ==
  ASSUME Typed, SerialState, NEW w \in Workers, Rewrap(w)
  PROVE  SerialState'
<1>0. /\ UNCHANGED <<overlap, remote, cacheFile, frames, app, screen, faults>>
      /\ Op(w) = "change" /\ At(w, "change", "rewriting") /\ Task(w) /\ WorkerOK(w) /\ Alone
      /\ worker[w] \in TaskRecords /\ worker = [v \in Workers |-> worker[v]]
      /\ file \in [Accounts -> Files] /\ server \in [Accounts -> Nat] /\ DiskAgrees
  BY Bounds DEF Rewrap, At, Op, Typed, DiskOK, WorkersOK, WorkerOK, SerialState
<1>1. /\ worker[w].ks \in 1 .. Len(keystores) /\ Owner(worker[w].ks) = User(w)
      /\ User(w) \in Accounts /\ worker[w].copy = file[User(w)]
      /\ file[User(w)] # NoFile /\ worker[w].pwd + 1 = server[User(w)]
      /\ worker[w].copy \in Files /\ worker[w].pwd \in Nat
      /\ worker[w].pwd + 1 \in Passwords /\ worker[w].pwd \in Passwords
  BY <1>0, OwnKeystore, Bounds DEF Task, TaskRecords, WorkerOK, Passwords
<1>2. /\ Rewrapped(w) \in Files /\ Rewrapped(w).pwd = worker[w].pwd + 1
      /\ Rewrapped(w).identity = file[User(w)].identity
      /\ file' = [file EXCEPT ![User(w)] = Rewrapped(w)]
  BY <1>1 DEF Rewrapped, Files, Rewrap
<1>3. DiskAgrees'
  <2>1. Rewrapped(w).pwd \in 1 .. server[User(w)]
    BY <1>0, <1>1, <1>2
  <2> QED
    BY <1>0, <1>1, <1>2, <2>1 DEF DiskAgrees, remote
<1>4. \A k \in 1 .. Len(keystores) : Owner(k)' = Owner(k)
  <2>1. Kek(Rewrapped(w).pwd, Rewrapped(w).identity) \in Keks
    BY <1>2 DEF Files, Kek, Keks
  <2> QED
    BY <1>1, <2>1, OwnersKept DEF Rewrap
<1>5. WindowsAgree'
  BY <1>0, <1>4, SameWindows DEF SerialState
<1> DEFINE kek == Kek(worker[w].pwd, worker[w].copy.identity)
<1>6. worker'[w] = [worker[w] EXCEPT !.at = "recaching", !.kek = kek]
  BY <1>0 DEF Rewrap
<1> HIDE DEF kek
<1>7. /\ worker'[w].op = "change" /\ worker'[w].at = "recaching"
      /\ worker'[w].account = User(w) /\ worker'[w].ks = worker[w].ks
  BY <1>0, <1>6 DEF TaskRecords, Op, User
<1>8. keystores'[worker'[w].ks].account = User(w)
  BY <1>1, <1>4, <1>7 DEF Owner
<1>9. Task(w)'
  BY <1>1, <1>7, <1>8 DEF Task, At, Op, User, Owner
<1> QED
  BY <1>0, <1>3, <1>5, <1>9, OneTask, BusyThread DEF SerialState, Rewrap

LEMMA SerialNext ==
  ASSUME Typed, [Next]_vars, ~overlap, SerialState
  PROVE  SerialState'
<1>1. ASSUME NEW w \in Workers, NEW a \in Accounts, NEW p \in 1 .. MaxPasswords,
             StartRegister(w, a) \/ StartLogin(w, a, p)
      PROVE  SerialState'
  <2>1. p \in Passwords \ {0} /\ 1 \in Passwords \ {0}
    BY Bounds DEF Passwords
  <2>2. AtRest
    BY <1>1 DEF StartRegister, StartLogin, StartSigning, MayStart
  <2>3. CASE StartRegister(w, a)
    BY <2>1, <2>2, <2>3, SignsSerial DEF StartRegister
  <2>4. CASE StartLogin(w, a, p)
    BY <2>1, <2>2, <2>4, SignsSerial DEF StartLogin
  <2> QED
    BY <1>1, <2>3, <2>4
<1>2. ASSUME NEW w \in Workers, StartPoll(w) \/ StartChange(w)
      PROVE  SerialState'
  BY <1>2, StartsSerial DEF StartPoll, StartChange, StartInWindow, MayStart
<1>3. ASSUME NEW w \in Workers,
             Register(w) \/ LogIn(w) \/ Publish(w) \/ Fetch(w) \/ ChangeAtServer(w)
               \/ RequestFails(w) \/ AnswerLost(w)
      PROVE  SerialState'
  <2>1. CASE RequestFails(w) /\ Op(w) = "none"
    <3>1. DiskAgrees' /\ WindowsAgree'
      BY <2>1, SameWindows DEF RequestFails, SerialState, DiskAgrees, Owner, remote, disk, memory
    <3>2. worker[w] # Idle
      BY <2>1 DEF RequestFails, Idle
    <3> QED
      BY <2>1, <3>1, <3>2, EndsIdle, OneTask DEF RequestFails, SerialState, Ends
  <2> QED
    BY <1>3, <2>1, RequestsSerial
<1>4. ASSUME NEW w \in Workers,
             ClearKeystore(w) \/ OpenMessages(w) \/ SaveCache(w) \/ LoadWrapped(w) \/ Recache(w)
      PROVE  SerialState'
  BY <1>4, FilesSerial
<1>5. ASSUME NEW w \in Workers,
             MakeKeystore(w) \/ Unlock(w) \/ Enter(w) \/ CloseDialog(w) \/ ShowMain(w)
               \/ SaveCounter(w) \/ Rewrap(w)
      PROVE  SerialState'
  BY <1>5, UnlockSerial, EnterSerial, ShowSerial, SaveSerial, RewrapSerial
<1>6. CASE LogOut
  <2>1. /\ AtRest /\ screen' = 0
        /\ UNCHANGED <<overlap, remote, disk, keystores, frames, worker, faults>>
    BY <1>6 DEF LogOut, Leave
  <2>2. DiskAgrees' /\ WindowsAgree'
    BY <2>1 DEF SerialState, DiskAgrees, WindowsAgree, Owner, remote, disk
  <2>3. \A v \in Workers : worker'[v] = Idle
    BY <2>1 DEF AtRest
  <2>4. Alone' /\ \A v \in Workers : Task(v)'
    BY <2>3 DEF Alone, Task, Op, At, Idle
  <2> QED
    BY <2>2, <2>4 DEF SerialState
<1>7. CASE Crash
  <2>1. /\ screen' = 0 /\ frames' = << >> /\ UNCHANGED <<overlap, remote, disk, keystores>>
        /\ \A v \in Workers : worker'[v] = Idle
    BY <1>7 DEF Crash
  <2>2. DiskAgrees' /\ WindowsAgree'
    BY <2>1 DEF SerialState, DiskAgrees, WindowsAgree, remote, disk
  <2>3. Alone' /\ \A v \in Workers : Task(v)'
    BY <2>1 DEF Alone, Task, Op, At, Idle
  <2> QED
    BY <2>2, <2>3 DEF SerialState
<1>8. CASE UNCHANGED vars
  BY <1>8 DEF vars, SerialState, Alone, DiskAgrees, WindowsAgree, Task, Op, User, Owner, At,
              memory, remote, disk
<1> QED
  BY <1>1, <1>2, <1>3, <1>4, <1>5, <1>6, <1>7, <1>8, Bounds DEF Next, WorkerStep

LEMMA SerialInit == Init => SerialState
<1> SUFFICES ASSUME Init PROVE SerialState
  OBVIOUS
<1>1. DiskAgrees
  <2>1. PICK known \in SUBSET Accounts :
          /\ server = [a \in Accounts |-> IF a \in known THEN 1 ELSE 0]
          /\ published = [a \in Accounts |-> IF a \in known THEN Earlier ELSE 0]
          /\ file = [a \in Accounts |-> FileOf(a \in known)]
    BY DEF Init
  <2> SUFFICES ASSUME NEW a \in Accounts
               PROVE  /\ file[a] # NoFile => file[a].pwd \in 1 .. server[a] /\ file[a].identity # 0
                      /\ published[a] # 0 => file[a].identity = published[a]
                      /\ cacheFile[a].of \subseteq {a}
    BY DEF DiskAgrees
  <2>2. cacheFile[a].of = {}
    BY DEF Init, NoCache
  <2>3. CASE a \in known
    <3>1. server[a] = 1 /\ published[a] = Earlier /\ file[a] = [pwd |-> 1, identity |-> Earlier]
      BY <2>1, <2>3 DEF FileOf
    <3> QED
      BY <2>2, <3>1, Bounds
  <2>4. CASE a \notin known
    <3>1. published[a] = 0 /\ file[a] = NoFile
      BY <2>1, <2>4 DEF FileOf
    <3> QED
      BY <2>2, <3>1
  <2> QED
    BY <2>3, <2>4
<1>2. WindowsAgree
  BY EmptySeq DEF Init, WindowsAgree
<1>3. \A w \in Workers : worker[w] = Idle
  BY DEF Init
<1> QED
  BY <1>1, <1>2, <1>3, IdleTask DEF SerialState, Alone

LEMMA OverlapStays == [Next]_vars => UNCHANGED overlap
BY DEF Next, WorkerStep, vars, StartRegister, StartLogin, StartSigning, StartPoll, StartChange,
       Register, ClearKeystore, MakeKeystore, LogIn, Unlock, Publish, Enter, ShowMain, Fetch,
       OpenMessages, SaveCounter, SaveCache, ChangeAtServer, LoadWrapped, Rewrap, Recache,
       CloseDialog, LogOut, RequestFails, AnswerLost, Crash

\* The inductive invariant of threads that do not overlap.
SerialOK == Typed /\ (~overlap => SerialState)

LEMMA SerialAlways == Spec => []SerialOK
<1>1. Init => SerialOK
  BY TypedInit, SerialInit DEF SerialOK
<1>2. SerialOK /\ [Next]_vars => SerialOK'
  BY TypedNext, SerialNext, OverlapStays DEF SerialOK
<1> QED
  BY <1>1, <1>2, PTL DEF Spec

\* The private keys behind published keys are never lost by threads one at a time,
\* whatever fails: file and server agree on the identity, and the password of the file
\* is one the account has had.
THEOREM KeysKept == Spec => []SerialKeysKept
<1>1. SerialOK => SerialKeysKept
  BY DEF SerialOK, SerialState, DiskAgrees, SerialKeysKept, NoFile
<1> QED
  BY <1>1, SerialAlways, PTL

\* Users who follow each other on one machine leave the messages of each in a file of
\* its own.
THEOREM CachesApart == Spec => []SerialCachesApart
<1>1. SerialOK => SerialCachesApart
  BY DEF SerialOK, SerialState, DiskAgrees, SerialCachesApart
<1> QED
  BY <1>1, SerialAlways, PTL

----------------------------------------------------------------------------
(* Threads that do not overlap, and no faults.                             *)

FileKek(a) == Kek(file[a].pwd, file[a].identity)

\* Keystore object k was unlocked with what the file of its account holds.
Opens(k) == file[Owner(k)] # NoFile /\ keystores[k].kek = FileKek(Owner(k))

\* Thread w is between the server's step and the keystore's step of a password change,
\* or between the keystore's and the cache's.
Between(w, a) ==
  User(w) = a /\ (At(w, "change", "rewrapping") \/ At(w, "change", "rewriting"))
Recoding(w, a) ==
  User(w) = a /\ At(w, "change", "recaching") /\ cacheFile[a].kek = worker[w].kek

FileOpens(a)  == file[a] = NoFile \/ file[a].pwd = server[a]
CacheOpens(a) == cacheFile[a].of = {} \/ (file[a] # NoFile /\ cacheFile[a].kek = FileKek(a))

\* The thread has an unlocked keystore.
Holds(w) ==
  \/ Op(w) = "change"
  \/ Op(w) = "poll" /\ worker[w].at # "posting"
  \/ Op(w) = "login" /\ worker[w].at \in {"publishing", "entering", "showing"}

CleanTask(w) ==
  /\ At(w, "register", "clearing") \/ At(w, "register", "making") \/ At(w, "login", "unlocking")
       => worker[w].pwd = server[User(w)]
  /\ At(w, "change", "rewrapping") \/ At(w, "change", "rewriting")
       => file[User(w)].pwd = worker[w].pwd
  /\ Op(w) = "change" => worker[w].ks = app.ks
  /\ Holds(w) => Opens(worker[w].ks)

CleanState ==
  /\ \A a \in Accounts : FileOpens(a) \/ \E w \in Workers : Between(w, a)
  /\ \A a \in Accounts : CacheOpens(a) \/ \E w \in Workers : Recoding(w, a)
  /\ screen # 0 => Opens(app.ks)
  /\ \A w \in Workers : CleanTask(w)

\* What holds before a step of thread w, who works alone.
LEMMA CleanBefore ==
  ASSUME Alone, CleanState, NEW w \in Workers, worker[w] # Idle \/ AtRest
  PROVE  /\ \A a \in Accounts : FileOpens(a) \/ Between(w, a)
         /\ \A a \in Accounts : CacheOpens(a) \/ Recoding(w, a)
         /\ CleanTask(w)
<1>1. \A v \in Workers : v # w => worker[v] = Idle
  BY DEF Alone, AtRest
<1>2. \A v \in Workers : v # w => \A a \in Accounts : ~Between(v, a) /\ ~Recoding(v, a)
  BY <1>1 DEF Between, Recoding, At, Idle
<1> QED
  BY <1>2 DEF CleanState

\* What a step of thread w has to show.
LEMMA CleanAfter ==
  ASSUME Typed, Alone, NEW w \in Workers, NEW t, worker' = [worker EXCEPT ![w] = t],
         worker[w] # Idle \/ AtRest, CleanTask(w)',
         \A a \in Accounts : FileOpens(a)' \/ Between(w, a)',
         \A a \in Accounts : CacheOpens(a)' \/ Recoding(w, a)',
         screen' # 0 => Opens(app.ks)'
  PROVE  CleanState'
<1>1. worker = [v \in Workers |-> worker[v]]
  BY DEF Typed, WorkersOK
<1>2. \A v \in Workers : v # w => worker'[v] = Idle
  BY <1>1 DEF Alone, AtRest
<1>3. \A v \in Workers : v # w => CleanTask(v)'
  BY <1>2 DEF CleanTask, Holds, Op, At, Idle
<1> QED
  BY <1>3 DEF CleanState

LEMMA IdleClean ==
  ASSUME NEW w \in Workers, worker[w] = Idle
  PROVE  CleanTask(w)
BY DEF CleanTask, Holds, Op, At, Idle

\* A thread that ends with server, files and keystores as they are, and none of it in
\* between.
LEMMA EndsClean ==
  ASSUME Typed, SerialState, CleanState, NEW w \in Workers, Ends(w), Op(w) # "none",
         \A a \in Accounts : ~Between(w, a) /\ ~Recoding(w, a),
         UNCHANGED <<server, disk, keystores>>, UNCHANGED <<screen, app>> \/ screen' = 0
  PROVE  CleanState'
<1>1. worker[w] # Idle /\ worker'[w] = Idle /\ Alone
  BY BusyThread, EndsIdle DEF SerialState
<1>2. \A a \in Accounts : FileOpens(a)' /\ CacheOpens(a)'
  BY <1>1, CleanBefore DEF FileOpens, CacheOpens, FileKek, disk
<1>3. screen' # 0 => Opens(app.ks)'
  BY DEF CleanState, Opens, FileKek, Owner, disk
<1>4. CleanTask(w)'
  BY <1>1 DEF CleanTask, Holds, Op, At, Idle
<1> QED
  BY <1>1, <1>2, <1>3, <1>4, CleanAfter DEF Ends

LEMMA SignsClean ==
  ASSUME Typed, SerialState, CleanState, NEW w \in Workers, NEW op \in {"register", "login"},
         NEW a \in Accounts, NEW p \in Passwords \ {0}, StartSigning(w, op, a, p), AtRest
  PROVE  CleanState'
<1>0. /\ screen' = 0 /\ UNCHANGED <<server, file, cacheFile>> /\ Alone
      /\ worker[w] = Idle
  BY DEF StartSigning, MayStart, SerialState, disk, remote
<1> DEFINE k == Len(keystores) + 1
<1>1. worker'[w] = [Idle EXCEPT !.at = "posting", !.op = op, !.account = a, !.ks = k,
                                !.pwd = p]
  BY DEF StartSigning, Typed, WorkersOK
<1> HIDE DEF k
<1>2. worker'[w].at = "posting" /\ worker'[w].op = op
  BY <1>1, Nothing DEF TaskRecords
<1>3. CleanTask(w)'
  BY <1>2 DEF CleanTask, Holds, Op, At
<1>4. \A b \in Accounts : ~Between(w, b) /\ ~Recoding(w, b)
  BY <1>0 DEF Between, Recoding, At, Idle
<1>5. \A b \in Accounts : FileOpens(b)' /\ CacheOpens(b)'
  BY <1>0, <1>4, CleanBefore DEF FileOpens, CacheOpens, FileKek
<1> QED
  BY <1>0, <1>3, <1>5, CleanAfter DEF StartSigning

LEMMA StartsClean ==
  ASSUME Typed, SerialState, CleanState, NEW w \in Workers, StartPoll(w) \/ StartChange(w),
         AtRest
  PROVE  CleanState'
<1>0. /\ UNCHANGED <<server, file, cacheFile, keystores, frames, app, screen>> /\ screen # 0
      /\ Alone /\ worker[w] = Idle
  BY DEF StartPoll, StartChange, StartInWindow, MayStart, SerialState, disk, remote, memory
<1>1. ASSUME NEW op \in {"poll", "change"}, NEW ks \in 0 .. MaxKeystores,
             StartInWindow(w, op, ks)
      PROVE  worker'[w].op = op /\ worker'[w].at = "posting" /\ worker'[w].ks = ks
  <2> DEFINE user == frames[screen].user
             token == frames[screen].token
  <2>1. worker'[w] = [Idle EXCEPT !.at = "posting", !.op = op, !.account = user, !.ks = ks,
                                  !.frame = screen, !.pwd = token]
    BY <1>1 DEF StartInWindow, Typed, WorkersOK
  <2> HIDE DEF user, token
  <2> QED
    BY <2>1, Nothing DEF TaskRecords
<1>2. Opens(app.ks)'
  BY <1>0 DEF CleanState, Opens, FileKek, Owner
<1>3. CleanTask(w)'
  <2>1. CASE StartPoll(w)
    BY <1>1, <2>1, Bounds DEF StartPoll, CleanTask, Holds, Op, At
  <2>2. CASE StartChange(w)
    <3>1. app.ks \in 0 .. MaxKeystores
      BY DEF Typed, MemoryOK
    <3>2. worker'[w].op = "change" /\ worker'[w].at = "posting" /\ worker'[w].ks = app'.ks
      BY <1>0, <1>1, <2>2, <3>1 DEF StartChange
    <3> QED
      BY <1>2, <3>2 DEF CleanTask, Holds, Op, At
  <2> QED
    BY <2>1, <2>2
<1>4. \A b \in Accounts : ~Between(w, b) /\ ~Recoding(w, b)
  BY <1>0 DEF Between, Recoding, At, Idle
<1>5. \A b \in Accounts : FileOpens(b)' /\ CacheOpens(b)'
  BY <1>0, <1>4, CleanBefore DEF FileOpens, CacheOpens, FileKek
<1> QED
  BY <1>0, <1>2, <1>3, <1>5, CleanAfter DEF StartPoll, StartChange, StartInWindow

LEMMA RequestsClean ==
  ASSUME Typed, SerialState, CleanState, NEW w \in Workers,
         Register(w) \/ LogIn(w) \/ Publish(w) \/ Fetch(w) \/ ChangeAtServer(w)
  PROVE  CleanState'
<1>0. /\ UNCHANGED <<disk, memory>> /\ WorkerOK(w) /\ Task(w) /\ Alone
      /\ worker = [v \in Workers |-> worker[v]] /\ Op(w) # "none"
      /\ server \in [Accounts -> Nat] /\ DiskAgrees
  BY Bounds DEF Register, LogIn, Publish, Fetch, ChangeAtServer, Typed, WorkersOK, SerialState,
                DiskOK, At, Op
<1>1. /\ UNCHANGED <<file, cacheFile, keystores, frames, app, screen>>
      /\ worker[w] # Idle /\ CleanTask(w)
      /\ \A k \in Nat : Opens(k) => Opens(k)'
  BY <1>0, CleanBefore, BusyThread DEF disk, memory, Opens, FileKek, Owner
<1>2. \A a \in Accounts : ~Between(w, a) /\ ~Recoding(w, a)
  BY DEF Register, LogIn, Publish, Fetch, ChangeAtServer, Between, Recoding, At
<1>3. screen' # 0 => Opens(app.ks)'
  BY <1>1 DEF CleanState, Opens, FileKek, Owner
<1>4. \A a \in Accounts : CacheOpens(a)'
  BY <1>0, <1>1, <1>2, CleanBefore DEF CacheOpens, FileKek
<1>5. ASSUME UNCHANGED server PROVE \A a \in Accounts : FileOpens(a)'
  BY <1>0, <1>1, <1>2, <1>5, CleanBefore DEF FileOpens
<1>6. ASSUME NEW t, worker' = [worker EXCEPT ![w] = t], CleanTask(w)',
             \A a \in Accounts : FileOpens(a)' \/ Between(w, a)'
      PROVE  CleanState'
  BY <1>0, <1>1, <1>3, <1>4, <1>6, CleanAfter
<1>7. ASSUME Ends(w), UNCHANGED server PROVE CleanState'
  BY <1>0, <1>1, <1>2, <1>7, EndsClean
<1>8. CASE Register(w)
  <2>1. Op(w) = "register" /\ User(w) \in Accounts /\ worker[w].pwd = 1
    BY <1>0, <1>8 DEF Register, At, Op, WorkerOK, Task
  <2>2. CASE server[User(w)] = 0 /\ server' = [server EXCEPT ![User(w)] = 1]
             /\ Goto(w, "clearing")
    <3>1. file[User(w)] = NoFile /\ server'[User(w)] = 1
      BY <1>0, <2>1, <2>2 DEF DiskAgrees
    <3>2. \A a \in Accounts : FileOpens(a)'
      BY <1>0, <1>1, <1>2, <2>1, <2>2, <3>1, CleanBefore DEF FileOpens
    <3>3. CleanTask(w)'
      BY <2>1, <2>2, <3>1, GotoFields DEF CleanTask, Holds, Op, At, User, Points
    <3> QED
      BY <1>6, <2>2, <3>2, <3>3 DEF Goto
  <2> QED
    BY <1>7, <1>8, <2>2 DEF Register
<1>9. CASE LogIn(w)
  <2>1. Op(w) = "login" /\ UNCHANGED server
    BY <1>9 DEF LogIn, At, Op, remote
  <2>2. CASE worker[w].pwd = server[User(w)] /\ Goto(w, "unlocking")
    <3>1. CleanTask(w)'
      BY <2>1, <2>2, GotoFields DEF CleanTask, Holds, Op, At, User, Points
    <3> QED
      BY <1>5, <1>6, <2>1, <2>2, <3>1 DEF Goto
  <2> QED
    BY <1>7, <1>9, <2>1, <2>2 DEF LogIn
<1>10. CASE Publish(w)
  <2>1. Op(w) = "login" /\ UNCHANGED server /\ At(w, "login", "publishing")
    BY <1>10 DEF Publish, At, Op
  <2>2. CASE Goto(w, "entering")
    <3>1. Opens(worker[w].ks)' /\ worker'[w].ks = worker[w].ks /\ UNCHANGED <<file, keystores>>
      BY <1>1, <2>1, <2>2, GotoFields DEF CleanTask, Holds, At, Points, Opens, Owner, FileKek
    <3>2. CleanTask(w)'
      BY <2>1, <2>2, <3>1, GotoFields DEF CleanTask, Holds, Op, At, User, Points, Opens, Owner, FileKek
    <3> QED
      BY <1>5, <1>6, <2>1, <2>2, <3>2 DEF Goto
  <2> QED
    BY <1>7, <1>10, <2>1, <2>2 DEF Publish
<1>11. CASE Fetch(w)
  <2>1. Op(w) = "poll" /\ UNCHANGED server /\ At(w, "poll", "posting")
    BY <1>11 DEF Fetch, At, Op, remote
  <2>2. CASE worker' = [worker EXCEPT ![w] = Idle]
    BY <1>7, <2>1, <2>2 DEF Ends
  <2>3. CASE worker' = [worker EXCEPT ![w] = [@ EXCEPT !.at = "opening", !.ks = app.ks]]
    <3>1. /\ worker'[w] = [worker[w] EXCEPT !.at = "opening", !.ks = app.ks]
          /\ worker[w] \in TaskRecords
      BY <1>0, <2>3 DEF WorkerOK
    <3>2. worker'[w].op = "poll" /\ worker'[w].at = "opening" /\ worker'[w].ks = app.ks
      BY <2>1, <3>1 DEF TaskRecords, Op
    <3>3. screen # 0
      <4>1. Len(frames) \in Nat
        BY LenProperties DEF Typed, MemoryOK
      <4> QED
        BY <1>0, <2>1, <4>1 DEF Task, WorkerOK
    <3>4. CleanTask(w)'
      BY <1>1, <1>3, <3>2, <3>3 DEF CleanTask, Holds, Op, At, Opens, Owner, FileKek
    <3> QED
      BY <1>5, <1>6, <2>1, <2>3, <3>4
  <2> QED
    BY <1>11, <2>2, <2>3 DEF Fetch
<1>12. CASE ChangeAtServer(w)
  <2>1. Op(w) = "change" /\ At(w, "change", "posting") /\ User(w) \in Accounts
    BY <1>0, <1>12 DEF ChangeAtServer, At, Op, Task
  <2>2. CASE /\ TokenValid(w) /\ server' = [server EXCEPT ![User(w)] = @ + 1]
             /\ Goto(w, "rewrapping")
    <3>1. server[User(w)] = worker[w].pwd /\ Owner(worker[w].ks) = User(w)
          /\ Opens(worker[w].ks) /\ worker[w].ks = app.ks
      BY <1>0, <1>1, <2>1, <2>2, ValidToken DEF Task, CleanTask, Holds
    <3>2. file[User(w)].pwd = worker[w].pwd
      BY <1>0, <1>1, <1>2, <2>1, <3>1, CleanBefore DEF FileOpens, Opens
    <3>3. \A a \in Accounts : FileOpens(a)' \/ Between(w, a)'
      <4>1. \A a \in Accounts : a = User(w) => Between(w, a)'
        BY <2>1, <2>2, GotoFields DEF Between, At, Op, User, Points
      <4>2. \A a \in Accounts : a # User(w) => FileOpens(a)'
        BY <1>0, <1>1, <1>2, <2>1, <2>2, CleanBefore DEF FileOpens
      <4> QED
        BY <2>1, <4>1, <4>2
    <3>4. worker'[w].ks = worker[w].ks /\ Opens(worker[w].ks)'
      BY <1>1, <2>2, <3>1, GotoFields DEF Points, Opens, Owner, FileKek
    <3>5. CleanTask(w)'
      BY <1>1, <2>1, <2>2, <3>1, <3>2, <3>4, GotoFields
        DEF CleanTask, Holds, Op, At, User, Points, Opens, Owner, FileKek
    <3> QED
      BY <1>6, <2>2, <3>3, <3>5 DEF Goto
  <2> QED
    BY <1>7, <1>12, <2>2 DEF ChangeAtServer
<1> QED
  BY <1>8, <1>9, <1>10, <1>11, <1>12

LEMMA FilesClean ==
  ASSUME Typed, SerialState, CleanState, NEW w \in Workers,
         ClearKeystore(w) \/ OpenMessages(w) \/ SaveCache(w) \/ LoadWrapped(w) \/ Recache(w)
  PROVE  CleanState'
<1>0. /\ UNCHANGED <<server, keystores, frames, app, screen>> /\ WorkerOK(w) /\ Task(w) /\ Alone
      /\ worker = [v \in Workers |-> worker[v]] /\ Op(w) # "none" /\ DiskOK
      /\ worker[w] \in TaskRecords /\ file \in [Accounts -> Files]
  BY DEF ClearKeystore, OpenMessages, SaveCache, LoadWrapped, Recache, Typed, WorkersOK,
         WorkerOK, SerialState, DiskOK, At, Op, memory, remote
<1>1. UNCHANGED file
  <2>1. CASE ClearKeystore(w)
    <3>1. file[User(w)] = NoFile
      BY <1>0, <2>1 DEF ClearKeystore, Task
    <3> QED
      BY <1>0, <2>1, <3>1 DEF ClearKeystore
  <2> QED
    BY <2>1 DEF ClearKeystore, OpenMessages, SaveCache, LoadWrapped, Recache, disk
<1>2. /\ worker[w] # Idle /\ CleanTask(w)
      /\ \A a \in Accounts : FileOpens(a) \/ Between(w, a)
      /\ \A a \in Accounts : CacheOpens(a) \/ Recoding(w, a)
  BY <1>0, CleanBefore, BusyThread
<1>3. screen' # 0 => Opens(app.ks)'
  BY <1>0, <1>1 DEF CleanState, Opens, FileKek, Owner
<1>4. \A a \in Accounts : FileOpens(a) => FileOpens(a)'
  BY <1>0, <1>1 DEF FileOpens
<1>5. UNCHANGED cacheFile => \A a \in Accounts : CacheOpens(a) => CacheOpens(a)'
  BY <1>1 DEF CacheOpens, FileKek
<1>6. ASSUME NEW t, worker' = [worker EXCEPT ![w] = t], CleanTask(w)',
             \A a \in Accounts : FileOpens(a)' \/ Between(w, a)',
             \A a \in Accounts : CacheOpens(a)'
      PROVE  CleanState'
  BY <1>0, <1>2, <1>3, <1>6, CleanAfter
<1>7. ASSUME Ends(w) PROVE CleanTask(w)'
  BY <1>7, EndsIdle, IdleClean DEF CleanTask, Holds, Op, At, Idle
<1>8. CASE ClearKeystore(w)
  <2>1. At(w, "register", "clearing") /\ Goto(w, "making") /\ UNCHANGED cacheFile
    BY <1>8 DEF ClearKeystore
  <2>2. worker[w].pwd = server[User(w)] /\ Op(w) = "register"
    BY <1>2, <2>1 DEF CleanTask, At, Op
  <2>3. CleanTask(w)'
    BY <1>0, <2>2, <2>1, GotoFields DEF CleanTask, Holds, Op, At, User, Points
  <2>4. \A a \in Accounts : ~Between(w, a) /\ ~Recoding(w, a)
    BY <2>1 DEF Between, Recoding, At
  <2> QED
    BY <1>2, <1>4, <1>5, <1>6, <2>1, <2>3, <2>4 DEF Goto
<1>9. CASE OpenMessages(w)
  <2>1. At(w, "poll", "opening") /\ UNCHANGED cacheFile /\ User(w) \in Accounts
    BY <1>0, <1>9 DEF OpenMessages, disk, At, Op, WorkerOK
  <2>2. \A a \in Accounts : ~Between(w, a) /\ ~Recoding(w, a)
    BY <2>1 DEF Between, Recoding, At
  <2>3. CASE worker' = [worker EXCEPT ![w].at = "saving", ![w].copy = file[User(w)]]
    <3>1. worker'[w] = [worker[w] EXCEPT !.at = "saving", !.copy = file[User(w)]]
      BY <1>0, <2>3
    <3>2. worker'[w].op = "poll" /\ worker'[w].at = "saving" /\ worker'[w].ks = worker[w].ks
      BY <1>0, <2>1, <3>1 DEF TaskRecords, At
    <3>3. Opens(worker[w].ks)
      BY <1>2, <2>1 DEF CleanTask, Holds, At, Op
    <3>4. CleanTask(w)'
      BY <1>0, <1>1, <3>2, <3>3 DEF CleanTask, Holds, Op, At, Opens, Owner, FileKek
    <3> QED
      BY <1>2, <1>4, <1>5, <1>6, <2>1, <2>2, <2>3, <3>4
  <2>4. CASE Ends(w)
    BY <1>2, <1>4, <1>5, <1>6, <1>7, <2>1, <2>2, <2>4 DEF Ends
  <2> QED
    BY <1>9, <2>3, <2>4 DEF OpenMessages
<1>10. CASE SaveCache(w)
  <2>1. At(w, "poll", "caching") /\ Ends(w) /\ User(w) \in Accounts
    BY <1>0, <1>10 DEF SaveCache, At, Op, WorkerOK
  <2>2. \A a \in Accounts : ~Between(w, a) /\ ~Recoding(w, a)
    BY <2>1 DEF Between, Recoding, At
  <2>3. Owner(worker[w].ks) = User(w) /\ Opens(worker[w].ks)
    BY <1>0, <1>2, <2>1 DEF Task, CleanTask, Holds, At, Op
  <2>4. \A a \in Accounts : CacheOpens(a)'
    <3>1. cacheFile' = [cacheFile EXCEPT ![User(w)] =
                          [kek |-> keystores[worker[w].ks].kek, of |-> Frame(w).cache]]
      BY <1>10, <2>3 DEF SaveCache
    <3>2. cacheFile'[User(w)].kek = FileKek(User(w)) /\ file[User(w)] # NoFile
      BY <1>0, <2>1, <2>3, <3>1 DEF Opens, DiskOK
    <3>3. \A a \in Accounts : a = User(w) => CacheOpens(a)'
      BY <1>1, <3>2 DEF CacheOpens, FileKek
    <3>4. \A a \in Accounts : a # User(w) => CacheOpens(a)'
      BY <1>0, <1>1, <1>2, <2>2, <3>1 DEF CacheOpens, FileKek, DiskOK
    <3> QED
      BY <3>3, <3>4
  <2> QED
    BY <1>2, <1>4, <1>6, <1>7, <2>1, <2>2, <2>4 DEF Ends
<1>11. CASE LoadWrapped(w)
  <2>1. At(w, "change", "rewrapping") /\ Op(w) = "change" /\ UNCHANGED cacheFile
    BY <1>11 DEF LoadWrapped, At, Op, disk
  <2>2. /\ Owner(worker[w].ks) = User(w) /\ User(w) \in Accounts
        /\ file[User(w)].pwd = worker[w].pwd /\ Opens(worker[w].ks) /\ worker[w].ks = app.ks
    BY <1>0, <1>2, <2>1 DEF Task, CleanTask, Holds
  <2>3. worker' = [worker EXCEPT ![w].at = "rewriting", ![w].copy = file[User(w)]]
    BY <1>11, <2>2 DEF LoadWrapped
  <2>4. worker'[w] = [worker[w] EXCEPT !.at = "rewriting", !.copy = file[User(w)]]
    BY <1>0, <2>3
  <2>5. /\ worker'[w].op = "change" /\ worker'[w].at = "rewriting"
        /\ worker'[w].ks = worker[w].ks /\ worker'[w].pwd = worker[w].pwd
        /\ worker'[w].account = User(w)
    BY <1>0, <2>1, <2>4 DEF TaskRecords, Op, User
  <2>6. Opens(worker[w].ks)'
    BY <1>0, <1>1, <2>2, <2>5 DEF Opens, Owner, FileKek
  <2>7. CleanTask(w)'
    BY <1>0, <1>1, <2>2, <2>5, <2>6 DEF CleanTask, Holds, Op, At, User
  <2>8. \A a \in Accounts : FileOpens(a)' \/ Between(w, a)'
    BY <1>2, <1>4, <2>5 DEF Between, At, User
  <2>9. \A a \in Accounts : CacheOpens(a)'
    BY <1>2, <1>5, <2>1 DEF Recoding, At
  <2> QED
    BY <1>6, <2>3, <2>7, <2>8, <2>9
<1>12. CASE Recache(w)
  <2>1. At(w, "change", "recaching") /\ Op(w) = "change" /\ Goto(w, "closing")
    BY <1>12 DEF Recache, At, Op
  <2>2. /\ Owner(worker[w].ks) = User(w) /\ User(w) \in Accounts
        /\ Opens(worker[w].ks) /\ worker[w].ks = app.ks
    BY <1>0, <1>2, <2>1 DEF Task, CleanTask, Holds
  <2>3. \A a \in Accounts : ~Between(w, a)
    BY <2>1 DEF Between, At
  <2>4. \A a \in Accounts : CacheOpens(a)'
    <3>1. cacheFile' = IF cacheFile[User(w)].kek = worker[w].kek /\ cacheFile[User(w)].of # {}
                         THEN [cacheFile EXCEPT ![User(w)].kek = FileKek(User(w))]
                         ELSE cacheFile
      BY <1>12, <2>2 DEF Recache, Opens
    <3>2. \A a \in Accounts : a # User(w) => CacheOpens(a)'
      BY <1>0, <1>1, <1>2, <3>1 DEF CacheOpens, FileKek, DiskOK, Recoding
    <3>3. ASSUME NEW a \in Accounts, a = User(w) PROVE CacheOpens(a)'
      <4>1. file'[a] # NoFile /\ FileKek(a)' = FileKek(a)
        BY <1>1, <2>2, <3>3 DEF Opens, FileKek
      <4>2. CASE cacheFile[a].kek = worker[w].kek /\ cacheFile[a].of # {}
        <5>1. cacheFile'[a].kek = FileKek(a)
          BY <1>0, <3>1, <3>3, <4>2 DEF DiskOK
        <5> QED
          BY <4>1, <5>1 DEF CacheOpens
      <4>3. CASE ~(cacheFile[a].kek = worker[w].kek /\ cacheFile[a].of # {})
        <5>1. cacheFile' = cacheFile
          BY <3>1, <3>3, <4>3
        <5>2. CacheOpens(a)
          BY <1>2, <4>3 DEF Recoding, CacheOpens
        <5> QED
          BY <1>5, <5>1, <5>2
      <4> QED
        BY <4>2, <4>3
    <3> QED
      BY <3>2, <3>3
  <2>5. Opens(worker[w].ks)' /\ worker'[w].ks = app'.ks
    BY <1>0, <1>1, <2>1, <2>2, GotoFields DEF Opens, Owner, FileKek, Points
  <2>6. CleanTask(w)'
    BY <2>1, <2>5, GotoFields DEF CleanTask, Holds, Op, At, Points
  <2> QED
    BY <1>2, <1>4, <1>6, <2>1, <2>3, <2>4, <2>6 DEF Goto
<1> QED
  BY <1>8, <1>9, <1>10, <1>11, <1>12

LEMMA UnlockClean ==
  ASSUME Typed, SerialState, CleanState, NEW w \in Workers, MakeKeystore(w) \/ Unlock(w)
  PROVE  CleanState'
<1>0. /\ UNCHANGED <<server, cacheFile, screen>> /\ WorkerOK(w) /\ Task(w) /\ Alone
      /\ Op(w) \in {"register", "login"} /\ User(w) \in Accounts /\ screen = 0
      /\ file \in [Accounts -> Files] /\ keystores \in Seq(Objects)
      /\ worker[w] \in TaskRecords /\ worker = [v \in Workers |-> worker[v]]
  BY DEF MakeKeystore, Unlock, Typed, MemoryOK, DiskOK, WorkersOK, WorkerOK, SerialState,
         Task, At, Op, remote
<1>1. /\ worker[w] # Idle /\ CleanTask(w)
      /\ \A a \in Accounts : FileOpens(a) \/ Between(w, a)
      /\ \A a \in Accounts : CacheOpens(a) \/ Recoding(w, a)
  BY <1>0, CleanBefore, BusyThread DEF SerialState
<1>2. /\ \A a \in Accounts : ~Between(w, a) /\ ~Recoding(w, a)
      /\ worker[w].pwd = server[User(w)]
      /\ worker[w].ks \in 1 .. Len(keystores) /\ Owner(worker[w].ks) = User(w)
      /\ worker[w].pwd # 0
  BY <1>0, <1>1, OwnKeystore DEF MakeKeystore, Unlock, Between, Recoding, At, CleanTask, Task,
                                 WorkerOK, Op
<1>3. ASSUME NEW t, worker' = [worker EXCEPT ![w] = t], CleanTask(w)',
             \A a \in Accounts : FileOpens(a)' /\ CacheOpens(a)'
      PROVE  CleanState'
  BY <1>0, <1>1, <1>3, CleanAfter
<1>4. ASSUME Ends(w) PROVE CleanTask(w)'
  BY <1>4, EndsIdle, IdleClean DEF CleanTask, Holds, Op, At, Idle
\* A login that has its keystore open.
<1>5. ASSUME Goto(w, "publishing"), Op(w) = "login", Opens(worker[w].ks)' PROVE CleanTask(w)'
  BY <1>5, GotoFields DEF CleanTask, Holds, Op, At, Points
<1>6. CASE Create(w) /\ file[User(w)] = NoFile
  <2>1. Kek(worker[w].pwd, worker[w].ks) \in Keks
    BY <1>0, <1>6, CreatedOK
  <2>2. /\ \A k \in 1 .. Len(keystores) : Owner(k)' = Owner(k)
        /\ keystores'[worker[w].ks].kek = Kek(worker[w].pwd, worker[w].ks)
    BY <1>2, <1>6, <2>1, OwnersKept DEF Create
  <2>3. file' = [file EXCEPT ![User(w)] = [pwd |-> worker[w].pwd, identity |-> worker[w].ks]]
    BY <1>6 DEF Create
  <2>4. /\ file'[User(w)].pwd = worker[w].pwd /\ file'[User(w)].identity = worker[w].ks
        /\ file'[User(w)] # NoFile
    BY <1>0, <1>2, <2>3 DEF NoFile
  <2>5. \A a \in Accounts : FileOpens(a)'
    BY <1>0, <1>1, <1>2, <2>3, <2>4 DEF FileOpens
  <2>6. \A a \in Accounts : CacheOpens(a)'
    <3>1. cacheFile[User(w)].of = {}
      BY <1>0, <1>1, <1>2, <1>6 DEF CacheOpens
    <3> QED
      BY <1>0, <1>1, <1>2, <2>3, <3>1 DEF CacheOpens, FileKek
  <2>7. Goto(w, "publishing") => Opens(worker[w].ks)'
    <3>1. Goto(w, "publishing") => worker'[w].ks = worker[w].ks
      BY GotoFields DEF Points
    <3> QED
      BY <1>2, <2>2, <2>4, <3>1 DEF Opens, FileKek, Owner
  <2>8. Ends(w) \/ (Goto(w, "publishing") /\ Op(w) = "login")
    BY DEF MakeKeystore, Unlock, At, Op
  <2> QED
    BY <1>3, <1>4, <1>5, <2>5, <2>6, <2>7, <2>8 DEF Ends, Goto
<1>7. CASE /\ keystores' = [keystores EXCEPT ![worker[w].ks].kek =
                              Kek(worker[w].pwd, file[User(w)].identity)]
           /\ Goto(w, "publishing") /\ UNCHANGED file /\ file[User(w)].pwd = worker[w].pwd
           /\ file[User(w)] # NoFile /\ Op(w) = "login"
  <2>1. Kek(worker[w].pwd, file[User(w)].identity) \in Keks
    BY <1>0 DEF Files, Kek, Keks, TaskRecords
  <2>2. /\ \A k \in 1 .. Len(keystores) : Owner(k)' = Owner(k)
        /\ keystores'[worker[w].ks].kek = FileKek(User(w))
    BY <1>2, <1>7, <2>1, OwnersKept DEF FileKek
  <2>3. worker'[w].ks = worker[w].ks
    BY <1>7, GotoFields DEF Points
  <2>4. Opens(worker[w].ks)'
    BY <1>2, <1>7, <2>2, <2>3 DEF Opens, FileKek, Owner
  <2>5. \A a \in Accounts : FileOpens(a)' /\ CacheOpens(a)'
    BY <1>0, <1>1, <1>2, <1>7 DEF FileOpens, CacheOpens, FileKek
  <2> QED
    BY <1>3, <1>5, <1>7, <2>4, <2>5 DEF Goto
<1>8. CASE Ends(w) /\ UNCHANGED file
  <2>1. \A a \in Accounts : FileOpens(a)' /\ CacheOpens(a)'
    BY <1>0, <1>1, <1>2, <1>8 DEF FileOpens, CacheOpens, FileKek
  <2> QED
    BY <1>3, <1>4, <1>8, <2>1 DEF Ends
<1> QED
  BY <1>6, <1>7, <1>8 DEF MakeKeystore, Unlock, At, Op

LEMMA WindowsClean ==
  ASSUME Typed, SerialState, CleanState, NEW w \in Workers,
         Enter(w) \/ CloseDialog(w) \/ ShowMain(w) \/ SaveCounter(w)
  PROVE  CleanState'
<1>0. /\ UNCHANGED <<server, cacheFile, keystores>> /\ WorkerOK(w) /\ Task(w) /\ Alone
      /\ worker[w] \in TaskRecords /\ worker = [v \in Workers |-> worker[v]] /\ Op(w) # "none"
      /\ file \in [Accounts -> Files]
  BY DEF Enter, CloseDialog, ShowMain, SaveCounter, Typed, WorkersOK, WorkerOK, SerialState,
         DiskOK, At, Op, remote, disk
<1>1. /\ worker[w] # Idle /\ CleanTask(w)
      /\ \A a \in Accounts : FileOpens(a) /\ CacheOpens(a)
  <2>1. \A a \in Accounts : ~Between(w, a) /\ ~Recoding(w, a)
    BY DEF Enter, CloseDialog, ShowMain, SaveCounter, Between, Recoding, At
  <2> QED
    BY <1>0, <2>1, CleanBefore, BusyThread
<1>2. UNCHANGED file
  <2>1. CASE SaveCounter(w)
    <3>1. worker[w].copy = file[User(w)]
      BY <1>0, <2>1 DEF SaveCounter, Task
    <3> QED
      BY <1>0, <2>1, <3>1 DEF SaveCounter
  <2> QED
    BY <2>1 DEF Enter, CloseDialog, ShowMain, disk
<1>3. \A a \in Accounts : FileOpens(a)' /\ CacheOpens(a)'
  BY <1>0, <1>1, <1>2 DEF FileOpens, CacheOpens, FileKek
<1>4. ASSUME NEW t, worker' = [worker EXCEPT ![w] = t], CleanTask(w)',
             screen' # 0 => Opens(app.ks)'
      PROVE  CleanState'
  BY <1>0, <1>1, <1>3, <1>4, CleanAfter
<1>5. ASSUME Ends(w) PROVE CleanTask(w)'
  BY <1>5, EndsIdle, IdleClean DEF CleanTask, Holds, Op, At, Idle
<1>6. CASE Enter(w)
  <2>1. At(w, "login", "entering") /\ Goto(w, "showing") /\ screen' = 0 /\ Op(w) = "login"
    BY <1>0, <1>6 DEF Enter, Task, At, Op
  <2>2. Opens(worker[w].ks) /\ worker'[w].ks = worker[w].ks
    BY <1>1, <2>1, GotoFields DEF CleanTask, Holds, At, Points
  <2>3. Opens(worker[w].ks)'
    BY <1>0, <1>2, <2>2 DEF Opens, FileKek, Owner
  <2>4. CleanTask(w)'
    BY <2>1, <2>3, GotoFields DEF CleanTask, Holds, At, Op, Points
  <2> QED
    BY <1>4, <2>1, <2>4 DEF Goto
<1>7. CASE CloseDialog(w)
  BY <1>4, <1>5, <1>7 DEF CloseDialog, Leave, Ends
<1>8. CASE ShowMain(w)
  <2>1. At(w, "login", "showing") /\ Ends(w) /\ UNCHANGED app /\ Op(w) = "login"
    BY <1>8 DEF ShowMain, At, Op
  <2>2. Opens(worker[w].ks) /\ app.ks = worker[w].ks
    BY <1>0, <1>1, <2>1 DEF CleanTask, Holds, At, Task
  <2>3. Opens(app.ks)'
    BY <1>0, <1>2, <2>1, <2>2 DEF Opens, FileKek, Owner
  <2> QED
    BY <1>4, <1>5, <2>1, <2>3 DEF Ends
<1>9. CASE SaveCounter(w)
  <2>1. At(w, "poll", "saving") /\ UNCHANGED <<app, screen>> /\ Op(w) = "poll"
    BY <1>9 DEF SaveCounter, At, Op
  <2>2. worker'[w] = [worker[w] EXCEPT !.at = "caching", !.copy = NoFile]
    BY <1>0, <1>9 DEF SaveCounter
  <2>3. worker'[w].op = "poll" /\ worker'[w].at = "caching" /\ worker'[w].ks = worker[w].ks
    BY <1>0, <2>1, <2>2 DEF TaskRecords, At
  <2>4. Opens(worker[w].ks)'
    BY <1>0, <1>1, <1>2, <2>1, <2>3 DEF CleanTask, Holds, At, Op, Opens, FileKek, Owner
  <2>5. CleanTask(w)'
    BY <2>3, <2>4 DEF CleanTask, Holds, At, Op
  <2>6. screen' # 0 => Opens(app.ks)'
    BY <1>0, <1>2, <2>1 DEF CleanState, Opens, FileKek, Owner
  <2> QED
    BY <1>4, <1>9, <2>5, <2>6 DEF SaveCounter
<1> QED
  BY <1>6, <1>7, <1>8, <1>9

LEMMA RewrapClean ==
  ASSUME Typed, SerialState, CleanState, NEW w \in Workers, Rewrap(w)
  PROVE  CleanState'
<1>0. /\ UNCHANGED <<server, cacheFile, app, screen>> /\ At(w, "change", "rewriting")
      /\ Op(w) = "change" /\ WorkerOK(w) /\ Task(w) /\ Alone
      /\ worker[w] \in TaskRecords /\ worker = [v \in Workers |-> worker[v]]
      /\ file \in [Accounts -> Files] /\ worker[w].pwd \in Passwords
      /\ worker[w].pwd + 1 \in Passwords
  BY Bounds DEF Rewrap, Typed, WorkersOK, WorkerOK, SerialState, DiskOK, At, Op, remote,
                TaskRecords, Passwords
<1>1. /\ worker[w] # Idle /\ CleanTask(w)
      /\ \A a \in Accounts : FileOpens(a) \/ Between(w, a)
      /\ \A a \in Accounts : CacheOpens(a)
  <2>1. \A a \in Accounts : ~Recoding(w, a)
    BY <1>0 DEF Recoding, At
  <2> QED
    BY <1>0, <2>1, CleanBefore, BusyThread
<1>2. /\ Owner(worker[w].ks) = User(w) /\ User(w) \in Accounts /\ worker[w].ks = app.ks
      /\ worker[w].copy = file[User(w)] /\ file[User(w)] # NoFile
      /\ file[User(w)].pwd = worker[w].pwd /\ worker[w].pwd + 1 = server[User(w)]
      /\ worker[w].ks \in 1 .. Len(keystores) /\ worker[w].copy \in Files
  BY <1>0, <1>1, OwnKeystore DEF Task, CleanTask, TaskRecords
<1>3. /\ Rewrapped(w) \in Files /\ Rewrapped(w).pwd = worker[w].pwd + 1
      /\ file' = [file EXCEPT ![User(w)] = Rewrapped(w)]
      /\ file'[User(w)] = Rewrapped(w)
  BY <1>0, <1>2 DEF Rewrapped, Files, Rewrap
<1>4. /\ \A k \in 1 .. Len(keystores) : Owner(k)' = Owner(k)
      /\ keystores'[worker[w].ks].kek = Kek(Rewrapped(w).pwd, Rewrapped(w).identity)
  <2>1. Kek(Rewrapped(w).pwd, Rewrapped(w).identity) \in Keks
    BY <1>3 DEF Files, Kek, Keks
  <2> QED
    BY <1>2, <2>1, OwnersKept DEF Rewrap
<1> DEFINE kek == Kek(worker[w].pwd, worker[w].copy.identity)
<1>5. worker'[w] = [worker[w] EXCEPT !.at = "recaching", !.kek = kek] /\ kek = FileKek(User(w))
  BY <1>0, <1>2 DEF Rewrap, FileKek
<1> HIDE DEF kek
<1>6. /\ worker'[w].op = "change" /\ worker'[w].at = "recaching"
      /\ worker'[w].account = User(w) /\ worker'[w].ks = worker[w].ks
      /\ worker'[w].kek = FileKek(User(w))
  BY <1>0, <1>5 DEF TaskRecords, Op, User
<1>7. file'[User(w)] # NoFile
  <2>1. worker[w].pwd + 1 # 0
    BY <1>0, Bounds DEF Passwords
  <2> QED
    BY <1>3, <2>1 DEF NoFile
<1>8. /\ file'[keystores'[worker[w].ks].account] # NoFile
      /\ keystores'[worker[w].ks].kek = Kek(file'[keystores'[worker[w].ks].account].pwd,
                                            file'[keystores'[worker[w].ks].account].identity)
  BY <1>2, <1>3, <1>4, <1>7 DEF Owner
<1>9. \A a \in Accounts : FileOpens(a)' \/ Between(w, a)'
  <2>1. ASSUME NEW a \in Accounts, a = User(w) PROVE FileOpens(a)'
    BY <1>0, <1>2, <1>3, <2>1 DEF FileOpens
  <2>2. ASSUME NEW a \in Accounts, a # User(w) PROVE FileOpens(a)'
    BY <1>0, <1>1, <1>3, <2>2 DEF FileOpens, Between
  <2> QED
    BY <2>1, <2>2
<1>10. \A a \in Accounts : CacheOpens(a)' \/ Recoding(w, a)'
  <2>1. ASSUME NEW a \in Accounts, a = User(w) PROVE CacheOpens(a)' \/ Recoding(w, a)'
    <3>1. cacheFile'[a].of = {} \/ cacheFile'[a].kek = worker'[w].kek
      BY <1>0, <1>1, <1>6, <2>1 DEF CacheOpens
    <3> QED
      BY <1>6, <2>1, <3>1 DEF CacheOpens, Recoding, At, User
  <2>2. ASSUME NEW a \in Accounts, a # User(w) PROVE CacheOpens(a)'
    BY <1>0, <1>1, <1>3, <2>2 DEF CacheOpens, FileKek
  <2> QED
    BY <2>1, <2>2
<1>11. CleanTask(w)'
  BY <1>0, <1>2, <1>6, <1>8 DEF CleanTask, Holds, At, Op, Opens, Owner, FileKek
<1>12. Opens(app.ks)'
  BY <1>0, <1>2, <1>8 DEF Opens, Owner, FileKek
<1> QED
  BY <1>0, <1>1, <1>9, <1>10, <1>11, <1>12, CleanAfter DEF Rewrap

LEMMA FaultsGrow ==
  ASSUME Typed, [Next]_vars, faults' = 0
  PROVE  /\ faults = 0
         /\ ~Crash /\ \A w \in Workers : ~RequestFails(w) /\ ~AnswerLost(w)
<1>1. faults \in Nat
  BY DEF Typed, DiskOK
<1>2. ~Crash /\ \A w \in Workers : ~RequestFails(w) /\ ~AnswerLost(w)
  BY <1>1 DEF Crash, RequestFails, AnswerLost
<1> QED
  BY <1>2 DEF Next, WorkerStep, vars, StartRegister, StartLogin, StartSigning, StartPoll,
     StartChange, Register, ClearKeystore, MakeKeystore, LogIn, Unlock, Publish, Enter, ShowMain,
     Fetch, OpenMessages, SaveCounter, SaveCache, ChangeAtServer, LoadWrapped, Rewrap, Recache,
     CloseDialog, LogOut

LEMMA CleanNext ==
  ASSUME Typed, SerialState, CleanState, [Next]_vars, ~overlap, faults' = 0
  PROVE  CleanState'
<1>1. ASSUME NEW w \in Workers, NEW a \in Accounts, NEW p \in 1 .. MaxPasswords,
             StartRegister(w, a) \/ StartLogin(w, a, p)
      PROVE  CleanState'
  <2>1. p \in Passwords \ {0} /\ 1 \in Passwords \ {0}
    BY Bounds DEF Passwords
  <2>2. AtRest
    BY <1>1 DEF StartRegister, StartLogin, StartSigning, MayStart
  <2> QED
    BY <1>1, <2>1, <2>2, SignsClean DEF StartRegister, StartLogin
<1>2. ASSUME NEW w \in Workers, StartPoll(w) \/ StartChange(w)
      PROVE  CleanState'
  BY <1>2, StartsClean DEF StartPoll, StartChange, StartInWindow, MayStart
<1>3. ASSUME NEW w \in Workers, WorkerStep(w) PROVE CleanState'
  BY <1>3, RequestsClean, FilesClean, UnlockClean, WindowsClean, RewrapClean DEF WorkerStep
<1>4. CASE LogOut
  <2>1. AtRest /\ screen' = 0 /\ UNCHANGED <<server, file, cacheFile, keystores, worker>>
    BY <1>4 DEF LogOut, Leave, remote, disk
  <2>2. \A v \in Workers : worker[v] = Idle /\ worker'[v] = Idle
    BY <2>1 DEF AtRest
  <2>3. \A a \in Accounts : FileOpens(a) /\ CacheOpens(a)
    BY <2>2 DEF CleanState, Between, Recoding, At, Idle
  <2>4. \A a \in Accounts : FileOpens(a)' /\ CacheOpens(a)'
    BY <2>1, <2>3 DEF FileOpens, CacheOpens, FileKek
  <2>5. \A v \in Workers : CleanTask(v)'
    BY <2>2 DEF CleanTask, Holds, Op, At, Idle
  <2> QED
    BY <2>1, <2>4, <2>5 DEF CleanState
<1>5. CASE UNCHANGED vars
  BY <1>5 DEF vars, CleanState, CleanTask, Holds, Opens, FileKek, FileOpens, CacheOpens, Between,
              Recoding, Op, User, Owner, At, memory, remote, disk
<1> QED
  BY <1>1, <1>2, <1>3, <1>4, <1>5, FaultsGrow, Bounds DEF Next

LEMMA CleanInit == Init => CleanState
<1> SUFFICES ASSUME Init PROVE CleanState
  OBVIOUS
<1>1. \A w \in Workers : worker[w] = Idle
  BY DEF Init
<1>2. \A a \in Accounts : cacheFile[a].of = {}
  BY DEF Init, NoCache
<1>3. \A a \in Accounts : FileOpens(a)
  <2>1. PICK known \in SUBSET Accounts :
          /\ server = [a \in Accounts |-> IF a \in known THEN 1 ELSE 0]
          /\ file = [a \in Accounts |-> FileOf(a \in known)]
    BY DEF Init
  <2>2. ASSUME NEW a \in Accounts, a \in known PROVE file[a].pwd = server[a]
    BY <2>1, <2>2 DEF FileOf
  <2>3. ASSUME NEW a \in Accounts, a \notin known PROVE file[a] = NoFile
    BY <2>1, <2>3 DEF FileOf
  <2> QED
    BY <2>2, <2>3 DEF FileOpens
<1>4. screen = 0
  BY DEF Init
<1> QED
  BY <1>1, <1>2, <1>3, <1>4, IdleClean DEF CleanState, CacheOpens

\* Without faults and with threads one at a time, the password the server accepts opens
\* the keystore and the cache of every account, whenever nothing is under way.
THEOREM UnlocksSerially == Spec => []SerialUnlocks
<1> DEFINE CleanOK == SerialOK /\ (~overlap /\ faults = 0 => CleanState)
<1>1. Init => CleanOK
  BY TypedInit, SerialInit, CleanInit DEF SerialOK
<1>2. CleanOK /\ [Next]_vars => CleanOK'
  BY TypedNext, SerialNext, OverlapStays, CleanNext, FaultsGrow DEF SerialOK
<1>3. CleanOK => SerialUnlocks
  <2> SUFFICES ASSUME CleanOK, ~overlap, faults = 0, AtRest, NEW a \in Accounts
               PROVE  /\ file[a] # NoFile => file[a].pwd = server[a]
                      /\ cacheFile[a].of # {} =>
                           cacheFile[a].kek = Kek(file[a].pwd, file[a].identity)
    BY DEF SerialUnlocks
  <2>1. \A w \in Workers : ~Between(w, a) /\ ~Recoding(w, a)
    BY DEF AtRest, Between, Recoding, At, Idle
  <2> QED
    BY <2>1 DEF CleanState, FileOpens, CacheOpens, FileKek
<1> QED
  BY <1>1, <1>2, <1>3, PTL DEF Spec
=============================================================================
