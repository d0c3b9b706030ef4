------------------------------ MODULE Account ------------------------------
(***************************************************************************)
(* The life of the accounts used on one machine: registration, login, the  *)
(* change of a password over server, keystore and message cache, logout,   *)
(* and the polls of the main window meanwhile.  The server's side is one    *)
(* step per request here; AuthServer has its handlers.  The archive's part  *)
(* of a password change is LocalArchive.                                    *)
(*                                                                         *)
(* Every button starts a thread; threads outlive the screen that started    *)
(* them and share the application's current user and keystore.  overlap     *)
(* says whether threads overlap in this behaviour.                          *)
(*                                                                         *)
(* Passwords of an account are numbered in the order the account has them.  *)
(* A keystore's KEK is a password with the keystore's salt, which is fresh  *)
(* with every keystore and stays with it, like its key pairs: one number    *)
(* (identity) stands for both.                                              *)
(*                                                                         *)
(* Operators named Faulty... are plausible slips in the code; each makes    *)
(* one of the properties below fail and none is part of Spec.              *)
(***************************************************************************)
EXTENDS Naturals, Sequences

CONSTANTS
  Accounts,      (* the accounts used on this machine                        *)
  Nobody,        (* the user of an application that is logged out            *)
  Workers,       (* threads                                                  *)
  MaxPasswords,  (* bound on the passwords an account has in turn            *)
  MaxKeystores,  (* bound on the Keystore objects made (register, login)     *)
  MaxFaults      (* bound on lost answers, failed requests and crashes       *)

ASSUME NobodyAssumption == Nobody \notin Accounts
ASSUME BoundsAssumption ==
  {MaxPasswords, MaxKeystores, MaxFaults} \subseteq Nat /\ MaxPasswords > 0

VARIABLES
  overlap,    (* may threads overlap                                        *)
  server,     (* server[a]: a's password at the server, 0 without an account *)
  published,  (* published[a]: the identity peers are given for a, 0 for none*)
  file,       (* file[a]: the keystore file of a                            *)
  cacheFile,  (* cacheFile[a]: the encrypted message cache beside it         *)
  keystores,  (* the Keystore objects: account and KEK of each               *)
  frames,     (* the main windows: user, token, keystore and plaintext cache *)
  app,        (* the application's current user, token and keystore          *)
  screen,     (* the main window shown, 0 for the login screen               *)
  worker,     (* worker[w]: what thread w is doing                          *)
  faults      (* faults so far                                              *)

disk   == <<file, cacheFile>>
remote == <<server, published>>
memory == <<keystores, frames, app, screen>>
vars   == <<overlap, remote, disk, memory, worker, faults>>

\* A file that does not exist has password 0.
NoFile  == [pwd |-> 0, identity |-> 0]
Kek(pwd, identity) == <<pwd, identity>>
Locked  == Kek(0, 0)
NoCache == [kek |-> Locked, of |-> {}]

\* The keystore an account used before has an identity of its own.
Earlier == MaxKeystores + 1

FileOf(known) == IF known THEN [pwd |-> 1, identity |-> Earlier] ELSE NoFile

LoggedOut == [user |-> Nobody, token |-> 0, ks |-> 0]

\* ks: the Keystore object the thread uses; frame: the window that started it;
\* pwd: the password typed; copy: the file as it loaded it; kek: the one it had
\* before it re-wrapped the keystore.
Idle == [at |-> "idle", op |-> "none", account |-> Nobody, ks |-> 0, frame |-> 0,
         pwd |-> 0, copy |-> NoFile, kek |-> Locked]

Points == {"idle", "posting", "clearing", "making", "unlocking", "publishing",
           "entering", "showing", "opening", "saving", "caching",
           "rewrapping", "rewriting", "recaching", "closing"}

\* Some accounts have been used on this machine before.
Init ==
  /\ overlap \in BOOLEAN
  /\ \E known \in SUBSET Accounts :
       /\ server = [a \in Accounts |-> IF a \in known THEN 1 ELSE 0]
       /\ published = [a \in Accounts |-> IF a \in known THEN Earlier ELSE 0]
       /\ file = [a \in Accounts |-> FileOf(a \in known)]
  /\ cacheFile = [a \in Accounts |-> NoCache]
  /\ keystores = <<>>
  /\ frames = <<>>
  /\ app = LoggedOut
  /\ screen = 0
  /\ worker = [w \in Workers |-> Idle]
  /\ faults = 0

At(w, op, point) == worker[w].op = op /\ worker[w].at = point

AtRest == \A w \in Workers : worker[w] = Idle

MayStart(w) == worker[w] = Idle /\ (overlap \/ AtRest)

Goto(w, point) == worker' = [worker EXCEPT ![w].at = point]
Ends(w)        == worker' = [worker EXCEPT ![w] = Idle]

User(w)  == worker[w].account
Owner(k) == keystores[k].account

----------------------------------------------------------------------------
(* AuthService.register and RegisterFrame.                                 *)

\* Both screens make a Keystore object for the path of the account.
StartSigning(w, op, a, p) ==
  /\ screen = 0
  /\ MayStart(w)
  /\ Len(keystores) < MaxKeystores
  /\ keystores' = Append(keystores, [account |-> a, kek |-> Locked])
  /\ worker' = [worker EXCEPT ![w] = [Idle EXCEPT !.at = "posting", !.op = op,
                                        !.account = a, !.ks = Len(keystores) + 1,
                                        !.pwd = p]]
  /\ UNCHANGED <<overlap, remote, disk, frames, app, screen, faults>>

StartRegister(w, a) == StartSigning(w, "register", a, 1)

\* The local identity is cleared first, to start afresh.
FaultyRegister(w) ==
  /\ At(w, "register", "posting")
  /\ file' = [file EXCEPT ![User(w)] = NoFile]
  /\ IF server[User(w)] = 0
       THEN server' = [server EXCEPT ![User(w)] = 1] /\ Goto(w, "clearing")
       ELSE UNCHANGED server /\ Ends(w)
  /\ UNCHANGED <<overlap, published, cacheFile, memory, faults>>

\* The server takes the name, or answers with a conflict.
Register(w) ==
  /\ At(w, "register", "posting")
  /\ IF server[User(w)] = 0
       THEN server' = [server EXCEPT ![User(w)] = 1] /\ Goto(w, "clearing")
       ELSE UNCHANGED server /\ Ends(w)
  /\ UNCHANGED <<overlap, published, disk, memory, faults>>

\* A keystore file that is there is removed.
ClearKeystore(w) ==
  /\ At(w, "register", "clearing")
  /\ file' = [file EXCEPT ![User(w)] = NoFile]
  /\ Goto(w, "making")
  /\ UNCHANGED <<overlap, remote, cacheFile, memory, faults>>

\* Keystore.create
Create(w) ==
  /\ file' = [file EXCEPT ![User(w)] = [pwd |-> worker[w].pwd, identity |-> worker[w].ks]]
  /\ keystores' = [keystores EXCEPT ![worker[w].ks].kek = Kek(worker[w].pwd, worker[w].ks)]

\* A file that has appeared since makes create raise FileExistsError.
MakeKeystore(w) ==
  /\ At(w, "register", "making")
  /\ IF file[User(w)] = NoFile
       THEN Create(w) /\ app' = [app EXCEPT !.ks = worker[w].ks]
       ELSE UNCHANGED <<file, keystores, app>>
  /\ Ends(w)
  /\ UNCHANGED <<overlap, remote, cacheFile, frames, screen, faults>>

----------------------------------------------------------------------------
(* AuthService.login and LoginFrame.                                       *)

StartLogin(w, a, p) == StartSigning(w, "login", a, p)

LogIn(w) ==
  /\ At(w, "login", "posting")
  /\ IF worker[w].pwd = server[User(w)] THEN Goto(w, "unlocking") ELSE Ends(w)
  /\ UNCHANGED <<overlap, remote, disk, memory, faults>>

\* A keystore under another password does not open, and the login fails; without
\* a keystore one is created.
Unlock(w) ==
  /\ At(w, "login", "unlocking")
  /\ IF file[User(w)] = NoFile
       THEN Create(w) /\ Goto(w, "publishing")
     ELSE IF file[User(w)].pwd = worker[w].pwd
       THEN /\ keystores' = [keystores EXCEPT ![worker[w].ks].kek =
                               Kek(worker[w].pwd, file[User(w)].identity)]
            /\ Goto(w, "publishing")
            /\ UNCHANGED file
     ELSE Ends(w) /\ UNCHANGED <<file, keystores>>
  /\ UNCHANGED <<overlap, remote, cacheFile, frames, app, screen, faults>>

\* publish_own_keys: what the file holds; without the file the login fails.
Publish(w) ==
  /\ At(w, "login", "publishing")
  /\ IF file[User(w)] # NoFile
       THEN /\ published' = [published EXCEPT ![User(w)] = file[User(w)].identity]
            /\ Goto(w, "entering")
       ELSE UNCHANGED published /\ Ends(w)
  /\ UNCHANGED <<overlap, server, disk, memory, faults>>

Enter(w) ==
  /\ At(w, "login", "entering")
  /\ app' = [user |-> User(w), token |-> worker[w].pwd, ks |-> worker[w].ks]
  /\ Goto(w, "showing")
  /\ UNCHANGED <<overlap, remote, disk, keystores, frames, screen, faults>>

\* load_message_cache: a cache under another KEK counts as empty.
LoadCache(k) ==
  IF cacheFile[Owner(k)].kek = keystores[k].kek THEN cacheFile[Owner(k)].of ELSE {}

\* The windows of a process share one plaintext cache.
FaultyShowMain(w) ==
  /\ At(w, "login", "showing")
  /\ frames' = Append(frames, [user |-> app.user, token |-> app.token, ks |-> app.ks,
                               cache |-> LoadCache(app.ks) \cup
                                         UNION {frames[f].cache : f \in DOMAIN frames}])
  /\ screen' = Len(frames) + 1
  /\ Ends(w)
  /\ UNCHANGED <<overlap, remote, disk, keystores, app, faults>>

\* _show_main: the window takes what the application has by now.
ShowMain(w) ==
  /\ At(w, "login", "showing")
  /\ frames' = Append(frames, [user |-> app.user, token |-> app.token, ks |-> app.ks,
                               cache |-> LoadCache(app.ks)])
  /\ screen' = Len(frames) + 1
  /\ Ends(w)
  /\ UNCHANGED <<overlap, remote, disk, keystores, app, faults>>

----------------------------------------------------------------------------
(* A poll of the main window: the messages of its user are decrypted, the   *)
(* keystore's counter is saved, and then the cache.                        *)

Frame(w) == frames[worker[w].frame]

StartInWindow(w, op, ks) ==
  /\ screen # 0
  /\ MayStart(w)
  /\ worker' = [worker EXCEPT ![w] = [Idle EXCEPT !.at = "posting", !.op = op,
                                        !.account = frames[screen].user, !.ks = ks,
                                        !.frame = screen, !.pwd = frames[screen].token]]

StartPoll(w) ==
  /\ StartInWindow(w, "poll", 0)
  /\ UNCHANGED <<overlap, remote, disk, memory, faults>>

\* A change of the password ends the tokens issued before it.
TokenValid(w) == User(w) # Nobody /\ Frame(w).token = server[User(w)]

\* _decrypt_inbox takes the application's keystore as it is when it begins.
Fetch(w) ==
  /\ At(w, "poll", "posting")
  /\ worker' = [worker EXCEPT ![w] =
       IF TokenValid(w) /\ User(w) \notin Frame(w).cache
         THEN [@ EXCEPT !.at = "opening", !.ks = app.ks] ELSE Idle]
  /\ UNCHANGED <<overlap, remote, disk, memory, faults>>

\* The window's keystore opens the messages if it is its user's.
OpenMessages(w) ==
  /\ At(w, "poll", "opening")
  /\ IF Owner(Frame(w).ks) = User(w) /\ file[User(w)] # NoFile
       THEN worker' = [worker EXCEPT ![w].at = "saving", ![w].copy = file[User(w)]]
       ELSE Ends(w)
  /\ UNCHANGED <<overlap, remote, disk, memory, faults>>

\* set_recv_seq writes back the file as it was loaded, wrapped keys included.
SaveCounter(w) ==
  /\ At(w, "poll", "saving")
  /\ file' = [file EXCEPT ![User(w)] = worker[w].copy]
  /\ frames' = [frames EXCEPT ![worker[w].frame].cache = @ \cup {User(w)}]
  /\ worker' = [worker EXCEPT ![w].at = "caching", ![w].copy = NoFile]
  /\ UNCHANGED <<overlap, remote, cacheFile, keystores, app, screen, faults>>

\* save_message_cache of the keystore the poll began with.
SaveCache(w) ==
  /\ At(w, "poll", "caching")
  /\ cacheFile' = [cacheFile EXCEPT ![Owner(worker[w].ks)] =
                     [kek |-> keystores[worker[w].ks].kek, of |-> Frame(w).cache]]
  /\ Ends(w)
  /\ UNCHANGED <<overlap, remote, file, memory, faults>>

----------------------------------------------------------------------------
(* The account dialog: AuthService.change_password and                      *)
(* Keystore.change_password.                                               *)

\* Fails closed without a keystore file.
StartChange(w) ==
  /\ StartInWindow(w, "change", app.ks)
  /\ app.ks # 0 /\ file[Owner(app.ks)] # NoFile
  /\ frames[screen].token < MaxPasswords
  /\ UNCHANGED <<overlap, remote, disk, memory, faults>>

\* The server checks the token and the current password.
ChangeAtServer(w) ==
  /\ At(w, "change", "posting")
  /\ IF TokenValid(w)
       THEN server' = [server EXCEPT ![User(w)] = @ + 1] /\ Goto(w, "rewrapping")
       ELSE UNCHANGED server /\ Ends(w)
  /\ UNCHANGED <<overlap, published, disk, memory, faults>>

\* A keystore the current password does not open ends the change with a message.
LoadWrapped(w) ==
  /\ At(w, "change", "rewrapping")
  /\ LET wrapped == file[Owner(worker[w].ks)]
     IN  IF wrapped.pwd = worker[w].pwd
           THEN worker' = [worker EXCEPT ![w].at = "rewriting", ![w].copy = wrapped]
           ELSE Ends(w)
  /\ UNCHANGED <<overlap, remote, disk, memory, faults>>

Rewrapped(w) == [worker[w].copy EXCEPT !.pwd = worker[w].pwd + 1]

\* The KEK in memory stays the old one until the next unlock.
FaultyRewrap(w) ==
  /\ At(w, "change", "rewriting")
  /\ file' = [file EXCEPT ![Owner(worker[w].ks)] = Rewrapped(w)]
  /\ worker' = [worker EXCEPT ![w].at = "recaching",
                  ![w].kek = Kek(worker[w].pwd, worker[w].copy.identity)]
  /\ UNCHANGED <<overlap, remote, cacheFile, memory, faults>>

Rewrap(w) ==
  /\ At(w, "change", "rewriting")
  /\ file' = [file EXCEPT ![Owner(worker[w].ks)] = Rewrapped(w)]
  /\ keystores' = [keystores EXCEPT ![worker[w].ks].kek =
                     Kek(Rewrapped(w).pwd, Rewrapped(w).identity)]
  /\ worker' = [worker EXCEPT ![w].at = "recaching",
                  ![w].kek = Kek(worker[w].pwd, worker[w].copy.identity)]
  /\ UNCHANGED <<overlap, remote, cacheFile, frames, app, screen, faults>>

\* The cache is re-encrypted, if the old KEK opens it and it is not empty.
Recache(w) ==
  /\ At(w, "change", "recaching")
  /\ LET owner == Owner(worker[w].ks)
     IN  cacheFile' = IF cacheFile[owner].kek = worker[w].kek /\ cacheFile[owner].of # {}
                        THEN [cacheFile EXCEPT ![owner].kek = keystores[worker[w].ks].kek]
                        ELSE cacheFile
  /\ Goto(w, "closing")
  /\ UNCHANGED <<overlap, remote, file, memory, faults>>

\* The keystore object goes with the user.
FaultyLeave ==
  /\ app' = LoggedOut
  /\ screen' = 0

\* _logout; the keystore object stays with the application.
Leave ==
  /\ app' = [app EXCEPT !.user = Nobody, !.token = 0]
  /\ screen' = 0

\* The session is dead, and the dialog logs out.
CloseDialog(w) ==
  /\ At(w, "change", "closing")
  /\ Leave
  /\ Ends(w)
  /\ UNCHANGED <<overlap, remote, disk, keystores, frames, faults>>

LogOut ==
  /\ screen # 0
  /\ overlap \/ AtRest
  /\ Leave
  /\ UNCHANGED <<overlap, remote, disk, keystores, frames, worker, faults>>

----------------------------------------------------------------------------
(* Faults.                                                                 *)

\* A request fails before it has an effect.
RequestFails(w) ==
  /\ faults < MaxFaults
  /\ faults' = faults + 1
  /\ worker[w].at \in {"posting", "publishing"}
  /\ Ends(w)
  /\ UNCHANGED <<overlap, remote, disk, memory>>

\* The server registers the account or changes the password, and the client does
\* not learn of it.
AnswerLost(w) ==
  /\ faults < MaxFaults
  /\ faults' = faults + 1
  /\ \/ At(w, "register", "posting") /\ server[User(w)] = 0
     \/ At(w, "change", "posting") /\ TokenValid(w)
  /\ server' = [server EXCEPT ![User(w)] = @ + 1]
  /\ Ends(w)
  /\ UNCHANGED <<overlap, published, disk, memory>>

\* The client dies and is started again.
Crash ==
  /\ faults < MaxFaults
  /\ faults' = faults + 1
  /\ ~AtRest
  /\ frames' = <<>>
  /\ app' = LoggedOut
  /\ screen' = 0
  /\ worker' = [w \in Workers |-> Idle]
  /\ UNCHANGED <<overlap, remote, disk, keystores>>

WorkerStep(w) ==
  \/ Register(w)
  \/ ClearKeystore(w)
  \/ MakeKeystore(w)
  \/ LogIn(w)
  \/ Unlock(w)
  \/ Publish(w)
  \/ Enter(w)
  \/ ShowMain(w)
  \/ Fetch(w)
  \/ OpenMessages(w)
  \/ SaveCounter(w)
  \/ SaveCache(w)
  \/ ChangeAtServer(w)
  \/ LoadWrapped(w)
  \/ Rewrap(w)
  \/ Recache(w)
  \/ CloseDialog(w)

Next ==
  \/ \E w \in Workers :
       \/ \E a \in Accounts : StartRegister(w, a)
       \/ \E a \in Accounts, p \in 1 .. MaxPasswords : StartLogin(w, a, p)
       \/ StartPoll(w)
       \/ StartChange(w)
       \/ WorkerStep(w)
       \/ RequestFails(w)
       \/ AnswerLost(w)
  \/ LogOut
  \/ Crash

Spec == Init /\ [][Next]_vars

----------------------------------------------------------------------------
(* Properties.                                                             *)

Passwords == 0 .. MaxPasswords
Keks      == Passwords \X (0 .. Earlier)
Files     == [pwd : Passwords, identity : 0 .. Earlier]

\* Every variable holds a value of its kind, and a poll that has its messages has a
\* keystore to work with, even when the user logs out meanwhile.
TypeOK ==
  /\ \A w \in Workers : worker[w].op = "poll" /\ worker[w].at # "posting" => worker[w].ks # 0
  /\ overlap \in BOOLEAN
  /\ server \in [Accounts -> Passwords]
  /\ published \in [Accounts -> 0 .. Earlier]
  /\ file \in [Accounts -> Files]
  /\ cacheFile \in [Accounts -> [kek : Keks, of : SUBSET Accounts]]
  /\ keystores \in Seq([account : Accounts, kek : Keks])
  /\ frames \in Seq([user : Accounts \cup {Nobody}, token : Passwords, ks : Nat,
                     cache : SUBSET Accounts])
  /\ app \in [user : Accounts \cup {Nobody}, token : Passwords, ks : DOMAIN keystores \cup {0}]
  /\ screen \in DOMAIN frames \cup {0}
  /\ worker \in [Workers -> [at : Points, op : {"none", "register", "login", "poll", "change"},
                             account : Accounts \cup {Nobody},
                             ks : DOMAIN keystores \cup {0}, frame : Nat,
                             pwd : Passwords, copy : Files, kek : Keks]]
  /\ faults \in Nat

\* With one thread at a time and no faults, the password the server accepts opens
\* the account's keystore and its message cache, through every change of the
\* password: server, keystore and cache change hands together
\* (AuthService.change_password, then Keystore.change_password).
SerialUnlocks ==
  ~overlap /\ faults = 0 /\ AtRest =>
    \A a \in Accounts :
      /\ file[a] # NoFile => file[a].pwd = server[a]
      /\ cacheFile[a].of # {} => cacheFile[a].kek = Kek(file[a].pwd, file[a].identity)

\* As long as threads do not overlap, the private keys behind the public keys that
\* peers are given are never lost, whatever fails and wherever the client dies: the
\* file is there, with this identity, under a password the account has or had.  In
\* particular a registration that is refused leaves the keystore alone.
SerialKeysKept ==
  ~overlap =>
    \A a \in Accounts :
      published[a] # 0 => /\ file[a].identity = published[a]
                          /\ file[a].pwd \in 1 .. server[a]

\* As long as threads do not overlap, accounts on one machine share no state: an
\* account's cache file holds its own messages only (keystore_path_for), also when
\* users follow each other without a restart.
SerialCachesApart == ~overlap => \A a \in Accounts : cacheFile[a].of \subseteq {a}
=============================================================================
