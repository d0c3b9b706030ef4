----------------------------- MODULE AuthServer -----------------------------
(***************************************************************************)
(* Accounts on the server: registration, login with its lock-out, tokens    *)
(* and the change of a password.  A request is handled in several database  *)
(* statements, and the statements of different requests interleave; what a  *)
(* handler has read may be out of date when it acts on it.                  *)
(*                                                                         *)
(* Time is in whole seconds, as the DATETIME columns and the stamps of the  *)
(* tokens are.  A password hash is the password; hashing takes time and is  *)
(* no step of its own.  Expired tokens are left out: they are only refused. *)
(*                                                                         *)
(* Operators named Faulty... are plausible slips in the code; each makes    *)
(* one of the properties below fail and none is part of Spec.              *)
(***************************************************************************)
EXTENDS Naturals, FiniteSets

CONSTANTS
  Ids,          (* user ids                                                 *)
  Names,        (* user names                                               *)
  Passwords,
  Handlers,     (* requests that may be under way at once                   *)
  MaxFailures,  (* LOCKOUT_MAX_FAILURES                                     *)
  Window,       (* LOCKOUT_WINDOW_MS, in seconds                            *)
  MaxTime       (* bound on the clock                                       *)

ASSUME BoundsAssumption ==
  /\ MaxFailures \in Nat \ {0} /\ Window \in Nat /\ MaxTime \in Nat
  /\ IsFiniteSet(Handlers) /\ IsFiniteSet(Ids)

VARIABLES
  now,
  users,      (* users[id]: the row of the account, or NoRow                 *)
  failures,   (* login_attempts: the rows of failed attempts                 *)
  tokens,     (* the tokens issued: whom for, their stamp and, as a history, *)
              (* the password they were obtained with                        *)
  passwords,  (* history: passwords[id]: <<the password set, when>>          *)
  handler     (* handler[h]: what request h is about and where it is         *)

vars == <<now, users, failures, tokens, passwords, handler>>

Time  == 1 .. MaxTime + 1
NoRow == [there |-> FALSE]
Row   == [there : {TRUE}, name : Names, pwd : Passwords, changed : Time]
Token == [sub : Ids, stamp : Time, pwd : Passwords]

\* The row's own id tells the attempts of one second apart: here, their number.
Attempt == [user : Ids, at : Time, no : Nat]

Idle == [at |-> "idle"]

Init ==
  /\ now = 1
  /\ users = [id \in Ids |-> NoRow]
  /\ failures = {}
  /\ tokens = {}
  /\ passwords = [id \in Ids |-> {}]
  /\ handler = [h \in Handlers |-> Idle]

Begins(h, request) == handler[h] = Idle /\ handler' = [handler EXCEPT ![h] = request]
Ends(h)            == handler' = [handler EXCEPT ![h] = Idle]

Known(id) == users[id].there

ById(name) == {id \in Ids : Known(id) /\ users[id].name = name}

----------------------------------------------------------------------------
(* register                                                                *)

\* findByUsername finds nobody.
StartRegister(h, name, pwd) ==
  /\ ById(name) = {}
  /\ Begins(h, [at |-> "insert", name |-> name, pwd |-> pwd])
  /\ UNCHANGED <<now, users, failures, tokens, passwords>>

\* The column has no unique index.
FaultyFree(name) == TRUE

\* users.username is unique.
Free(name) == ById(name) = {}

Insert(h) ==
  /\ handler[h].at = "insert" /\ Free(handler[h].name)
  /\ \E id \in Ids :
       /\ ~Known(id)
       /\ users' = [users EXCEPT ![id] = [there |-> TRUE, name |-> handler[h].name,
                                          pwd |-> handler[h].pwd, changed |-> now]]
       /\ passwords' = [passwords EXCEPT ![id] = {<<handler[h].pwd, now>>}]
  /\ Ends(h)
  /\ UNCHANGED <<now, failures, tokens>>

\* The unique index refuses the row: the request is answered with an error.
InsertRefused(h) ==
  /\ handler[h].at = "insert" /\ ~Free(handler[h].name)
  /\ Ends(h)
  /\ UNCHANGED <<now, users, failures, tokens, passwords>>

----------------------------------------------------------------------------
(* login                                                                   *)

\* findByUsername: the row is used from here on.
StartLogin(h, name, pwd) ==
  /\ \E id \in ById(name) :
       Begins(h, [at |-> "count", id |-> id, row |-> users[id], pwd |-> pwd])
  /\ UNCHANGED <<now, users, failures, tokens, passwords>>

\* countRecentFailures.
RecentFailures(id) == {f \in failures : f.user = id /\ f.at + Window >= now}
Recent(id) == Cardinality(RecentFailures(id))

\* One failure too many is let through.
FaultyLocked(id) == Recent(id) > MaxFailures

Locked(id) == Recent(id) >= MaxFailures

CountFailures(h) ==
  /\ handler[h].at = "count"
  /\ IF Locked(handler[h].id)
       THEN Ends(h)
       ELSE handler' = [handler EXCEPT ![h].at = "verify"]
  /\ UNCHANGED <<now, users, failures, tokens, passwords>>

Failure(id) ==
  [user |-> id, at |-> now, no |-> Cardinality({f \in failures : f.user = id /\ f.at = now})]

\* A login that was refused is not ended: it goes on to its token.
FaultyVerify(h) ==
  /\ handler[h].at = "verify" /\ handler[h].pwd # handler[h].row.pwd
  /\ failures' = failures \cup {Failure(handler[h].id)}
  /\ handler' = [handler EXCEPT ![h].at = "sign"]
  /\ UNCHANGED <<now, users, tokens, passwords>>

RecordFailure(h) ==
  /\ handler[h].at = "verify" /\ handler[h].pwd # handler[h].row.pwd
  /\ failures' = failures \cup {Failure(handler[h].id)}
  /\ Ends(h)
  /\ UNCHANGED <<now, users, tokens, passwords>>

\* The success is recorded, then clearFailures.
ClearFailures(h) ==
  /\ handler[h].at = "verify" /\ handler[h].pwd = handler[h].row.pwd
  /\ failures' = {f \in failures : f.user # handler[h].id}
  /\ handler' = [handler EXCEPT ![h].at = "sign"]
  /\ UNCHANGED <<now, users, tokens, passwords>>

\* The token is stamped with the time of its issue.
FaultyStamp(row) == now

\* pwdChangedAtSeconds of the row that was read at the start.
Stamp(row) == row.changed

SignToken(h) ==
  /\ handler[h].at = "sign"
  /\ tokens' = tokens \cup {[sub   |-> handler[h].id,
                             stamp |-> Stamp(handler[h].row),
                             pwd   |-> handler[h].pwd]}
  /\ Ends(h)
  /\ UNCHANGED <<now, users, failures, passwords>>

----------------------------------------------------------------------------
(* changePassword, and verifyToken for this and every other request.       *)

Accepts(token) == Known(token.sub) /\ token.stamp >= users[token.sub].changed

StartChange(h, current, new) ==
  /\ \E token \in tokens :
       /\ Accepts(token)
       /\ Begins(h, [at |-> "find", id |-> token.sub, pwd |-> current, new |-> new])
  /\ UNCHANGED <<now, users, failures, tokens, passwords>>

\* findById; a wrong current password is refused.
FindOwn(h) ==
  /\ handler[h].at = "find"
  /\ IF users[handler[h].id].pwd = handler[h].pwd
       THEN handler' = [handler EXCEPT ![h].at = "update"]
       ELSE Ends(h)
  /\ UNCHANGED <<now, users, failures, tokens, passwords>>

\* updatePassword, whatever the password is by now.
UpdatePassword(h) ==
  /\ handler[h].at = "update"
  /\ LET id == handler[h].id
     IN  /\ users' = [users EXCEPT ![id].pwd = handler[h].new, ![id].changed = now]
         /\ passwords' = [passwords EXCEPT ![id] = @ \cup {<<handler[h].new, now>>}]
  /\ Ends(h)
  /\ UNCHANGED <<now, failures, tokens>>

Tick ==
  /\ now <= MaxTime
  /\ now' = now + 1
  /\ UNCHANGED <<users, failures, tokens, passwords, handler>>

Next ==
  \/ \E h \in Handlers :
       \/ \E name \in Names, pwd \in Passwords :
            StartRegister(h, name, pwd) \/ StartLogin(h, name, pwd)
       \/ \E current, new \in Passwords : StartChange(h, current, new)
       \/ Insert(h) \/ InsertRefused(h)
       \/ CountFailures(h) \/ RecordFailure(h) \/ ClearFailures(h) \/ SignToken(h)
       \/ FindOwn(h) \/ UpdatePassword(h)
  \/ Tick

Spec == Init /\ [][Next]_vars

----------------------------------------------------------------------------
(* Properties.                                                             *)

\* What a request holds at each point.
Registrations == [at : {"insert"}, name : Names, pwd : Passwords]
Logins        == [at : {"count", "verify", "sign"}, id : Ids, row : Row, pwd : Passwords]
Changes       == [at : {"find", "update"}, id : Ids, pwd : Passwords, new : Passwords]
Requests      == {Idle} \cup Registrations \cup Logins \cup Changes

\* The variables have their types; a request that is about an account keeps meeting
\* its row, and signs only with the password that it has verified.
TypeOK ==
  /\ now \in Time
  /\ users \in [Ids -> {NoRow} \cup Row]
  /\ failures \subseteq Attempt /\ IsFiniteSet(failures)
  /\ tokens \subseteq Token
  /\ passwords \in [Ids -> SUBSET (Passwords \X Time)]
  /\ handler \in [Handlers -> Requests]
  /\ \A h \in Handlers :
       /\ handler[h].at \notin {"idle", "insert"} => Known(handler[h].id)
       /\ handler[h].at = "sign" => handler[h].pwd = handler[h].row.pwd

\* A token that is accepted was obtained with a password that was set in the second
\* of the latest change: a change invalidates every token obtained with an older
\* password (AuthService.js:170-187), also one whose login was still under way; only
\* what was set in the same second is not told apart.
TokenSound ==
  \A token \in tokens :
    Accepts(token) => <<token.pwd, users[token.sub].changed>> \in passwords[token.sub]

\* Attempts that run at once may all pass the count before any of them is recorded:
\* the failures of a window exceed the limit by no more than these.
LockoutBound ==
  \A id \in Ids : Recent(id) <= MaxFailures - 1 + Cardinality(Handlers)

\* A name belongs to one account, although two registrations may both find it free.
OneAccountPerName ==
  \A a, b \in Ids : Known(a) /\ Known(b) /\ users[a].name = users[b].name => a = b
=============================================================================
