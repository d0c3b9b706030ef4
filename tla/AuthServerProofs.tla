-------------------------- MODULE AuthServerProofs --------------------------
(***************************************************************************)
(* Proofs about AuthServer, for any accounts, passwords and requests.       *)
(*                                                                         *)
(* TypeOK is inductive.  TokenSound needs what connects a token with the    *)
(* row it was made from: tokens and the rows that logins hold name a        *)
(* password and the second in which it was set, and no password was set     *)
(* after the stamp of the present row.  LockoutBound needs a count of what  *)
(* is still to come: the logins past their own count, each of which may     *)
(* record one more failure.                                                *)
(***************************************************************************)
EXTENDS AuthServer, FiniteSetTheorems, TLAPS

\* TypeOK in two parts: the tables and the requests.
TablesOK ==
  /\ now \in Time
  /\ users \in [Ids -> {NoRow} \cup Row]
  /\ failures \subseteq Attempt /\ IsFiniteSet(failures)
  /\ tokens \subseteq Token
  /\ passwords \in [Ids -> SUBSET (Passwords \X Time)]

RequestOK(r) ==
  /\ r \in Requests
  /\ r.at \notin {"idle", "insert"} => Known(r.id)
  /\ r.at = "sign" => r.pwd = r.row.pwd

LEMMA TypeParts ==
  /\ TypeOK <=> /\ TablesOK /\ handler \in [Handlers -> Requests]
                /\ \A h \in Handlers : RequestOK(handler[h])
  BY DEF TypeOK, TablesOK, RequestOK

\* A request is a registration, a login or a change, by the point it is at.
LEMMA RequestKinds ==
  ASSUME NEW r \in Requests
  PROVE  /\ r.at = "insert" => r \in Registrations
         /\ r.at \in {"count", "verify", "sign"} => r \in Logins
         /\ r.at \in {"find", "update"} => r \in Changes
  BY DEF Requests, Registrations, Logins, Changes, Idle

LEMMA IdleOK == RequestOK(Idle)
  BY DEF RequestOK, Requests, Idle

\* A step that leaves the accounts alone and gives one request a new value.
LEMMA OneRequest ==
  ASSUME TypeOK, NEW h \in Handlers, NEW r, RequestOK(r), TablesOK', users' = users,
         handler' = [handler EXCEPT ![h] = r]
  PROVE  TypeOK'
<1>1. \A g \in Handlers : RequestOK(handler[g])' <=> RequestOK(handler'[g])
  BY DEF RequestOK, Known
<1>2. \A g \in Handlers : RequestOK(handler'[g])
  BY TypeParts
<1>3. handler' \in [Handlers -> Requests]
  BY DEF TypeOK, RequestOK
<1> QED
  BY <1>1, <1>2, <1>3 DEF TypeOK, TablesOK, RequestOK

\* A step that ends a request; accounts may come or change, and none goes.
LEMMA RequestEnds ==
  ASSUME TypeOK, NEW h \in Handlers, TablesOK', \A id \in Ids : Known(id) => Known(id)',
         handler' = [handler EXCEPT ![h] = Idle]
  PROVE  TypeOK'
<1>0. TablesOK /\ \A g \in Handlers : RequestOK(handler[g])
  BY TypeParts
<1>1. \A g \in Handlers : RequestOK(handler[g])'
  <2> TAKE g \in Handlers
  <2>0. handler'[g] = Idle \/ handler'[g] = handler[g]
    BY DEF TypeOK
  <2>1. CASE handler'[g] = Idle
    BY <2>1 DEF RequestOK, Requests, Idle
  <2>2. CASE handler'[g] = handler[g] /\ handler[g].at \in {"idle", "insert"}
    BY <1>0, <2>2 DEF RequestOK
  <2>3. CASE handler'[g] = handler[g] /\ handler[g].at \notin {"idle", "insert"}
    <3>1. handler[g] \in Logins \cup Changes
      BY <1>0, <2>3 DEF RequestOK, Requests, Registrations, Idle
    <3>2. handler[g].id \in Ids
      BY <3>1 DEF Logins, Changes
    <3> QED
      BY <1>0, <2>3, <3>2 DEF RequestOK
  <2> QED
    BY <2>0, <2>1, <2>2, <2>3
<1>2. handler' \in [Handlers -> Requests]
  BY DEF TypeOK, Requests
<1> QED
  BY <1>1, <1>2 DEF TypeOK, TablesOK, RequestOK

LEMMA TypeInit == Init => TypeOK
  BY BoundsAssumption, FS_EmptySet DEF Init, TypeOK, Time, Idle, Requests

\* A failed attempt is a new row of its account, of this second.
LEMMA FailureIsAttempt ==
  ASSUME TablesOK, NEW id \in Ids
  PROVE  Failure(id) \in Attempt
<1> DEFINE S == {f \in failures : f.user = id /\ f.at = now}
<1>1. Cardinality(S) \in Nat
  BY FS_Subset, FS_CardinalityType DEF TablesOK
<1> QED BY <1>1 DEF Failure, Attempt, TablesOK

\* Each action keeps the types.
LEMMA TypeStep == TypeOK /\ [Next]_vars => TypeOK'
<1> SUFFICES ASSUME TypeOK, [Next]_vars PROVE TypeOK'
  OBVIOUS
<1>0. TablesOK /\ \A h \in Handlers : RequestOK(handler[h])
  BY TypeParts
<1>1. ASSUME NEW h \in Handlers, NEW name \in Names, NEW pwd \in Passwords,
             StartRegister(h, name, pwd)
      PROVE  TypeOK'
  <2>1. RequestOK([at |-> "insert", name |-> name, pwd |-> pwd])
    BY DEF RequestOK, Requests, Registrations
  <2> QED
    BY <1>0, <1>1, <2>1, OneRequest DEF StartRegister, Begins, TablesOK
<1>2. ASSUME NEW h \in Handlers, NEW name \in Names, NEW pwd \in Passwords,
             StartLogin(h, name, pwd)
      PROVE  TypeOK'
  <2>1. PICK id \in ById(name) :
          Begins(h, [at |-> "count", id |-> id, row |-> users[id], pwd |-> pwd])
    BY <1>2 DEF StartLogin
  <2>2. id \in Ids /\ Known(id) /\ users[id] \in Row
    BY <1>0 DEF ById, NoRow, Known, TablesOK
  <2>3. RequestOK([at |-> "count", id |-> id, row |-> users[id], pwd |-> pwd])
    BY <2>2 DEF RequestOK, Requests, Logins
  <2> QED
    BY <1>0, <1>2, <2>1, <2>3, OneRequest DEF StartLogin, Begins, TablesOK
<1>3. ASSUME NEW h \in Handlers, NEW current \in Passwords, NEW new \in Passwords,
             StartChange(h, current, new)
      PROVE  TypeOK'
  <2>1. PICK token \in tokens :
          /\ Accepts(token)
          /\ Begins(h, [at |-> "find", id |-> token.sub, pwd |-> current, new |-> new])
    BY <1>3 DEF StartChange
  <2>2. RequestOK([at |-> "find", id |-> token.sub, pwd |-> current, new |-> new])
    BY <1>0, <2>1 DEF RequestOK, Requests, Changes, Accepts, TablesOK, Token
  <2> QED
    BY <1>0, <1>3, <2>1, <2>2, OneRequest DEF StartChange, Begins, TablesOK
<1>4. ASSUME NEW h \in Handlers, Insert(h) PROVE TypeOK'
  <2>1. handler[h] \in Registrations
    BY <1>0, <1>4, RequestKinds DEF Insert, RequestOK
  <2>2. PICK id \in Ids :
          /\ ~Known(id)
          /\ users' = [users EXCEPT ![id] = [there |-> TRUE, name |-> handler[h].name,
                                             pwd |-> handler[h].pwd, changed |-> now]]
          /\ passwords' = [passwords EXCEPT ![id] = {<<handler[h].pwd, now>>}]
    BY <1>4 DEF Insert
  <2>3. [there |-> TRUE, name |-> handler[h].name, pwd |-> handler[h].pwd, changed |-> now]
          \in Row
    BY <1>0, <2>1 DEF Row, Registrations, TablesOK
  <2>4. TablesOK'
    BY <1>0, <1>4, <2>1, <2>2, <2>3 DEF Insert, TablesOK, Registrations
  <2>5. \A other \in Ids : Known(other) => Known(other)'
    BY <1>0, <2>2, <2>3 DEF Known, TablesOK
  <2> QED
    BY <1>4, <2>4, <2>5, RequestEnds DEF Insert, Ends
<1>5. ASSUME NEW h \in Handlers, InsertRefused(h) PROVE TypeOK'
  BY <1>0, <1>5, IdleOK, OneRequest DEF InsertRefused, Ends, TablesOK
<1>6. ASSUME NEW h \in Handlers, CountFailures(h) PROVE TypeOK'
  <2>1. handler[h] \in Logins
    BY <1>0, <1>6, RequestKinds DEF CountFailures, RequestOK
  <2>2. RequestOK([handler[h] EXCEPT !.at = "verify"])
    BY <1>0, <1>6, <2>1 DEF RequestOK, Requests, Logins, CountFailures
  <2> QED
    BY <1>0, <1>6, <2>2, IdleOK, OneRequest DEF CountFailures, Ends, TablesOK
<1>7. ASSUME NEW h \in Handlers, RecordFailure(h) PROVE TypeOK'
  <2>1. handler[h] \in Logins
    BY <1>0, <1>7, RequestKinds DEF RecordFailure, RequestOK
  <2>2. failures' \subseteq Attempt /\ IsFiniteSet(failures')
    BY <1>0, <1>7, <2>1, FailureIsAttempt, FS_AddElement
    DEF RecordFailure, TablesOK, Logins
  <2>3. TablesOK'
    BY <1>0, <1>7, <2>2 DEF RecordFailure, TablesOK
  <2> QED
    BY <1>7, <2>3, IdleOK, OneRequest DEF RecordFailure, Ends
<1>8. ASSUME NEW h \in Handlers, ClearFailures(h) PROVE TypeOK'
  <2>1. handler[h] \in Logins
    BY <1>0, <1>8, RequestKinds DEF ClearFailures, RequestOK
  <2>2. RequestOK([handler[h] EXCEPT !.at = "sign"])
    BY <1>0, <1>8, <2>1 DEF RequestOK, Requests, Logins, ClearFailures
  <2>3. TablesOK'
    <3>1. failures' \in SUBSET failures
      BY <1>8 DEF ClearFailures
    <3>2. failures' \subseteq Attempt /\ IsFiniteSet(failures')
      BY <1>0, <3>1, FS_Subset DEF TablesOK
    <3> QED BY <1>0, <1>8, <3>2 DEF ClearFailures, TablesOK
  <2> QED
    BY <1>8, <2>2, <2>3, OneRequest DEF ClearFailures
<1>9. ASSUME NEW h \in Handlers, SignToken(h) PROVE TypeOK'
  <2>1. handler[h] \in Logins
    BY <1>0, <1>9, RequestKinds DEF SignToken, RequestOK
  <2>2. [sub |-> handler[h].id, stamp |-> Stamp(handler[h].row), pwd |-> handler[h].pwd]
          \in Token
    BY <2>1 DEF Token, Logins, Row, Stamp
  <2>3. TablesOK'
    BY <1>0, <1>9, <2>2 DEF SignToken, TablesOK
  <2> QED
    BY <1>9, <2>3, IdleOK, OneRequest DEF SignToken, Ends
<1>10. ASSUME NEW h \in Handlers, FindOwn(h) PROVE TypeOK'
  <2>1. handler[h] \in Changes
    BY <1>0, <1>10, RequestKinds DEF FindOwn, RequestOK
  <2>2. RequestOK([handler[h] EXCEPT !.at = "update"])
    BY <1>0, <1>10, <2>1 DEF RequestOK, Requests, Changes, FindOwn
  <2> QED
    BY <1>0, <1>10, <2>2, IdleOK, OneRequest DEF FindOwn, Ends, TablesOK
<1>11. ASSUME NEW h \in Handlers, UpdatePassword(h) PROVE TypeOK'
  <2>1. handler[h] \in Changes
    BY <1>0, <1>11, RequestKinds DEF UpdatePassword, RequestOK
  <2> DEFINE id == handler[h].id
  <2>2. id \in Ids /\ handler[h].new \in Passwords /\ users[id] \in Row
    BY <1>0, <1>11, <2>1
    DEF UpdatePassword, RequestOK, Changes, Known, NoRow, TablesOK
  <2> DEFINE row == [users[id] EXCEPT !.pwd = handler[h].new, !.changed = now]
  <2>3. row \in Row /\ users' = [users EXCEPT ![id] = row]
    BY <1>0, <1>11, <2>2 DEF UpdatePassword, Row, TablesOK
  <2> HIDE DEF row
  <2>4. passwords' \in [Ids -> SUBSET (Passwords \X Time)]
    BY <1>0, <1>11, <2>2 DEF UpdatePassword, TablesOK
  <2>5. TablesOK'
    BY <1>0, <1>11, <2>2, <2>3, <2>4 DEF UpdatePassword, TablesOK
  <2>6. \A other \in Ids : Known(other) => Known(other)'
    BY <1>0, <2>2, <2>3 DEF Known, TablesOK, Row
  <2> QED
    BY <1>11, <2>5, <2>6, RequestEnds DEF UpdatePassword, Ends
<1>12. CASE Tick
  BY <1>12, BoundsAssumption DEF Tick, TypeOK, Time, Known
<1>13. CASE UNCHANGED vars
  BY <1>13 DEF vars, TypeOK, Known
<1> QED
  BY <1>1, <1>2, <1>3, <1>4, <1>5, <1>6, <1>7, <1>8, <1>9, <1>10, <1>11, <1>12, <1>13
  DEF Next

\* The variables of the account model keep their types, and a request that has passed
\* the check of a password signs with that password.
THEOREM TypeCorrect == Spec => []TypeOK
  BY TypeInit, TypeStep, PTL DEF Spec
----------------------------------------------------------------------------
(* Tokens.                                                                 *)

\* What a row, a login or a token knows of the passwords that account id has had:
\* the password it holds was set in the second it holds.
SetThen(id, pwd, time) == <<pwd, time>> \in passwords[id]

RowsRemember ==
  \A id \in Ids : Known(id) =>
    /\ SetThen(id, users[id].pwd, users[id].changed)
    /\ users[id].changed <= now
    /\ \A pwd \in Passwords, time \in Time :
         SetThen(id, pwd, time) => time <= users[id].changed

LoginsRemember ==
  \A h \in Handlers : handler[h].at \in {"count", "verify", "sign"} =>
    SetThen(handler[h].id, handler[h].row.pwd, handler[h].row.changed)

TokensRemember ==
  \A token \in tokens : Known(token.sub) /\ SetThen(token.sub, token.pwd, token.stamp)

Remembers == TypeOK /\ RowsRemember /\ LoginsRemember /\ TokensRemember

LEMMA TimesAreNumbers == Time \subseteq Nat
  BY BoundsAssumption DEF Time

LEMMA RowsAreDated ==
  ASSUME TablesOK, NEW id \in Ids, Known(id)
  PROVE  users[id] \in Row /\ users[id].changed \in Nat
<1>1. users[id] \in Row
  BY DEF TablesOK, Known, NoRow
<1>2. users[id].changed \in Time
  BY <1>1 DEF Row
<1> QED
  BY <1>1, <1>2, TimesAreNumbers

LEMMA RemembersInit == Init => Remembers
<1> SUFFICES ASSUME Init PROVE Remembers
  OBVIOUS
<1>1. TypeOK
  BY TypeInit
<1>2. RowsRemember /\ LoginsRemember /\ TokensRemember
  BY DEF Init, RowsRemember, LoginsRemember, TokensRemember, Known, NoRow, Idle
<1> QED
  BY <1>1, <1>2 DEF Remembers

\* A token that is accepted has the stamp of the row.
LEMMA RemembersSound == Remembers => TokenSound
<1> SUFFICES ASSUME Remembers, NEW token \in tokens, Accepts(token)
             PROVE  <<token.pwd, users[token.sub].changed>> \in passwords[token.sub]
  BY DEF TokenSound
<1>1. token \in Token /\ Known(token.sub) /\ SetThen(token.sub, token.pwd, token.stamp)
  BY DEF Remembers, TypeOK, TokensRemember
<1>2. users[token.sub] \in Row
  BY <1>1 DEF Remembers, TypeOK, Known, NoRow, Token
<1>3. token.stamp <= users[token.sub].changed
  BY <1>1 DEF Remembers, RowsRemember, Token
<1>4. token.stamp \in Nat /\ users[token.sub].changed \in Nat
  BY <1>1, <1>2, TimesAreNumbers DEF Token, Row
<1>5. token.stamp >= users[token.sub].changed
  BY DEF Accepts
<1>6. token.stamp = users[token.sub].changed
  BY <1>3, <1>4, <1>5
<1> QED
  BY <1>1, <1>6 DEF SetThen

LEMMA RemembersStep == Remembers /\ [Next]_vars => Remembers'
<1> SUFFICES ASSUME Remembers, [Next]_vars PROVE (RowsRemember /\ LoginsRemember /\ TokensRemember)'
  BY TypeStep DEF Remembers
<1>0. TypeOK /\ TablesOK /\ RowsRemember /\ LoginsRemember /\ TokensRemember
  BY TypeParts DEF Remembers
<1>a. \A h \in Handlers : RequestOK(handler[h])
  BY <1>0, TypeParts
\* Steps that leave the tables alone and do not begin a login.
<1>b. ASSUME NEW h \in Handlers, NEW r, handler' = [handler EXCEPT ![h] = r],
             r.at \in {"count", "verify", "sign"} =>
               SetThen(r.id, r.row.pwd, r.row.changed),
             UNCHANGED <<now, users, tokens, passwords>>
      PROVE  (RowsRemember /\ LoginsRemember /\ TokensRemember)'
  <2>1. RowsRemember' /\ TokensRemember'
    BY <1>0, <1>b DEF RowsRemember, TokensRemember, SetThen, Known
  <2>2. LoginsRemember'
    BY <1>0, <1>b DEF LoginsRemember, SetThen, TypeOK
  <2> QED
    BY <2>1, <2>2
<1>1. ASSUME NEW h \in Handlers, NEW name \in Names, NEW pwd \in Passwords,
             StartRegister(h, name, pwd)
      PROVE  (RowsRemember /\ LoginsRemember /\ TokensRemember)'
  BY <1>1, <1>b DEF StartRegister, Begins
<1>2. ASSUME NEW h \in Handlers, NEW name \in Names, NEW pwd \in Passwords,
             StartLogin(h, name, pwd)
      PROVE  (RowsRemember /\ LoginsRemember /\ TokensRemember)'
  <2>1. PICK id \in ById(name) :
          Begins(h, [at |-> "count", id |-> id, row |-> users[id], pwd |-> pwd])
    BY <1>2 DEF StartLogin
  <2>2. SetThen(id, users[id].pwd, users[id].changed)
    BY <1>0 DEF ById, RowsRemember
  <2> QED
    BY <1>2, <1>b, <2>1, <2>2 DEF StartLogin, Begins
<1>3. ASSUME NEW h \in Handlers, NEW current \in Passwords, NEW new \in Passwords,
             StartChange(h, current, new)
      PROVE  (RowsRemember /\ LoginsRemember /\ TokensRemember)'
  BY <1>3, <1>b DEF StartChange, Begins
<1>4. ASSUME NEW h \in Handlers, Insert(h)
      PROVE  (RowsRemember /\ LoginsRemember /\ TokensRemember)'
  <2>1. handler[h] \in Registrations
    BY <1>a, <1>4, RequestKinds DEF Insert, RequestOK
  <2>2. PICK id \in Ids :
          /\ ~Known(id)
          /\ users' = [users EXCEPT ![id] = [there |-> TRUE, name |-> handler[h].name,
                                             pwd |-> handler[h].pwd, changed |-> now]]
          /\ passwords' = [passwords EXCEPT ![id] = {<<handler[h].pwd, now>>}]
    BY <1>4 DEF Insert
  <2>3. \A other \in Ids : other # id => /\ users'[other] = users[other]
                                         /\ passwords'[other] = passwords[other]
    BY <1>0, <2>2 DEF TablesOK
  <2>4. users'[id].pwd = handler[h].pwd /\ users'[id].changed = now
        /\ passwords'[id] = {<<handler[h].pwd, now>>} /\ now \in Nat
    BY <1>0, <2>2, TimesAreNumbers DEF TablesOK
  <2>5. RowsRemember'
    BY <1>0, <1>4, <2>3, <2>4 DEF Insert, RowsRemember, SetThen, Known
  <2>6. LoginsRemember'
    <3> SUFFICES ASSUME NEW g \in Handlers, handler'[g].at \in {"count", "verify", "sign"}
                 PROVE  SetThen(handler[g].id, handler[g].row.pwd, handler[g].row.changed)'
      BY DEF LoginsRemember
    <3>1. handler'[g] = handler[g]
      BY <1>0, <1>4 DEF Insert, Ends, Idle, TypeOK
    <3>2. handler[g].id \in Ids /\ handler[g].id # id
      BY <1>a, <2>2, <3>1, RequestKinds DEF RequestOK, Logins
    <3> QED
      BY <1>0, <2>3, <3>1, <3>2 DEF LoginsRemember, SetThen
  <2>7. TokensRemember'
    BY <1>0, <1>4, <2>2, <2>3 DEF Insert, TokensRemember, SetThen, TablesOK, Token, Known
  <2> QED
    BY <2>5, <2>6, <2>7
<1>5. ASSUME NEW h \in Handlers, InsertRefused(h)
      PROVE  (RowsRemember /\ LoginsRemember /\ TokensRemember)'
  BY <1>5, <1>b DEF InsertRefused, Ends, Idle
<1>6. ASSUME NEW h \in Handlers, CountFailures(h)
      PROVE  (RowsRemember /\ LoginsRemember /\ TokensRemember)'
  <2> DEFINE r == [handler[h] EXCEPT !.at = "verify"]
  <2>1. r.id = handler[h].id /\ r.row = handler[h].row
    OBVIOUS
  <2>2. SetThen(r.id, r.row.pwd, r.row.changed)
    BY <1>0, <1>6, <2>1 DEF CountFailures, LoginsRemember
  <2>3. CASE Locked(handler[h].id)
    BY <1>6, <1>b, <2>3 DEF CountFailures, Ends, Idle
  <2>4. CASE ~Locked(handler[h].id)
    <3>1. handler' = [handler EXCEPT ![h] = r]
      BY <1>6, <2>4 DEF CountFailures
    <3> HIDE DEF r
    <3> QED
      BY <1>6, <1>b, <2>2, <3>1 DEF CountFailures
  <2> QED
    BY <2>3, <2>4
<1>7. ASSUME NEW h \in Handlers, RecordFailure(h)
      PROVE  (RowsRemember /\ LoginsRemember /\ TokensRemember)'
  BY <1>7, <1>b DEF RecordFailure, Ends, Idle
<1>8. ASSUME NEW h \in Handlers, ClearFailures(h)
      PROVE  (RowsRemember /\ LoginsRemember /\ TokensRemember)'
  <2> DEFINE r == [handler[h] EXCEPT !.at = "sign"]
  <2>1. r.id = handler[h].id /\ r.row = handler[h].row
    OBVIOUS
  <2>2. SetThen(r.id, r.row.pwd, r.row.changed)
    BY <1>0, <1>8, <2>1 DEF ClearFailures, LoginsRemember
  <2>3. handler' = [handler EXCEPT ![h] = r]
    BY <1>8 DEF ClearFailures
  <2> HIDE DEF r
  <2> QED
    BY <1>8, <1>b, <2>2, <2>3 DEF ClearFailures
<1>9. ASSUME NEW h \in Handlers, SignToken(h)
      PROVE  (RowsRemember /\ LoginsRemember /\ TokensRemember)'
  <2>1. Known(handler[h].id) /\ handler[h].pwd = handler[h].row.pwd
        /\ SetThen(handler[h].id, handler[h].row.pwd, handler[h].row.changed)
    BY <1>0, <1>a, <1>9 DEF SignToken, RequestOK, LoginsRemember
  <2>2. TokensRemember'
    <3> DEFINE new == [sub   |-> handler[h].id,
                       stamp |-> Stamp(handler[h].row),
                       pwd   |-> handler[h].pwd]
    <3>1. tokens' = tokens \cup {new} /\ UNCHANGED <<users, passwords>>
      BY <1>9 DEF SignToken
    <3>2. Known(new.sub) /\ SetThen(new.sub, new.pwd, new.stamp)
      BY <2>1 DEF Stamp
    <3> HIDE DEF new
    <3> QED
      BY <1>0, <3>1, <3>2 DEF TokensRemember, SetThen, Known
  <2>3. RowsRemember'
    BY <1>0, <1>9 DEF SignToken, RowsRemember, SetThen, Known
  <2>4. LoginsRemember'
    BY <1>0, <1>9 DEF SignToken, Ends, Idle, LoginsRemember, SetThen, TypeOK
  <2> QED
    BY <2>2, <2>3, <2>4
<1>10. ASSUME NEW h \in Handlers, FindOwn(h)
       PROVE  (RowsRemember /\ LoginsRemember /\ TokensRemember)'
  <2> DEFINE r == [handler[h] EXCEPT !.at = "update"]
  <2>1. r.at = "update"
    BY <1>a, <1>10, RequestKinds DEF FindOwn, RequestOK, Changes
  <2>2. CASE handler' = [handler EXCEPT ![h] = r]
    <3> HIDE DEF r
    <3> QED
      BY <1>10, <1>b, <2>1, <2>2 DEF FindOwn
  <2>3. CASE Ends(h)
    BY <1>10, <1>b, <2>3 DEF FindOwn, Ends, Idle
  <2> QED
    BY <1>10, <2>2, <2>3 DEF FindOwn
<1>11. ASSUME NEW h \in Handlers, UpdatePassword(h)
       PROVE  (RowsRemember /\ LoginsRemember /\ TokensRemember)'
  <2>1. handler[h] \in Changes
    BY <1>a, <1>11, RequestKinds DEF UpdatePassword, RequestOK
  <2>a. PICK id \in Ids : id = handler[h].id
    BY <2>1 DEF Changes
  <2>2. id \in Ids /\ Known(id) /\ handler[h].new \in Passwords
    BY <1>a, <1>11, <2>1, <2>a DEF UpdatePassword, RequestOK, Changes
  <2>3. /\ users'[id].pwd = handler[h].new /\ users'[id].changed = now
        /\ users'[id].there = users[id].there
        /\ passwords'[id] = passwords[id] \cup {<<handler[h].new, now>>}
        /\ now \in Nat
    <3>1. users[id] \in Row
      BY <1>0, <2>2, RowsAreDated
    <3>2. /\ users'[id] = [users[id] EXCEPT !.pwd = handler[h].new, !.changed = now]
          /\ passwords'[id] = passwords[id] \cup {<<handler[h].new, now>>}
      BY <1>0, <1>11, <2>a, <2>2 DEF UpdatePassword, TablesOK
    <3>3. now \in Nat
      BY <1>0, TimesAreNumbers DEF TablesOK
    <3> QED
      BY <3>1, <3>2, <3>3 DEF Row
  <2>4. \A other \in Ids : /\ passwords[other] \subseteq passwords'[other]
                           /\ Known(other) => Known(other)'
                           /\ other # id => /\ users'[other] = users[other]
                                            /\ passwords'[other] = passwords[other]
    BY <1>0, <1>11, <2>a, <2>2, <2>3 DEF UpdatePassword, TablesOK, Known
  <2>5. RowsRemember'
    <3>1. users[id].changed \in Nat /\ users[id].changed <= now
      BY <1>0, <2>2, RowsAreDated DEF RowsRemember
    <3>2. \A pwd \in Passwords, time \in Time : SetThen(id, pwd, time)' => time <= now
      <4> SUFFICES ASSUME NEW pwd \in Passwords, NEW time \in Time, SetThen(id, pwd, time)'
                   PROVE  time <= now
        OBVIOUS
      <4>1. SetThen(id, pwd, time) \/ time = now
        BY <2>3 DEF SetThen
      <4>2. SetThen(id, pwd, time) => time <= users[id].changed
        BY <1>0, <2>2 DEF RowsRemember
      <4>3. time \in Nat
        BY TimesAreNumbers
      <4> QED
        BY <2>3, <3>1, <4>1, <4>2, <4>3
    <3>3. now' = now
      BY <1>11 DEF UpdatePassword
    <3> SUFFICES ASSUME NEW other \in Ids, Known(other)'
                 PROVE  (/\ SetThen(other, users[other].pwd, users[other].changed)
                         /\ users[other].changed <= now
                         /\ \A pwd \in Passwords, time \in Time :
                              SetThen(other, pwd, time) => time <= users[other].changed)'
      BY DEF RowsRemember
    <3>4. CASE other = id
      BY <2>3, <3>2, <3>3, <3>4 DEF SetThen
    <3>5. CASE other # id
      <4>1. Known(other) /\ users'[other] = users[other] /\ passwords'[other] = passwords[other]
        BY <2>4, <3>5 DEF Known
      <4> QED
        BY <1>0, <3>3, <4>1 DEF RowsRemember, SetThen
    <3> QED
      BY <3>4, <3>5
  <2>6. LoginsRemember'
    <3> SUFFICES ASSUME NEW g \in Handlers, handler'[g].at \in {"count", "verify", "sign"}
                 PROVE  SetThen(handler[g].id, handler[g].row.pwd, handler[g].row.changed)'
      BY DEF LoginsRemember
    <3>1. handler'[g] = handler[g]
      BY <1>0, <1>11 DEF UpdatePassword, Ends, Idle, TypeOK
    <3>2. handler[g].id \in Ids
      BY <1>a, <3>1, RequestKinds DEF RequestOK, Logins
    <3> QED
      BY <1>0, <2>4, <3>1, <3>2 DEF LoginsRemember, SetThen
  <2>7. TokensRemember'
    BY <1>0, <1>11, <2>4 DEF UpdatePassword, TokensRemember, SetThen, TablesOK, Token
  <2> QED
    BY <2>5, <2>6, <2>7
<1>12. CASE Tick
  <2>1. now \in Nat /\ now' = now + 1
    BY <1>0, <1>12, TimesAreNumbers DEF Tick, TablesOK
  <2>2. LoginsRemember' /\ TokensRemember'
    BY <1>0, <1>12 DEF Tick, LoginsRemember, TokensRemember, SetThen, Known
  <2>3. \A id \in Ids : Known(id) => users[id].changed \in Nat
    BY <1>0, RowsAreDated
  <2>4. RowsRemember'
    BY <1>0, <1>12, <2>1, <2>3 DEF Tick, RowsRemember, SetThen, Known
  <2> QED
    BY <2>2, <2>4
<1>13. CASE UNCHANGED vars
  BY <1>0, <1>13
  DEF vars, RowsRemember, LoginsRemember, TokensRemember, SetThen, Known
<1> QED
  BY <1>1, <1>2, <1>3, <1>4, <1>5, <1>6, <1>7, <1>8, <1>9, <1>10, <1>11, <1>12, <1>13
  DEF Next

\* A change of the password invalidates every token obtained with a password of an
\* earlier second, also one that is signed after the change by a login that read the
\* row before it.
THEOREM TokensAreSound == Spec => []TokenSound
  BY RemembersInit, RemembersStep, RemembersSound, PTL DEF Spec

----------------------------------------------------------------------------
(* The lock-out.                                                           *)

\* The logins that have passed the count of account id and have yet to verify.
Verifying(id) == {h \in Handlers : handler[h].at = "verify" /\ handler[h].id = id}

\* Every failure that may still be recorded has its place under the bound: what is
\* recorded and what is about to be stay below it together.
RoomForEach ==
  \A id \in Ids :
    Recent(id) + Cardinality(Verifying(id)) <= MaxFailures - 1 + Cardinality(Handlers)

LEMMA CountsAreNumbers ==
  ASSUME TablesOK, NEW id \in Ids
  PROVE  /\ IsFiniteSet(RecentFailures(id)) /\ Recent(id) \in Nat
         /\ IsFiniteSet(Verifying(id)) /\ Cardinality(Verifying(id)) \in Nat
         /\ Cardinality(Verifying(id)) <= Cardinality(Handlers)
         /\ Cardinality(Handlers) \in Nat /\ MaxFailures \in Nat /\ MaxFailures >= 1
<1>1. IsFiniteSet(RecentFailures(id)) /\ Recent(id) \in Nat
  <2>1. RecentFailures(id) \in SUBSET failures
    BY DEF RecentFailures
  <2> QED BY <2>1, FS_Subset, FS_CardinalityType DEF TablesOK, Recent
<1>2. /\ IsFiniteSet(Verifying(id)) /\ Cardinality(Verifying(id)) \in Nat
      /\ Cardinality(Verifying(id)) <= Cardinality(Handlers)
      /\ Cardinality(Handlers) \in Nat
  <2>1. Verifying(id) \in SUBSET Handlers
    BY DEF Verifying
  <2> QED BY <2>1, FS_Subset, FS_CardinalityType, BoundsAssumption
<1>3. MaxFailures \in Nat /\ MaxFailures >= 1
  BY BoundsAssumption
<1> QED BY <1>1, <1>2, <1>3

LEMMA CountsStayNumbers ==
  ASSUME TablesOK', NEW id \in Ids
  PROVE  /\ Recent(id)' \in Nat
         /\ Cardinality(Verifying(id)') \in Nat
         /\ Cardinality(Verifying(id)') <= Cardinality(Handlers)
<1>1. RecentFailures(id)' \in SUBSET failures' /\ IsFiniteSet(failures')
  BY DEF RecentFailures, TablesOK
<1>2. Verifying(id)' \in SUBSET Handlers
  BY DEF Verifying
<1>3. Recent(id)' \in Nat
  BY <1>1, FS_Subset, FS_CardinalityType DEF Recent
<1> QED BY <1>2, <1>3, FS_Subset, FS_CardinalityType, BoundsAssumption

LEMMA RoomSuffices == TypeOK /\ RoomForEach => LockoutBound
<1> SUFFICES ASSUME TypeOK, RoomForEach, NEW id \in Ids
             PROVE  Recent(id) <= MaxFailures - 1 + Cardinality(Handlers)
  BY DEF LockoutBound
<1>1. Recent(id) + Cardinality(Verifying(id)) <= MaxFailures - 1 + Cardinality(Handlers)
  BY DEF RoomForEach
<1> QED BY <1>1, CountsAreNumbers, TypeParts

LEMMA RoomInit == Init => RoomForEach
<1> SUFFICES ASSUME Init, NEW id \in Ids
             PROVE  Recent(id) + Cardinality(Verifying(id))
                      <= MaxFailures - 1 + Cardinality(Handlers)
  BY DEF RoomForEach
<1>1. TablesOK
  BY TypeInit, TypeParts
<1>2. RecentFailures(id) = {} /\ Verifying(id) = {}
  BY DEF Init, RecentFailures, Verifying, Idle
<1>3. Recent(id) = 0 /\ Cardinality(Verifying(id)) = 0
  BY <1>2, FS_EmptySet DEF Recent
<1> QED BY <1>1, <1>3, CountsAreNumbers

\* A step with no new failure of id and no new login past its count keeps the room.
LEMMA RoomKept ==
  ASSUME TablesOK, TablesOK', NEW id \in Ids,
         RecentFailures(id)' \subseteq RecentFailures(id),
         Verifying(id)' \subseteq Verifying(id),
         Recent(id) + Cardinality(Verifying(id)) <= MaxFailures - 1 + Cardinality(Handlers)
  PROVE  (Recent(id) + Cardinality(Verifying(id)))'
           <= MaxFailures - 1 + Cardinality(Handlers)
<1>1. Recent(id)' <= Recent(id)
  BY CountsAreNumbers, FS_Subset DEF Recent
<1>2. Cardinality(Verifying(id)') <= Cardinality(Verifying(id))
  BY CountsAreNumbers, FS_Subset
<1>3. Recent(id)' \in Nat /\ Cardinality(Verifying(id)') \in Nat
  BY CountsStayNumbers
<1> QED BY <1>1, <1>2, <1>3, CountsAreNumbers

LEMMA RoomStep == TypeOK /\ RoomForEach /\ [Next]_vars => RoomForEach'
<1> SUFFICES ASSUME TypeOK, RoomForEach, [Next]_vars, NEW id \in Ids
             PROVE  (Recent(id) + Cardinality(Verifying(id)))'
                      <= MaxFailures - 1 + Cardinality(Handlers)
  BY DEF RoomForEach
<1>0. /\ TablesOK /\ TablesOK' /\ handler \in [Handlers -> Requests]
      /\ \A h \in Handlers : RequestOK(handler[h])
  BY TypeParts, TypeStep DEF TypeOK, TablesOK
<1>a. Recent(id) + Cardinality(Verifying(id)) <= MaxFailures - 1 + Cardinality(Handlers)
  BY DEF RoomForEach
\* A request that moves, and not to its verification, leaves the failures or drops some.
<1>b. ASSUME NEW h \in Handlers, NEW r, handler' = [handler EXCEPT ![h] = r],
             r.at # "verify", failures' \subseteq failures, now' = now
      PROVE  (Recent(id) + Cardinality(Verifying(id)))'
               <= MaxFailures - 1 + Cardinality(Handlers)
  <2>1. RecentFailures(id)' \subseteq RecentFailures(id)
    BY <1>b DEF RecentFailures
  <2>2. Verifying(id)' \subseteq Verifying(id)
    BY <1>0, <1>b DEF Verifying
  <2> QED BY <1>0, <1>a, <2>1, <2>2, RoomKept
<1>1. ASSUME NEW h \in Handlers, CountFailures(h)
      PROVE  (Recent(id) + Cardinality(Verifying(id)))'
               <= MaxFailures - 1 + Cardinality(Handlers)
  <2>1. CASE Ends(h)
    <3>1. Idle.at # "verify" /\ handler' = [handler EXCEPT ![h] = Idle]
      BY <2>1 DEF Ends, Idle
    <3>2. failures' \subseteq failures /\ now' = now
      BY <1>1 DEF CountFailures
    <3> QED BY <1>b, <3>1, <3>2
  <2>2. CASE ~Locked(handler[h].id) /\ handler[h].id = id
    <3>1. Recent(id) < MaxFailures
      BY <1>0, <2>2, CountsAreNumbers DEF Locked
    <3>2. Recent(id)' = Recent(id)
      BY <1>1 DEF CountFailures, Recent, RecentFailures
    <3>3. /\ Cardinality(Verifying(id)') <= Cardinality(Handlers)
          /\ Cardinality(Verifying(id)') \in Nat
      BY <1>0, CountsStayNumbers
    <3> QED BY <1>0, <3>1, <3>2, <3>3, CountsAreNumbers
  <2>3. CASE handler' = [handler EXCEPT ![h].at = "verify"] /\ handler[h].id # id
    <3>1. RecentFailures(id)' \subseteq RecentFailures(id)
      BY <1>1 DEF CountFailures, RecentFailures
    <3>2. handler[h] \in Logins
      BY <1>0, <1>1, RequestKinds DEF CountFailures, RequestOK
    <3>3. handler'[h].id # id
      BY <1>0, <2>3, <3>2 DEF Logins
    <3>4. Verifying(id)' \subseteq Verifying(id)
      BY <1>0, <2>3, <3>3 DEF Verifying
    <3> QED BY <1>0, <1>a, <3>1, <3>4, RoomKept
  <2> QED BY <1>1, <2>1, <2>2, <2>3 DEF CountFailures
<1>2. ASSUME NEW h \in Handlers, RecordFailure(h)
      PROVE  (Recent(id) + Cardinality(Verifying(id)))'
               <= MaxFailures - 1 + Cardinality(Handlers)
  <2>1. CASE handler[h].id # id
    <3>1. RecentFailures(id)' \subseteq RecentFailures(id)
      BY <1>2, <2>1 DEF RecordFailure, RecentFailures, Failure
    <3>2. Verifying(id)' \subseteq Verifying(id)
      BY <1>0, <1>2 DEF RecordFailure, Ends, Idle, Verifying
    <3> QED BY <1>0, <1>a, <3>1, <3>2, RoomKept
  <2>2. CASE handler[h].id = id
    <3>1. h \in Verifying(id) /\ Verifying(id)' = Verifying(id) \ {h}
      BY <1>0, <1>2, <2>2 DEF RecordFailure, Ends, Idle, Verifying
    <3>2. Cardinality(Verifying(id)') = Cardinality(Verifying(id)) - 1
      BY <1>0, <3>1, CountsAreNumbers, FS_RemoveElement
    <3>3. RecentFailures(id)' \subseteq RecentFailures(id) \cup {Failure(id)}
      BY <1>2, <2>2 DEF RecordFailure, RecentFailures
    <3>4. Recent(id)' <= Recent(id) + 1
      <4> DEFINE S == RecentFailures(id) \cup {Failure(id)}
      <4>0. IsFiniteSet(RecentFailures(id)) /\ Cardinality(RecentFailures(id)) \in Nat
        BY <1>0, CountsAreNumbers DEF Recent
      <4>1. IsFiniteSet(S) /\ Cardinality(S) <= Cardinality(RecentFailures(id)) + 1
        <5> DEFINE R == RecentFailures(id)
        <5>1. /\ IsFiniteSet(R \cup {Failure(id)})
              /\ Cardinality(R \cup {Failure(id)})
                   = IF Failure(id) \in R THEN Cardinality(R) ELSE Cardinality(R) + 1
          <6> HIDE DEF R
          <6>1. IsFiniteSet(R)
            BY <4>0 DEF R
          <6> QED BY <6>1, FS_AddElement
        <5> QED BY <4>0, <5>1
      <4>2. Cardinality(RecentFailures(id)') <= Cardinality(S)
        <5>1. RecentFailures(id)' \in SUBSET S /\ IsFiniteSet(S)
          BY <3>3, <4>1
        <5> HIDE DEF S
        <5> QED BY <5>1, FS_Subset
      <4>3. Cardinality(S) \in Nat
        BY <4>1, FS_CardinalityType
      <4>4. Cardinality(RecentFailures(id)') \in Nat
        BY <1>0, CountsStayNumbers DEF Recent
      <4> HIDE DEF S
      <4> QED BY <4>0, <4>1, <4>2, <4>3, <4>4 DEF Recent
    <3>5. Recent(id)' \in Nat /\ Cardinality(Verifying(id)') \in Nat
      BY <1>0, CountsStayNumbers
    <3> QED BY <1>0, <1>a, <3>2, <3>4, <3>5, CountsAreNumbers
  <2> QED BY <2>1, <2>2
<1>3. ASSUME NEW h \in Handlers, ClearFailures(h)
      PROVE  (Recent(id) + Cardinality(Verifying(id)))'
               <= MaxFailures - 1 + Cardinality(Handlers)
  <2> DEFINE r == [handler[h] EXCEPT !.at = "sign"]
  <2>1. handler[h] \in Logins
    BY <1>0, <1>3, RequestKinds DEF ClearFailures, RequestOK
  <2>2. r.at # "verify" /\ handler' = [handler EXCEPT ![h] = r]
    BY <1>3, <2>1 DEF ClearFailures, Logins
  <2> HIDE DEF r
  <2> QED BY <1>3, <1>b, <2>2 DEF ClearFailures
<1>4. ASSUME NEW h \in Handlers, FindOwn(h)
      PROVE  (Recent(id) + Cardinality(Verifying(id)))'
               <= MaxFailures - 1 + Cardinality(Handlers)
  <2> DEFINE r == [handler[h] EXCEPT !.at = "update"]
  <2>1. handler[h] \in Changes
    BY <1>0, <1>4, RequestKinds DEF FindOwn, RequestOK
  <2>2. r.at # "verify"
    BY <2>1 DEF Changes
  <2>3. CASE handler' = [handler EXCEPT ![h] = r]
    <3> HIDE DEF r
    <3> QED BY <1>4, <1>b, <2>2, <2>3 DEF FindOwn
  <2> QED BY <1>4, <1>b, <2>3 DEF FindOwn, Ends, Idle
<1>5. ASSUME NEW h \in Handlers,
             \/ \E name \in Names, pwd \in Passwords :
                  StartRegister(h, name, pwd) \/ StartLogin(h, name, pwd)
             \/ \E current, new \in Passwords : StartChange(h, current, new)
      PROVE  (Recent(id) + Cardinality(Verifying(id)))'
               <= MaxFailures - 1 + Cardinality(Handlers)
  <2>1. /\ \E r : r.at # "verify" /\ handler' = [handler EXCEPT ![h] = r]
        /\ UNCHANGED <<failures, now>>
    BY <1>5 DEF StartRegister, StartLogin, StartChange, Begins
  <2> QED BY <1>b, <2>1
<1>6. ASSUME NEW h \in Handlers,
             Insert(h) \/ InsertRefused(h) \/ SignToken(h) \/ UpdatePassword(h)
      PROVE  (Recent(id) + Cardinality(Verifying(id)))'
               <= MaxFailures - 1 + Cardinality(Handlers)
  BY <1>6, <1>b DEF Insert, InsertRefused, SignToken, UpdatePassword, Ends, Idle
\* What was outside the window stays outside as time passes.
<1>7. CASE Tick
  <2>1. RecentFailures(id)' \subseteq RecentFailures(id)
    <3> SUFFICES ASSUME NEW f \in failures, f.user = id, f.at + Window >= now'
                 PROVE  f.at + Window >= now
      BY <1>7 DEF Tick, RecentFailures
    <3>1. f.at \in Nat /\ now \in Nat /\ now' = now + 1 /\ Window \in Nat
      BY <1>0, <1>7, TimesAreNumbers, BoundsAssumption DEF Tick, TablesOK, Attempt
    <3> QED BY <3>1
  <2>2. Verifying(id)' \subseteq Verifying(id)
    BY <1>7 DEF Tick, Verifying
  <2> QED BY <1>0, <1>a, <2>1, <2>2, RoomKept
<1>8. CASE UNCHANGED vars
  BY <1>0, <1>a, <1>8, RoomKept DEF vars, RecentFailures, Verifying
<1> QED
  BY <1>1, <1>2, <1>3, <1>4, <1>5, <1>6, <1>7, <1>8 DEF Next

\* Logins that run at once may all pass the count before one of them is recorded; the
\* failures of a window exceed the limit by no more than the requests under way.
THEOREM LockoutIsBounded == Spec => []LockoutBound
<1>1. Init => TypeOK /\ RoomForEach
  BY TypeInit, RoomInit
<1>2. TypeOK /\ RoomForEach /\ [Next]_vars => (TypeOK /\ RoomForEach)'
  BY TypeStep, RoomStep
<1> QED
  BY <1>1, <1>2, RoomSuffices, PTL DEF Spec

----------------------------------------------------------------------------
(* Names.                                                                  *)

\* The unique index alone keeps names apart: the insertion is the only step that
\* gives an account its name.
THEOREM NamesAreUnique == Spec => []OneAccountPerName
<1> DEFINE IInv == TypeOK /\ OneAccountPerName
<1>1. Init => IInv
  BY TypeInit DEF Init, OneAccountPerName, Known, NoRow
<1>2. IInv /\ [Next]_vars => IInv'
  <2> SUFFICES ASSUME TypeOK, OneAccountPerName, [Next]_vars PROVE OneAccountPerName'
    BY TypeStep
  <2>1. ASSUME NEW h \in Handlers, Insert(h) PROVE OneAccountPerName'
    BY <2>1 DEF Insert, Free, ById, OneAccountPerName, Known, TypeOK
  <2>2. ASSUME NEW h \in Handlers, UpdatePassword(h) PROVE OneAccountPerName'
    <3>1. \A id \in Ids : /\ Known(id)' => Known(id)
                          /\ Known(id)' => users'[id].name = users[id].name
      BY <2>2 DEF UpdatePassword, Known, TypeOK, Row, NoRow
    <3> QED
      BY <3>1 DEF OneAccountPerName
  <2>3. CASE UNCHANGED users
    BY <2>3 DEF OneAccountPerName, Known
  <2> QED
    BY <2>1, <2>2, <2>3
    DEF Next, vars, StartRegister, StartLogin, StartChange, InsertRefused, CountFailures,
        RecordFailure, ClearFailures, SignToken, FindOwn, Tick
<1>3. IInv => OneAccountPerName
  OBVIOUS
<1> QED
  BY <1>1, <1>2, <1>3, PTL DEF Spec
=============================================================================
