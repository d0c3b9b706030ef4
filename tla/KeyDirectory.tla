---------------------------- MODULE KeyDirectory ----------------------------
(***************************************************************************)
(* The server's public-key directory: KeyService.publishKey and the        *)
(* transaction KeyRepository.publishKey runs for it, statement by          *)
(* statement, with the connection pool and the row locks that concurrent   *)
(* publishes compete for.  A transaction's writes reach the tables at its  *)
(* COMMIT and are dropped by its ROLLBACK.  The UNIQUE indexes of the two   *)
(* tables are left out: HistoryComplete and AnswersDurable hold without     *)
(* them, so they are never what stops a publish.                           *)
(*                                                                         *)
(* Operators named Faulty... are plausible slips in the code; each makes    *)
(* one of the properties below fail and none is part of Spec.              *)
(***************************************************************************)
EXTENDS Naturals, FiniteSets, Sequences

CONSTANTS
  Slots,     (* (user_id, key_type) pairs                                   *)
  Keys,      (* public keys                                                 *)
  Requests,  (* publish requests, each handled once                         *)
  NoKey,     (* the key of a slot that has no row                           *)
  PoolSize   (* connectionLimit of the MySQL pool                           *)

ASSUME NoKeyAssumption == NoKey \notin Keys
ASSUME PoolAssumption  == PoolSize \in Nat \ {0}

VARIABLES
  publicKeys,  (* committed rows of public_keys, version 0 when there is none *)
  keyHistory,  (* committed rows of public_key_history                        *)
  locks,       (* locks[s]: transactions that hold the row or gap lock of s   *)
  pc,          (* pc[r]: the last step handler r completed                    *)
  req,         (* req[r]: slot, key and acknowledgement of request r          *)
  seen,        (* seen[r]: the row SELECT ... FOR UPDATE returned to r        *)
  reply        (* reply[r]: what the caller of r was told                     *)

tables == <<publicKeys, keyHistory>>
vars   == <<publicKeys, keyHistory, locks, pc, req, seen, reply>>

NoRow    == [key |-> NoKey, version |-> 0]
Row      == [key : Keys, version : Nat \ {0}]
Request  == [slot : Slots, key : Keys, ack : BOOLEAN]
Pending  == [status |-> "pending", version |-> 0]
Failed   == [status |-> "failed",  version |-> 0]
Statuses == {"pending", "pinned", "unchanged", "rotation_required", "rotated", "failed"}

InTransaction == {"begun", "selected", "archived", "updated", "inserted"}
Steps == InTransaction \cup {"idle", "queued", "done", "lost"}

Slot(r) == req[r].slot

Init ==
  /\ publicKeys = [s \in Slots |-> NoRow]
  /\ keyHistory = [s \in Slots |-> {}]
  /\ locks = [s \in Slots |-> {}]
  /\ pc = [r \in Requests |-> "idle"]
  /\ req \in [Requests -> Request]
  /\ seen = [r \in Requests |-> NoRow]
  /\ reply = [r \in Requests |-> Pending]

----------------------------------------------------------------------------
(* Steps of one handler.                                                   *)

Goto(r, from, to) ==
  /\ pc[r] = from
  /\ pc' = [pc EXCEPT ![r] = to]

FaultyKeepsLocks(r) == locks

Release(r) == [s \in Slots |-> locks[s] \ {r}]

Answer(r, status, version) ==
  /\ reply' = [reply EXCEPT ![r] = [status |-> status, version |-> version]]
  /\ locks' = Release(r)

\* The request reaches the handler, which asks the pool for a connection.
Receive(r) ==
  /\ Goto(r, "idle", "queued")
  /\ UNCHANGED <<publicKeys, keyHistory, locks, req, seen, reply>>

\* getConnection() waits while every connection is taken; beginTransaction().
Begin(r) ==
  /\ Cardinality({q \in Requests : pc[q] \in InTransaction}) < PoolSize
  /\ Goto(r, "queued", "begun")
  /\ UNCHANGED <<publicKeys, keyHistory, locks, req, seen, reply>>

\* A plain SELECT instead of SELECT ... FOR UPDATE.
FaultyPlainSelect(s) == TRUE

\* An existing row is locked exclusively.  A missing row leaves a gap lock,
\* which only an uncommitted INSERT into the gap excludes.
LockGranted(s) ==
  IF publicKeys[s].version > 0
    THEN locks[s] = {}
    ELSE \A q \in locks[s] : pc[q] # "inserted"

SelectForUpdate(r) ==
  /\ Goto(r, "begun", "selected")
  /\ LockGranted(Slot(r))
  /\ locks' = [locks EXCEPT ![Slot(r)] = @ \cup {r}]
  /\ seen' = [seen EXCEPT ![r] = publicKeys[Slot(r)]]
  /\ UNCHANGED <<publicKeys, keyHistory, req, reply>>

\* No row: the INSERT waits until no other transaction holds the gap.
InsertFirst(r) ==
  /\ seen[r] = NoRow
  /\ locks[Slot(r)] = {r}
  /\ Goto(r, "selected", "inserted")
  /\ UNCHANGED <<publicKeys, keyHistory, locks, req, seen, reply>>

CommitUnchanged(r) ==
  /\ seen[r].key = req[r].key
  /\ Goto(r, "selected", "done")
  /\ Answer(r, "unchanged", seen[r].version)
  /\ UNCHANGED <<publicKeys, keyHistory, req, seen>>

\* Answered with a ConflictError by KeyService.
CommitRefused(r) ==
  /\ seen[r] # NoRow
  /\ seen[r].key # req[r].key
  /\ ~req[r].ack
  /\ Goto(r, "selected", "done")
  /\ Answer(r, "rotation_required", seen[r].version)
  /\ UNCHANGED <<publicKeys, keyHistory, req, seen>>

FaultySameVersion(r) == seen[r].version

\* The version the UPDATE writes.
NewVersion(r) == seen[r].version + 1

\* The acknowledgement is not looked at.
FaultyUnaskedRotation(r) ==
  /\ seen[r] # NoRow
  /\ seen[r].key # req[r].key
  /\ Goto(r, "selected", "archived")
  /\ UNCHANGED <<publicKeys, keyHistory, locks, req, seen, reply>>

\* Publishing the pinned key again is taken for a rotation.
FaultyRepublishRotates(r) ==
  /\ seen[r] # NoRow
  /\ req[r].ack
  /\ Goto(r, "selected", "archived")
  /\ UNCHANGED <<publicKeys, keyHistory, locks, req, seen, reply>>

\* No transaction: the history row is committed on its own.
FaultyAutocommit(r) ==
  /\ seen[r] # NoRow
  /\ seen[r].key # req[r].key
  /\ req[r].ack
  /\ Goto(r, "selected", "archived")
  /\ keyHistory' = [keyHistory EXCEPT ![Slot(r)] = @ \cup {seen[r]}]
  /\ UNCHANGED <<publicKeys, locks, req, seen, reply>>

Archive(r) ==
  /\ seen[r] # NoRow
  /\ seen[r].key # req[r].key
  /\ req[r].ack
  /\ Goto(r, "selected", "archived")
  /\ UNCHANGED <<publicKeys, keyHistory, locks, req, seen, reply>>

Update(r) ==
  /\ Goto(r, "archived", "updated")
  /\ UNCHANGED <<publicKeys, keyHistory, locks, req, seen, reply>>

\* What COMMIT makes visible of the transaction's writes.
ApplyWrites(r) ==
  /\ publicKeys' = [publicKeys EXCEPT ![Slot(r)] =
                      [key |-> req[r].key, version |-> NewVersion(r)]]
  /\ keyHistory' = IF pc[r] = "updated"
                     THEN [keyHistory EXCEPT ![Slot(r)] = @ \cup {seen[r]}]
                     ELSE keyHistory

Commit(r) ==
  /\ \/ Goto(r, "inserted", "done") /\ Answer(r, "pinned", 1)
     \/ Goto(r, "updated", "done") /\ Answer(r, "rotated", NewVersion(r))
  /\ ApplyWrites(r)
  /\ UNCHANGED <<req, seen>>

\* The COMMIT takes effect and the connection dies before its answer: the
\* catch block rolls back what is no longer there and the caller gets a 500.
CommitAnswerLost(r) ==
  /\ Goto(r, "inserted", "done") \/ Goto(r, "updated", "done")
  /\ ApplyWrites(r)
  /\ Answer(r, "failed", 0)
  /\ UNCHANGED <<req, seen>>

\* A statement throws: rollback(), release(), 500.
Rollback(r) ==
  /\ pc[r] \in InTransaction
  /\ pc' = [pc EXCEPT ![r] = "done"]
  /\ Answer(r, "failed", 0)
  /\ UNCHANGED <<publicKeys, keyHistory, req, seen>>

WaitsToInsert(r) == pc[r] = "selected" /\ seen[r] = NoRow

\* Two transactions hold the same gap and both wait to insert into it: the
\* server aborts one of them.
DeadlockVictim(r) ==
  /\ WaitsToInsert(r)
  /\ \E q \in locks[Slot(r)] \ {r} : WaitsToInsert(q)
  /\ Rollback(r)

\* The backend process dies: open transactions roll back, callers hear nothing.
Crash ==
  /\ \E r \in Requests : pc[r] \in InTransaction
  /\ pc' = [r \in Requests |->
              IF pc[r] \in InTransaction \cup {"queued"} THEN "lost" ELSE pc[r]]
  /\ locks' = [s \in Slots |-> {}]
  /\ UNCHANGED <<publicKeys, keyHistory, req, seen, reply>>

HandlerStep(r) ==
  \/ Begin(r)
  \/ SelectForUpdate(r)
  \/ InsertFirst(r)
  \/ CommitUnchanged(r)
  \/ CommitRefused(r)
  \/ Archive(r)
  \/ Update(r)
  \/ Commit(r)
  \/ DeadlockVictim(r)

Next ==
  \/ \E r \in Requests :
       \/ Receive(r)
       \/ HandlerStep(r)
       \/ CommitAnswerLost(r)
       \/ Rollback(r)
  \/ Crash

\* Node keeps running a handler it has started and MySQL keeps answering it,
\* deadlock detection included.  No client, failure or crash is owed a step.
Fairness == \A r \in Requests : WF_vars(HandlerStep(r))

Spec == Init /\ [][Next]_vars /\ Fairness

----------------------------------------------------------------------------
(* Properties.                                                             *)

\* Every variable holds a value of its kind.
TypeOK ==
  /\ publicKeys \in [Slots -> Row \cup {NoRow}]
  /\ keyHistory \in [Slots -> SUBSET Row]
  /\ locks \in [Slots -> SUBSET Requests]
  /\ pc \in [Requests -> Steps]
  /\ req \in [Requests -> Request]
  /\ seen \in [Requests -> Row \cup {NoRow}]
  /\ reply \in [Requests -> [status : Statuses, version : Nat]]

\* The audit trail has no hole and no ambiguity: the history of a slot holds
\* exactly one row for every version before the current one, whatever
\* publishes ran at the same time and wherever they failed
\* (KeyRepository.publishKey, UNIQUE uniq_history_version).
HistoryComplete ==
  \A s \in Slots :
    /\ {h.version : h \in keyHistory[s]} = 1 .. (publicKeys[s].version - 1)
    /\ \A g, h \in keyHistory[s] : g.version = h.version => g = h

\* A pinned key is never silently overwritten: when the current key changes,
\* the step that changes it archives the old row, moves the version by one and
\* carries a key some caller acknowledged as a rotation (KeyService.publishKey).
NoSilentSwap ==
  [][\A s \in Slots :
       publicKeys[s] # NoRow /\ publicKeys'[s].key # publicKeys[s].key =>
         /\ publicKeys[s] \in keyHistory'[s]
         /\ publicKeys'[s].version = publicKeys[s].version + 1
         /\ \E r \in Requests :
              /\ Slot(r) = s
              /\ req[r].key = publicKeys'[s].key
              /\ req[r].ack]_vars

\* What a caller was told stays true: a key reported as pinned or rotated to
\* version v is from then on the key of version v, current or archived, so no
\* two callers can be given the same version for different keys.
AnswersDurable ==
  \A r \in Requests :
    reply[r].status \in {"pinned", "rotated"} =>
      [key |-> req[r].key, version |-> reply[r].version]
        \in keyHistory[Slot(r)] \cup {publicKeys[Slot(r)]}

\* Every publish that reaches the server is answered, unless the process dies:
\* no order of lock and connection waits leaves a handler stuck
\* (waitForConnections pool, row locks, gap-lock deadlock).
EveryPublishAnswered ==
  \A r \in Requests : (pc[r] = "queued") ~> (pc[r] \in {"done", "lost"})

\* The keys of slot s by version: the archived ones, then the current one.
Trail(s) ==
  [v \in 1 .. publicKeys[s].version |->
     IF v = publicKeys[s].version
       THEN publicKeys[s].key
       ELSE (CHOOSE h \in keyHistory[s] : h.version = v).key]

Registry == INSTANCE KeyRegistry WITH trail <- [s \in Slots |-> Trail(s)]

\* Concurrent, failing and dying transactions amount to indivisible publishes
\* on an append-only trail.
RefinesRegistry == Registry!RegistrySpec
=============================================================================
