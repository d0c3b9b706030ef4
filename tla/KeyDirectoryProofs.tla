------------------------- MODULE KeyDirectoryProofs -------------------------
(***************************************************************************)
(* Proofs about the key directory for every set of slots, keys and         *)
(* requests and every pool size.                                           *)
(***************************************************************************)
EXTENDS KeyDirectory, TLAPS

Holding == {"selected", "archived", "updated", "inserted"}

\* A transaction holds a lock exactly from its SELECT to its end, on its slot.
LocksMatchSteps ==
  \A r \in Requests, s \in Slots :
    r \in locks[s] <=> s = Slot(r) /\ pc[r] \in Holding

\* The row a transaction read is still the committed row when it writes.
SeenIsCurrent ==
  \A r \in Requests : pc[r] \in Holding => seen[r] = publicKeys[Slot(r)]

\* An existing row has one lock holder at most.
RowLockExclusive ==
  \A s \in Slots : publicKeys[s] # NoRow => \A q, r \in locks[s] : q = r

\* What each step has established about its request.
StepFacts ==
  \A r \in Requests :
    /\ pc[r] = "inserted" => seen[r] = NoRow /\ locks[Slot(r)] = {r}
    /\ pc[r] \in {"archived", "updated"} =>
         seen[r] # NoRow /\ seen[r].key # req[r].key /\ req[r].ack
    /\ pc[r] # "done" => reply[r] = Pending

\* The inductive invariant.
Inv ==
  /\ TypeOK
  /\ LocksMatchSteps
  /\ SeenIsCurrent
  /\ RowLockExclusive
  /\ StepFacts
  /\ HistoryComplete
  /\ AnswersDurable

LEMMA RowVersions ==
  ASSUME NEW row \in Row \cup {NoRow}
  PROVE  /\ row.version \in Nat
         /\ row = NoRow <=> row.version = 0
         /\ row # NoRow => row.key \in Keys
BY NoKeyAssumption DEF Row, NoRow

LEMMA InitInv == Init => Inv
BY DEF Init, Inv, TypeOK, LocksMatchSteps, SeenIsCurrent, RowLockExclusive, StepFacts,
       HistoryComplete, AnswersDurable, Holding, Steps, InTransaction, Statuses,
       Pending, NoRow, Slot, Request

LEMMA CommitKeepsInv ==
  ASSUME NEW r \in Requests, Inv,
         \/ Goto(r, "inserted", "done")
         \/ Goto(r, "updated", "done"),
         ApplyWrites(r), UNCHANGED <<req, seen>>,
         \/ pc[r] = "inserted" /\ Answer(r, "pinned", 1)
         \/ pc[r] = "updated" /\ Answer(r, "rotated", NewVersion(r))
         \/ Answer(r, "failed", 0)
  PROVE  Inv'
<1> USE DEF Inv, Slot
<1> DEFINE s == Slot(r)
<1>1. /\ s \in Slots
      /\ pc[r] \in {"inserted", "updated"}
      /\ seen[r] = publicKeys[s]
      /\ pc[r] = "inserted" <=> publicKeys[s] = NoRow
      /\ locks[s] = {r}
  BY DEF Goto, TypeOK, Request, SeenIsCurrent, Holding, StepFacts, LocksMatchSteps,
         RowLockExclusive
<1>2. /\ publicKeys[s].version \in Nat
      /\ publicKeys[s].version = 0 <=> publicKeys[s] = NoRow
  BY <1>1, RowVersions DEF TypeOK
<1>3. /\ publicKeys' = [publicKeys EXCEPT ![s] =
            [key |-> req[r].key, version |-> publicKeys[s].version + 1]]
      /\ publicKeys[s] = NoRow => keyHistory' = keyHistory
      /\ publicKeys[s] # NoRow =>
            keyHistory' = [keyHistory EXCEPT ![s] = @ \cup {publicKeys[s]}]
      /\ pc' = [pc EXCEPT ![r] = "done"]
      /\ locks' = [t \in Slots |-> locks[t] \ {r}]
      /\ req' = req /\ seen' = seen
  BY <1>1 DEF ApplyWrites, NewVersion, Goto, Answer, Release
<1>4. /\ reply' = [reply EXCEPT ![r] = reply'[r]]
      /\ reply'[r] \in [status : Statuses, version : Nat]
      /\ reply'[r].status \in {"pinned", "rotated"} =>
            reply'[r].version = publicKeys[s].version + 1
  <2>1. \/ reply' = [reply EXCEPT ![r] = [status |-> "failed", version |-> 0]]
        \/ /\ reply' = [reply EXCEPT ![r] = [status |-> "pinned", version |-> 1]]
           /\ publicKeys[s].version = 0
        \/ reply' = [reply EXCEPT ![r] =
                       [status |-> "rotated", version |-> publicKeys[s].version + 1]]
    BY <1>1, <1>2 DEF Answer, NewVersion
  <2>2. \/ reply'[r] = [status |-> "failed", version |-> 0]
        \/ /\ reply'[r] = [status |-> "pinned", version |-> 1]
           /\ publicKeys[s].version = 0
        \/ reply'[r] = [status |-> "rotated", version |-> publicKeys[s].version + 1]
    BY <2>1 DEF TypeOK
  <2>3. reply' = [reply EXCEPT ![r] = reply'[r]]
    BY <2>1, <2>2 DEF TypeOK
  <2>. QED
    BY <1>2, <2>2, <2>3 DEF Statuses
<1>5. TypeOK'
  <2>1. [key |-> req[r].key, version |-> publicKeys[s].version + 1] \in Row
    BY <1>2 DEF TypeOK, Row, Request
  <2>2. publicKeys' \in [Slots -> Row \cup {NoRow}]
    BY <1>3, <2>1 DEF TypeOK
  <2>3. keyHistory' \in [Slots -> SUBSET Row]
    BY <1>1, <1>3 DEF TypeOK
  <2>4. /\ locks' \in [Slots -> SUBSET Requests]
        /\ pc' \in [Requests -> Steps]
        /\ reply' \in [Requests -> [status : Statuses, version : Nat]]
    BY <1>3, <1>4 DEF TypeOK, Steps
  <2>. QED
    BY <1>3, <2>2, <2>3, <2>4 DEF TypeOK
<1>6. LocksMatchSteps'
  BY <1>1, <1>3 DEF LocksMatchSteps, TypeOK, Holding
<1>7. SeenIsCurrent'
  BY <1>1, <1>3 DEF LocksMatchSteps, SeenIsCurrent, TypeOK, Holding, Request
<1>8. RowLockExclusive'
  BY <1>1, <1>3 DEF RowLockExclusive, TypeOK
<1>9. StepFacts'
  BY <1>1, <1>3, <1>4 DEF StepFacts, TypeOK, LocksMatchSteps, Holding, Request
<1>10. HistoryComplete'
  <2> SUFFICES ASSUME NEW t \in Slots
               PROVE  /\ {h.version : h \in keyHistory'[t]} = 1 .. (publicKeys'[t].version - 1)
                      /\ \A g, h \in keyHistory'[t] : g.version = h.version => g = h
    BY DEF HistoryComplete
  <2>1. CASE t # s
    <3>1. keyHistory'[t] = keyHistory[t] /\ publicKeys'[t] = publicKeys[t]
      BY <1>1, <1>3, <2>1 DEF TypeOK
    <3>. QED
      BY <3>1 DEF HistoryComplete
  <2>3. CASE t = s /\ publicKeys[s] = NoRow
    <3>1. keyHistory'[t] = keyHistory[s] /\ publicKeys'[t].version = 1
      BY <1>1, <1>2, <1>3, <2>3 DEF TypeOK
    <3>2. 1 .. (publicKeys[s].version - 1) = 1 .. (1 - 1)
      BY <1>2, <2>3
    <3>. QED
      BY <1>1, <2>3, <3>1, <3>2 DEF HistoryComplete
  <2>2. CASE t = s /\ publicKeys[s] # NoRow
    <3> DEFINE v == publicKeys[s].version
    <3>1. keyHistory'[t] = keyHistory[s] \cup {publicKeys[s]} /\ publicKeys'[t].version = v + 1
      BY <1>1, <1>3, <2>2 DEF TypeOK
    <3>2. {h.version : h \in keyHistory[s]} = 1 .. (v - 1)
      BY <1>1 DEF HistoryComplete
    <3>3. {h.version : h \in keyHistory'[t]} = {h.version : h \in keyHistory[s]} \cup {v}
      BY <3>1
    <3>4. v \in Nat \ {0}
      BY <1>2, <2>2
    <3>5. (1 .. (v - 1)) \cup {v} = 1 .. ((v + 1) - 1)
      BY <3>4
    <3>6. \A h \in keyHistory[s] : h.version # v
      BY <3>2, <3>4
    <3>. QED
      BY <1>1, <3>1, <3>2, <3>3, <3>5, <3>6 DEF HistoryComplete
  <2>. QED
    BY <2>1, <2>2, <2>3
<1>11. AnswersDurable'
  <2> SUFFICES ASSUME NEW q \in Requests, reply'[q].status \in {"pinned", "rotated"}
               PROVE  [key |-> req[q].key, version |-> reply'[q].version]
                        \in keyHistory'[Slot(q)] \cup {publicKeys'[Slot(q)]}
    BY <1>3 DEF AnswersDurable
  <2>1. Slot(q) \in Slots
    BY DEF TypeOK, Request
  <2>2. CASE q = r
    BY <1>1, <1>3, <1>4, <2>2 DEF TypeOK
  <2>3. CASE q # r
    <3>1. reply'[q] = reply[q]
      BY <1>4, <2>3 DEF TypeOK
    <3>2. [key |-> req[q].key, version |-> reply[q].version]
             \in keyHistory[Slot(q)] \cup {publicKeys[Slot(q)]}
      BY <3>1 DEF AnswersDurable
    <3>3. [key |-> req[q].key, version |-> reply[q].version] # NoRow
      BY NoKeyAssumption DEF TypeOK, Request, NoRow
    <3>. QED
      BY <1>1, <1>3, <2>1, <3>1, <3>2, <3>3 DEF TypeOK
  <2>. QED
    BY <2>2, <2>3
<1>. QED
  BY <1>5, <1>6, <1>7, <1>8, <1>9, <1>10, <1>11

\* The answers of a transaction that writes nothing.
LEMMA EndKeepsInv ==
  ASSUME NEW r \in Requests, Inv,
         pc[r] \in InTransaction,
         pc' = [pc EXCEPT ![r] = "done"],
         NEW status \in {"unchanged", "rotation_required", "failed"},
         NEW version \in Nat,
         Answer(r, status, version),
         UNCHANGED <<publicKeys, keyHistory, req, seen>>
  PROVE  Inv'
<1> USE DEF Inv, Slot
<1>1. /\ reply' = [reply EXCEPT ![r] = [status |-> status, version |-> version]]
      /\ locks' = [t \in Slots |-> locks[t] \ {r}]
      /\ [status |-> status, version |-> version] \in [status : Statuses, version : Nat]
  BY DEF Answer, Release, Statuses
<1>2. TypeOK'
  BY <1>1 DEF TypeOK, Steps
<1>3. LocksMatchSteps' /\ SeenIsCurrent'
  BY <1>1 DEF LocksMatchSteps, SeenIsCurrent, TypeOK, Holding, Request
<1>4. RowLockExclusive'
  BY <1>1 DEF RowLockExclusive, TypeOK
<1>5. StepFacts'
  BY <1>1 DEF StepFacts, LocksMatchSteps, TypeOK, Holding, Request
<1>6. HistoryComplete' /\ AnswersDurable'
  BY <1>1 DEF HistoryComplete, AnswersDurable, TypeOK
<1>. QED
  BY <1>2, <1>3, <1>4, <1>5, <1>6

\* A step inside a transaction, or before it, that answers and locks nothing.
LEMMA AdvanceKeepsInv ==
  ASSUME NEW r \in Requests, Inv,
         NEW from, NEW to \in Steps \ {"done"}, Goto(r, from, to),
         from # "done",
         from \in Holding <=> to \in Holding,
         to = "inserted" => seen[r] = NoRow /\ locks[Slot(r)] = {r},
         to \in {"archived", "updated"} =>
           seen[r] # NoRow /\ seen[r].key # req[r].key /\ req[r].ack,
         UNCHANGED <<publicKeys, keyHistory, locks, req, seen, reply>>
  PROVE  Inv'
<1> USE DEF Inv, Slot, Goto
<1>1. TypeOK'
  BY DEF TypeOK
<1>2. LocksMatchSteps' /\ SeenIsCurrent'
  BY DEF LocksMatchSteps, SeenIsCurrent, TypeOK
<1>3. RowLockExclusive' /\ HistoryComplete' /\ AnswersDurable'
  BY DEF RowLockExclusive, HistoryComplete, AnswersDurable
<1>4. StepFacts'
  BY DEF StepFacts, TypeOK
<1>. QED
  BY <1>1, <1>2, <1>3, <1>4

LEMMA SelectKeepsInv ==
  ASSUME NEW r \in Requests, Inv, SelectForUpdate(r)
  PROVE  Inv'
<1> USE DEF Inv, Slot, SelectForUpdate, Goto
<1>1. Slot(r) \in Slots /\ publicKeys[Slot(r)] \in Row \cup {NoRow}
  BY DEF TypeOK, Request
<1>2. TypeOK'
  BY <1>1 DEF TypeOK, Steps, InTransaction
<1>3. LocksMatchSteps'
  BY <1>1 DEF LocksMatchSteps, TypeOK, Holding
<1>4. SeenIsCurrent'
  BY <1>1 DEF SeenIsCurrent, TypeOK, Holding
<1>5. RowLockExclusive'
  <2>1. publicKeys[Slot(r)] # NoRow => locks[Slot(r)] = {}
    BY <1>1, RowVersions DEF LockGranted
  <2>. QED
    BY <1>1, <2>1 DEF RowLockExclusive, TypeOK
<1>6. StepFacts'
  <2>1. ASSUME NEW q \in Requests, pc[q] = "inserted"
        PROVE  Slot(q) # Slot(r)
    <3>1. q \in locks[Slot(q)] /\ publicKeys[Slot(q)] = NoRow
      BY <2>1 DEF StepFacts, LocksMatchSteps, SeenIsCurrent, Holding, TypeOK, Request
    <3>. QED
      BY <2>1, <3>1, RowVersions DEF LockGranted, NoRow
  <2>. QED
    BY <1>1, <2>1 DEF StepFacts, TypeOK, Request
<1>7. HistoryComplete' /\ AnswersDurable'
  BY DEF HistoryComplete, AnswersDurable
<1>. QED
  BY <1>2, <1>3, <1>4, <1>5, <1>6, <1>7

LEMMA CrashKeepsInv ==
  ASSUME Inv, Crash
  PROVE  Inv'
<1> USE DEF Inv, Crash
<1>1. TypeOK'
  BY DEF TypeOK, Steps
<1>2. \A r \in Requests : pc'[r] \notin Holding
  BY DEF InTransaction, Holding, TypeOK
<1>3. LocksMatchSteps' /\ SeenIsCurrent' /\ RowLockExclusive'
  BY <1>2 DEF LocksMatchSteps, SeenIsCurrent, RowLockExclusive
<1>4. StepFacts'
  <2>1. \A r \in Requests : pc'[r] # "done" => pc[r] # "done"
    BY DEF TypeOK, InTransaction
  <2>. QED
    BY <1>2, <2>1 DEF StepFacts, Holding
<1>5. HistoryComplete' /\ AnswersDurable'
  BY DEF HistoryComplete, AnswersDurable, Slot
<1>. QED
  BY <1>1, <1>3, <1>4, <1>5

LEMMA RollbackKeepsInv ==
  ASSUME NEW r \in Requests, Inv, Rollback(r)
  PROVE  Inv'
BY EndKeepsInv DEF Rollback

LEMMA NextInv == Inv /\ [Next]_vars => Inv'
<1> SUFFICES ASSUME Inv, [Next]_vars
             PROVE  Inv'
  OBVIOUS
<1>1. ASSUME NEW r \in Requests, Receive(r)
      PROVE  Inv'
  BY <1>1, AdvanceKeepsInv DEF Receive, Steps, InTransaction, Holding
<1>2. ASSUME NEW r \in Requests, HandlerStep(r)
      PROVE  Inv'
  <2>1. CASE Begin(r)
    BY <2>1, AdvanceKeepsInv DEF Begin, Steps, InTransaction, Holding
  <2>2. CASE SelectForUpdate(r)
    BY <2>2, SelectKeepsInv
  <2>3. CASE InsertFirst(r)
    BY <2>3, AdvanceKeepsInv DEF InsertFirst, Steps, InTransaction, Holding
  <2>4. CASE CommitUnchanged(r)
    <3>1. seen[r].version \in Nat
      BY RowVersions DEF Inv, TypeOK
    <3>. QED
      BY <2>4, <3>1, EndKeepsInv DEF CommitUnchanged, Goto, InTransaction
  <2>5. CASE CommitRefused(r)
    <3>1. seen[r].version \in Nat
      BY RowVersions DEF Inv, TypeOK
    <3>. QED
      BY <2>5, <3>1, EndKeepsInv DEF CommitRefused, Goto, InTransaction
  <2>6. CASE Archive(r)
    BY <2>6, AdvanceKeepsInv DEF Archive, Steps, InTransaction, Holding
  <2>7. CASE Update(r)
    <3>1. seen[r] # NoRow /\ seen[r].key # req[r].key /\ req[r].ack
      BY <2>7 DEF Update, Goto, Inv, StepFacts
    <3>. QED
      BY <2>7, <3>1, AdvanceKeepsInv DEF Update, Steps, InTransaction, Holding
  <2>8. CASE Commit(r)
    BY <2>8, CommitKeepsInv DEF Commit, Goto
  <2>9. CASE DeadlockVictim(r)
    BY <2>9, RollbackKeepsInv DEF DeadlockVictim
  <2>. QED
    BY <1>2, <2>1, <2>2, <2>3, <2>4, <2>5, <2>6, <2>7, <2>8, <2>9 DEF HandlerStep
<1>3. ASSUME NEW r \in Requests, CommitAnswerLost(r)
      PROVE  Inv'
  BY <1>3, CommitKeepsInv DEF CommitAnswerLost
<1>4. ASSUME NEW r \in Requests, Rollback(r)
      PROVE  Inv'
  BY <1>4, RollbackKeepsInv
<1>5. CASE Crash
  BY <1>5, CrashKeepsInv
<1>6. CASE UNCHANGED vars
  <2>1. TypeOK' /\ HistoryComplete' /\ AnswersDurable'
    BY <1>6 DEF vars, Inv, TypeOK, HistoryComplete, AnswersDurable, Slot
  <2>2. LocksMatchSteps' /\ SeenIsCurrent' /\ RowLockExclusive' /\ StepFacts'
    BY <1>6 DEF vars, Inv, LocksMatchSteps, SeenIsCurrent, RowLockExclusive, StepFacts, Slot
  <2>. QED
    BY <2>1, <2>2 DEF Inv
<1>. QED
  BY <1>1, <1>2, <1>3, <1>4, <1>5, <1>6 DEF Next

\* The inductive invariant holds throughout, under any interleaving.
THEOREM InvHolds == Spec => []Inv
BY InitInv, NextInv, PTL DEF Spec

\* Type correctness of the directory.
THEOREM TypeCorrect == Spec => []TypeOK
BY InvHolds, PTL DEF Inv

\* The audit trail of every slot has exactly one row per earlier version.
THEOREM HistoryIsComplete == Spec => []HistoryComplete
BY InvHolds, PTL DEF Inv

\* The current key changes only by an acknowledged rotation that archives it.
THEOREM SwapsAreAudited == Spec => NoSilentSwap
<1> DEFINE Audited(s) ==
      publicKeys[s] # NoRow /\ publicKeys'[s].key # publicKeys[s].key =>
        /\ publicKeys[s] \in keyHistory'[s]
        /\ publicKeys'[s].version = publicKeys[s].version + 1
        /\ \E r \in Requests :
             /\ Slot(r) = s
             /\ req[r].key = publicKeys'[s].key
             /\ req[r].ack
<1>1. ASSUME Inv, Next, NEW s \in Slots
      PROVE  Audited(s)
  <2>1. CASE publicKeys' = publicKeys
    BY <2>1
  <2>2. ASSUME NEW r \in Requests, ApplyWrites(r), pc[r] \in {"inserted", "updated"}
        PROVE  Audited(s)
    <3>1. /\ seen[r] = publicKeys[Slot(r)]
          /\ pc[r] = "inserted" => seen[r] = NoRow
          /\ pc[r] = "updated" => req[r].ack
      BY <1>1, <2>2 DEF Inv, SeenIsCurrent, StepFacts, Holding
    <3>2. CASE s # Slot(r)
      BY <1>1, <2>2, <3>2 DEF ApplyWrites, Inv, TypeOK
    <3>3. CASE s = Slot(r) /\ pc[r] = "updated"
      <4>1. /\ publicKeys'[s] = [key |-> req[r].key, version |-> publicKeys[s].version + 1]
            /\ publicKeys[s] \in keyHistory'[s]
        BY <1>1, <2>2, <3>1, <3>3 DEF ApplyWrites, NewVersion, Inv, TypeOK
      <4>. QED
        BY <3>1, <3>3, <4>1
    <3>. QED
      BY <2>2, <3>1, <3>2, <3>3
  <2>. QED
    BY <1>1, <2>1, <2>2 DEF Next, HandlerStep, Receive, Begin, SelectForUpdate, InsertFirst,
       CommitUnchanged, CommitRefused, Archive, Update, Commit, DeadlockVictim,
       CommitAnswerLost, Rollback, Crash, Goto
<1>2. Inv /\ [Next]_vars => [\A s \in Slots : Audited(s)]_vars
  BY <1>1
<1>. QED
  BY InvHolds, <1>2, PTL DEF Spec, NoSilentSwap

\* A version once reported to a publisher is that publisher's key for good.
THEOREM AnswersAreDurable == Spec => []AnswersDurable
BY InvHolds, PTL DEF Inv

----------------------------------------------------------------------------
(* The transactions implement the append-only registry.                    *)

trailBar == [s \in Slots |-> Trail(s)]

\* The trail of a slot is a sequence of keys, one per version.
LEMMA TrailValue ==
  ASSUME Inv, NEW s \in Slots
  PROVE  /\ Trail(s) \in Seq(Keys)
         /\ Len(Trail(s)) = publicKeys[s].version
         /\ publicKeys[s] # NoRow => Trail(s)[publicKeys[s].version] = publicKeys[s].key
         /\ \A h \in keyHistory[s] : h.version \in DOMAIN Trail(s) /\ Trail(s)[h.version] = h.key
<1> DEFINE n == publicKeys[s].version
           archived(v) == CHOOSE h \in keyHistory[s] : h.version = v
<1>1. /\ n \in Nat
      /\ n # 0 => publicKeys[s].key \in Keys
      /\ publicKeys[s] # NoRow => n # 0
  BY RowVersions DEF Inv, TypeOK
<1>2. /\ {h.version : h \in keyHistory[s]} = 1 .. (n - 1)
      /\ \A g, h \in keyHistory[s] : g.version = h.version => g = h
  BY DEF Inv, HistoryComplete
<1>3. keyHistory[s] \subseteq Row
  BY DEF Inv, TypeOK
<1>4. ASSUME NEW v \in 1 .. n, v # n
      PROVE  archived(v) \in keyHistory[s] /\ archived(v).key \in Keys
  <2>1. \E h \in keyHistory[s] : h.version = v
    <3>1. v \in 1 .. (n - 1)
      BY <1>1, <1>4
    <3>. QED
      BY <1>2, <3>1
  <2>. QED
    BY <2>1, <1>3 DEF Row
<1>5. Trail(s) = [v \in 1 .. n |-> IF v = n THEN publicKeys[s].key ELSE archived(v).key]
  BY DEF Trail
<1>6. Trail(s) \in [1 .. n -> Keys]
  <2>1. ASSUME NEW v \in 1 .. n
        PROVE  (IF v = n THEN publicKeys[s].key ELSE archived(v).key) \in Keys
    BY <1>1, <1>4
  <2> HIDE DEF archived
  <2>. QED
    BY <1>5, <2>1
<1>7. Trail(s) \in Seq(Keys) /\ Len(Trail(s)) = n
  BY <1>1, <1>6
<1>8. publicKeys[s] # NoRow => Trail(s)[n] = publicKeys[s].key
  BY <1>1, <1>5
<1>9. ASSUME NEW h \in keyHistory[s]
      PROVE  h.version \in DOMAIN Trail(s) /\ Trail(s)[h.version] = h.key
  <2>1. h.version \in 1 .. (n - 1)
    BY <1>2
  <2>2. h.version \in 1 .. n /\ h.version # n
    BY <1>1, <2>1
  <2>3. archived(h.version) = h
    BY <1>2
  <2>. QED
    BY <1>5, <2>2, <2>3
<1>. QED
  BY <1>7, <1>8, <1>9

TrailsMatchTables ==
  \A s \in Slots :
    /\ Trail(s) \in Seq(Keys)
    /\ Len(Trail(s)) = publicKeys[s].version
    /\ publicKeys[s] # NoRow => Trail(s)[publicKeys[s].version] = publicKeys[s].key
    /\ \A h \in keyHistory[s] : Trail(s)[h.version] = h.key

LEMMA TrailsMatch == Inv => TrailsMatchTables
BY TrailValue DEF TrailsMatchTables

\* A commit of writes appends the new key to its slot's trail and to no other.
LEMMA TrailGrows ==
  ASSUME Inv, Inv', NEW r \in Requests, ApplyWrites(r), pc[r] \in {"inserted", "updated"}
  PROVE  trailBar' = [trailBar EXCEPT ![Slot(r)] = Append(@, req[r].key)]
<1>0. PICK s \in Slots : s = Slot(r)
  BY DEF Inv, TypeOK, Request, Slot
<1> DEFINE n == publicKeys[s].version
<1>1. /\ s \in Slots
      /\ req[r].key \in Keys
      /\ seen[r] = publicKeys[s]
      /\ publicKeys' = [publicKeys EXCEPT ![s] = [key |-> req[r].key, version |-> n + 1]]
      /\ pc[r] = "inserted" <=> publicKeys[s] = NoRow
  <2>1. s \in Slots /\ req[r].key \in Keys
    BY <1>0 DEF Inv, TypeOK, Request, Slot
  <2>2. seen[r] = publicKeys[s]
    BY <1>0 DEF Inv, SeenIsCurrent, Holding
  <2>3. pc[r] = "inserted" <=> publicKeys[s] = NoRow
    BY <2>2 DEF Inv, StepFacts
  <2>. QED
    BY <1>0, <2>1, <2>2, <2>3 DEF ApplyWrites, NewVersion
<1>2. n \in Nat /\ (publicKeys[s] = NoRow <=> n = 0)
  BY <1>1, RowVersions DEF Inv, TypeOK
<1>3. /\ publicKeys'[s].key = req[r].key
      /\ publicKeys'[s].version = n + 1
      /\ keyHistory[s] \subseteq keyHistory'[s]
      /\ publicKeys[s] # NoRow => publicKeys[s] \in keyHistory'[s]
  BY <1>0, <1>1 DEF ApplyWrites, Inv, TypeOK
<1>4. /\ Trail(s) \in Seq(Keys) /\ Len(Trail(s)) = n
      /\ \A h \in keyHistory[s] : Trail(s)[h.version] = h.key
      /\ publicKeys[s] # NoRow => Trail(s)[n] = publicKeys[s].key
  BY <1>1, TrailValue
<1>5. /\ Trail(s)' \in Seq(Keys) /\ Len(Trail(s)') = n + 1
      /\ \A h \in keyHistory'[s] : Trail(s)'[h.version] = h.key
      /\ Trail(s)'[n + 1] = req[r].key
  <2>1. TrailsMatchTables'
    BY TrailsMatch, PTL
  <2>2. publicKeys'[s] # NoRow
    BY <1>2, <1>3 DEF NoRow
  <2>. QED
    BY <1>1, <1>3, <2>1, <2>2 DEF TrailsMatchTables
<1>6. ASSUME NEW v \in 1 .. n
      PROVE  Trail(s)'[v] = Trail(s)[v]
  <2>1. CASE v = n
    BY <1>2, <1>3, <1>4, <1>5, <2>1
  <2>2. CASE v # n
    <3>1. PICK h \in keyHistory[s] : h.version = v
      BY <1>1, <1>2, <2>2 DEF Inv, HistoryComplete
    <3>. QED
      BY <1>3, <1>4, <1>5, <3>1
  <2>. QED
    BY <2>1, <2>2
<1>7. Trail(s)' = Append(Trail(s), req[r].key)
  BY <1>1, <1>2, <1>4, <1>5, <1>6
<1>8. ASSUME NEW t \in Slots, t # s
      PROVE  Trail(t)' = Trail(t)
  BY <1>0, <1>1, <1>8 DEF Trail, ApplyWrites, Inv, TypeOK
<1>9. trailBar' = [t \in Slots |-> IF t = s THEN Append(Trail(s), req[r].key) ELSE Trail(t)]
  BY <1>7, <1>8 DEF trailBar
<1>. QED
  BY <1>0, <1>1, <1>9 DEF trailBar

\* The registry's steps only depend on whether a trail is empty and on its end.
LEMMA StepRefines ==
  ASSUME Inv, Inv', [Next]_vars
  PROVE  [Registry!RegistryNext]_(<<trailBar, reply>>)
<1> DEFINE unchangedTrails == trailBar' = trailBar
<1> USE DEF Registry!Answer, Registry!Pending, Registry!Failed, Pending, Failed
<1>1. publicKeys' = publicKeys /\ keyHistory' = keyHistory => unchangedTrails
  BY DEF trailBar, Trail
<1>2. ASSUME NEW r \in Requests, pc[r] # "done"
      PROVE  reply[r] = Pending
  BY <1>2 DEF Inv, StepFacts
<1>3. ASSUME NEW r \in Requests
      PROVE  Slot(r) \in Slots /\ req[r].key \in Keys
  BY DEF Inv, TypeOK, Request, Slot
<1>4. ASSUME NEW r \in Requests
      PROVE  LET s == Slot(r) t == trailBar[s]
             IN  /\ t = Trail(s)
                 /\ t \in Seq(Keys)
                 /\ Len(t) = publicKeys[s].version
                 /\ t = <<>> <=> publicKeys[s] = NoRow
                 /\ t # <<>> => t[Len(t)] = publicKeys[s].key
  <2>1. publicKeys[Slot(r)].version = 0 <=> publicKeys[Slot(r)] = NoRow
    BY <1>3, RowVersions DEF Inv, TypeOK
  <2>. QED
    BY <1>3, <2>1, TrailsMatch DEF TrailsMatchTables, trailBar
<1>5. ASSUME NEW r \in Requests, Rollback(r)
      PROVE  Registry!Fail(r, Slot(r), req[r].key) /\ unchangedTrails
  <2>1. pc[r] # "done"
    BY <1>5 DEF Rollback, InTransaction
  <2>. QED
    BY <1>1, <1>2, <1>5, <2>1 DEF Rollback, Answer, Registry!Fail, trailBar
<1>6. ASSUME NEW r \in Requests, CommitUnchanged(r)
      PROVE  Registry!Confirm(r, Slot(r))
  <2>1. pc[r] = "selected" /\ seen[r] = publicKeys[Slot(r)]
    BY <1>6 DEF CommitUnchanged, Goto, Inv, SeenIsCurrent, Holding
  <2>2. publicKeys[Slot(r)] # NoRow
    BY <1>3, <1>6, <2>1, NoKeyAssumption DEF CommitUnchanged, NoRow
  <2>. QED
    BY <1>1, <1>2, <1>4, <1>6, <2>1, <2>2
       DEF CommitUnchanged, Answer, Registry!Confirm, trailBar
<1>7. ASSUME NEW r \in Requests, CommitRefused(r)
      PROVE  Registry!Refuse(r, Slot(r))
  <2>1. pc[r] = "selected" /\ seen[r] = publicKeys[Slot(r)]
    BY <1>7 DEF CommitRefused, Goto, Inv, SeenIsCurrent, Holding
  <2>. QED
    BY <1>1, <1>2, <1>4, <1>7, <2>1 DEF CommitRefused, Answer, Registry!Refuse, trailBar
<1>8. ASSUME NEW r \in Requests, ApplyWrites(r), pc[r] \in {"inserted", "updated"}
      PROVE  /\ trailBar' = [trailBar EXCEPT ![Slot(r)] = Append(@, req[r].key)]
             /\ seen[r] = publicKeys[Slot(r)]
             /\ pc[r] = "inserted" => trailBar[Slot(r)] = <<>>
             /\ pc[r] = "updated" => /\ trailBar[Slot(r)] # <<>>
                                     /\ trailBar[Slot(r)][Len(trailBar[Slot(r)])] # req[r].key
  <2>1. seen[r] = publicKeys[Slot(r)]
    BY <1>8 DEF Inv, SeenIsCurrent, Holding
  <2>. QED
    BY <1>4, <1>8, <2>1, TrailGrows DEF Inv, StepFacts
<1>9. ASSUME NEW r \in Requests, Commit(r)
      PROVE  Registry!Pin(r, Slot(r), req[r].key) \/ Registry!Rotate(r, Slot(r), req[r].key)
  <2>1. CASE pc[r] = "inserted"
    <3>1. Append(<<>>, req[r].key) = <<req[r].key>>
      OBVIOUS
    <3>2. /\ trailBar[Slot(r)] = <<>> /\ reply[r] = Pending
          /\ trailBar' = [trailBar EXCEPT ![Slot(r)] = <<req[r].key>>]
      BY <1>2, <1>8, <1>9, <2>1, <3>1 DEF Commit
    <3>3. reply' = [reply EXCEPT ![r] = [status |-> "pinned", version |-> 1]]
      BY <1>9, <2>1 DEF Commit, Goto, Answer
    <3>. QED
      BY <3>2, <3>3 DEF Registry!Pin, trailBar
  <2>2. CASE pc[r] = "updated"
    BY <1>2, <1>4, <1>8, <1>9, <2>2
       DEF Commit, Goto, Answer, NewVersion, Registry!Rotate, trailBar
  <2>. QED
    BY <1>9, <2>1, <2>2 DEF Commit, Goto
<1>10. ASSUME NEW r \in Requests, CommitAnswerLost(r)
       PROVE  Registry!Fail(r, Slot(r), req[r].key)
  <2>1. pc[r] \in {"inserted", "updated"} /\ ApplyWrites(r)
    BY <1>10 DEF CommitAnswerLost, Goto
  <2>. QED
    BY <1>2, <1>8, <1>10, <2>1 DEF CommitAnswerLost, Answer, Registry!Fail, trailBar
<1>11. CASE UNCHANGED tables /\ reply' = reply
  BY <1>1, <1>11 DEF tables
<1>. QED
  BY <1>3, <1>5, <1>6, <1>7, <1>9, <1>10, <1>11 DEF Next, HandlerStep, Receive, Begin,
     SelectForUpdate, InsertFirst, Archive, Update, DeadlockVictim, Crash, vars, tables,
     Registry!RegistryNext

\* Interleaved, failing and dying transactions implement indivisible publishes.
THEOREM DirectoryRefinesRegistry == Spec => RefinesRegistry
<1>1. Init => Registry!RegistryInit
  BY DEF Init, Registry!RegistryInit, Registry!Pending, Pending, Trail, NoRow
<1>2. Inv /\ Inv' /\ [Next]_vars => [Registry!RegistryNext]_(Registry!registryVars)
  BY StepRefines DEF Registry!registryVars, trailBar
<1>. QED
  BY InvHolds, <1>1, <1>2, PTL DEF Spec, RefinesRegistry, Registry!RegistrySpec
=============================================================================
