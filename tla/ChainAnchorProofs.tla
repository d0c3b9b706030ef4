-------------------------- MODULE ChainAnchorProofs --------------------------
(***************************************************************************)
(* Proofs about ChainAnchor, for any number of messages in flight.         *)
(*                                                                         *)
(* RecordedIsAnchored rests on what a send knows when it writes: a confirmed *)
(* wait means that its own transaction was mined (ConfirmedIsMined), and a  *)
(* mined transaction anchored its own message (MinedIsAnchored).            *)
(***************************************************************************)
EXTENDS ChainAnchor, FiniteSetTheorems, TLAPS

MinedIsAnchored == \A m \in Msgs : tx[m] = "mined" => m \in anchored

ConfirmedIsMined == \A m \in Msgs : pc[m] = "confirmed" => tx[m] = "mined"

\* Everything past the INSERT belongs to a stored message.
StoredFirst ==
  \A m \in Msgs :
    /\ pc[m] \notin {"idle", "rejected"} => status[m] # "none"
    /\ tx[m] # "none" => status[m] # "none"
    /\ m \in anchored => status[m] # "none"

\* A reader that saw "recorded" finds the record row whenever it looks.
SeenRecorded == \A m \in Msgs : proof[m].status = "recorded" => m \in records

Inv ==
  /\ TypeOK
  /\ RecordedIsAnchored
  /\ MinedIsAnchored
  /\ ConfirmedIsMined
  /\ StoredFirst
  /\ SeenRecorded
  /\ ProofHasTx
  /\ SettledWhenAnswered

----------------------------------------------------------------------------
LEMMA NonceType ==
  ASSUME TypeOK
  PROVE  NextNonce \in Nat
<1> DEFINE B == mined .. mined + Cardinality(Msgs)
           run == {k \in B : mined .. k \subseteq {nonce[m] : m \in Pooled}}
<1>1. mined \in Nat /\ Cardinality(Msgs) \in Nat
  BY MsgsAssumption, FS_CardinalityType DEF TypeOK
<1>2. IsFiniteSet(B)
  BY <1>1, FS_Interval
<1>3. IsFiniteSet(run)
  BY <1>2, FS_Subset
<1>4. Cardinality(run) \in Nat
  BY <1>3, FS_CardinalityType
<1> QED BY <1>1, <1>4 DEF NextNonce

LEMMA InitInv == Init => Inv
BY DEF Init, Inv, TypeOK, RecordedIsAnchored, MinedIsAnchored, ConfirmedIsMined,
       StoredFirst, SeenRecorded, ProofHasTx, SettledWhenAnswered, NoProof,
       Statuses, TxStates

\* What the node does to the wallet's transactions leaves the database alone
\* and loses no anchor.
LEMMA ChainStep ==
  ASSUME Inv, NEW m \in Msgs, Mine(m) \/ Drop(m) \/ SetRecorder
  PROVE  Inv'
<1> USE DEF Inv
<1>1. CASE Mine(m)
  BY <1>1 DEF Mine, TypeOK, TxStates, RecordedIsAnchored, MinedIsAnchored,
              ConfirmedIsMined, StoredFirst, SeenRecorded, ProofHasTx,
              SettledWhenAnswered
<1>2. CASE Drop(m)
  BY <1>2 DEF Drop, TypeOK, TxStates, RecordedIsAnchored, MinedIsAnchored,
              ConfirmedIsMined, StoredFirst, SeenRecorded, ProofHasTx,
              SettledWhenAnswered
<1>3. CASE SetRecorder
  BY <1>3 DEF SetRecorder, TypeOK, RecordedIsAnchored, MinedIsAnchored,
              ConfirmedIsMined, StoredFirst, SeenRecorded, ProofHasTx,
              SettledWhenAnswered
<1> QED BY <1>1, <1>2, <1>3

\* A step that only moves a send from one wait to the next.
LEMMA AdvanceStep ==
  ASSUME Inv, UNCHANGED <<configured, status, records, chain, proof>>,
         pc' \in [Msgs -> InFlight \cup Ended \cup {"idle"}],
         \A m \in Msgs :
           \/ pc'[m] = pc[m]
           \/ /\ pc[m] \notin {"idle", "rejected"}
              /\ pc'[m] = "confirmed" => tx[m] = "mined"
              /\ pc'[m] = "answered" => ~configured
           \/ pc'[m] = "rejected"
  PROVE  Inv'
<1> USE DEF Inv, chain
<1>1. TypeOK'
  BY DEF TypeOK
<1>2. RecordedIsAnchored' /\ MinedIsAnchored' /\ ConfirmedIsMined'
  BY DEF RecordedIsAnchored, MinedIsAnchored, ConfirmedIsMined
<1>3. StoredFirst' /\ SeenRecorded' /\ ProofHasTx' /\ SettledWhenAnswered'
  BY DEF StoredFirst, SeenRecorded, ProofHasTx, SettledWhenAnswered
<1> QED BY <1>1, <1>2, <1>3

\* A transaction enters the pool, maybe in the place of another.
LEMMA EnterStep ==
  ASSUME Inv, NEW m \in Msgs, Broadcast(m) \/ BroadcastAnswerLost(m)
  PROVE  Inv'
<1> USE DEF Inv
<1>1. PICK to \in {"waiting", "failing"} :
        /\ Goto(m, "prepared", to)
        /\ EnterPool(m)
        /\ UNCHANGED <<configured, status, records, anchored, recorder, nonce, mined, proof>>
  BY DEF Broadcast, BroadcastAnswerLost
<1>2. /\ tx' \in [Msgs -> TxStates]
      /\ \A n \in Msgs : tx'[n] = tx[n] \/ tx'[n] \in {"pooled", "replaced"}
      /\ \A n \in Msgs : n # m /\ tx[n] # "pooled" => tx'[n] = tx[n]
  BY <1>1 DEF EnterPool, TypeOK, TxStates
<1>3. \A n \in Msgs : tx[n] = "none" /\ tx'[n] # "none" => n = m
  BY <1>1, <1>2
<1>4. TypeOK'
  BY <1>1, <1>2 DEF Goto, TypeOK, InFlight
<1>5. RecordedIsAnchored' /\ MinedIsAnchored'
  BY <1>1, <1>2 DEF RecordedIsAnchored, MinedIsAnchored
<1>6. ConfirmedIsMined'
  BY <1>1, <1>2 DEF Goto, ConfirmedIsMined, TypeOK
<1>7. StoredFirst'
  BY <1>1, <1>3 DEF Goto, StoredFirst, TypeOK
<1>8. SeenRecorded' /\ ProofHasTx' /\ SettledWhenAnswered'
  BY <1>1 DEF Goto, SeenRecorded, ProofHasTx, SettledWhenAnswered, TypeOK
<1> QED BY <1>4, <1>5, <1>6, <1>7, <1>8

\* A step that writes the row of one message.
LEMMA RowStep ==
  ASSUME Inv, UNCHANGED <<configured, chain, proof>>,
         NEW m \in Msgs, NEW st \in Statuses \ {"none"},
         status' = [status EXCEPT ![m] = st],
         records' \in SUBSET Msgs, records \subseteq records',
         records' \ records \subseteq {m} \cap anchored,
         st = "recorded" => m \in records',
         NEW to \in InFlight \cup Ended,
         pc' = [pc EXCEPT ![m] = to],
         to # "confirmed",
         to = "answered" => st \in {"recorded", "failed"}
  PROVE  Inv'
<1> USE DEF Inv, chain
<1>1. TypeOK'
  BY DEF TypeOK
<1>2. RecordedIsAnchored' /\ MinedIsAnchored'
  BY DEF RecordedIsAnchored, MinedIsAnchored, TypeOK
<1>3. ConfirmedIsMined'
  BY DEF ConfirmedIsMined, TypeOK
<1>4. StoredFirst'
  BY DEF StoredFirst, TypeOK
<1>5. SeenRecorded' /\ ProofHasTx' /\ SettledWhenAnswered'
  BY DEF SeenRecorded, ProofHasTx, SettledWhenAnswered, TypeOK
<1> QED BY <1>1, <1>2, <1>3, <1>4, <1>5

\* A step of a reader.
LEMMA ReadStep ==
  ASSUME Inv, NEW m \in Msgs, ReadRow(m) \/ ReadRecord(m)
  PROVE  Inv'
<1> USE DEF Inv, chain
<1>1. UNCHANGED <<configured, status, records, chain, pc>>
  BY DEF ReadRow, ReadRecord
<1>2. TypeOK'
  <2>1. PICK p \in [step : {"idle", "read", "shown"},
                    status : Statuses, txHash : {"hash", "null"}] :
          proof' = [proof EXCEPT ![m] = p]
    BY DEF ReadRow, ReadRecord, TypeOK
  <2> QED BY <1>1, <2>1 DEF TypeOK
<1>3. RecordedIsAnchored' /\ MinedIsAnchored' /\ ConfirmedIsMined'
  BY <1>1 DEF RecordedIsAnchored, MinedIsAnchored, ConfirmedIsMined
<1>4. StoredFirst' /\ SettledWhenAnswered'
  BY <1>1 DEF StoredFirst, SettledWhenAnswered
<1>5. SeenRecorded' /\ ProofHasTx'
  <2>1. CASE ReadRow(m)
    <3>1. proof' = [proof EXCEPT ![m] =
                      [step |-> "read", status |-> status[m], txHash |-> "null"]]
      BY <2>1 DEF ReadRow
    <3>2. status[m] = "recorded" => m \in records
      BY DEF RecordedIsAnchored
    <3> QED BY <1>1, <3>1, <3>2 DEF SeenRecorded, ProofHasTx, TypeOK
  <2>2. CASE ReadRecord(m)
    <3>1. proof' = [proof EXCEPT ![m] =
                      [step |-> "shown", status |-> proof[m].status,
                       txHash |-> IF m \in records THEN "hash" ELSE "null"]]
      BY <2>2 DEF ReadRecord
    <3> QED BY <1>1, <3>1 DEF SeenRecorded, ProofHasTx, TypeOK
  <2> QED BY <2>1, <2>2
<1> QED BY <1>2, <1>3, <1>4, <1>5

LEMMA NextInv == Inv /\ [Next]_vars => Inv'
<1> SUFFICES ASSUME Inv, [Next]_vars PROVE Inv'
  OBVIOUS
<1> USE DEF Inv
<1>1. ASSUME NEW m \in Msgs, Create(m) PROVE Inv'
  BY <1>1, RowStep DEF Create, Goto, Statuses, InFlight, chain, TypeOK
<1>2. ASSUME NEW m \in Msgs, CreateFails(m) PROVE Inv'
  <2>1. CASE status' = status
    BY <1>2, <2>1, AdvanceStep DEF CreateFails, Goto, Ended, TypeOK
  <2>2. CASE status' = [status EXCEPT ![m] = "pending"]
    BY <1>2, <2>2, RowStep DEF CreateFails, Goto, Statuses, Ended, chain, TypeOK
  <2> QED BY <1>2, <2>1, <2>2 DEF CreateFails
<1>3. ASSUME NEW m \in Msgs, SkipUnconfigured(m) PROVE Inv'
  BY <1>3, AdvanceStep DEF SkipUnconfigured, Goto, Ended, TypeOK
<1>4. ASSUME NEW m \in Msgs, Prepare(m) PROVE Inv'
  <2>1. /\ UNCHANGED <<configured, status, records, anchored, recorder, tx, mined, proof>>
        /\ pc[m] = "stored" /\ pc' = [pc EXCEPT ![m] = "prepared"]
        /\ nonce' = [nonce EXCEPT ![m] = NextNonce]
    BY <1>4 DEF Prepare, Goto
  <2>2. TypeOK'
    BY <2>1, NonceType DEF TypeOK, InFlight
  <2>3. RecordedIsAnchored' /\ MinedIsAnchored' /\ ConfirmedIsMined'
    BY <2>1 DEF RecordedIsAnchored, MinedIsAnchored, ConfirmedIsMined, TypeOK
  <2>4. StoredFirst' /\ SeenRecorded' /\ ProofHasTx' /\ SettledWhenAnswered'
    BY <2>1 DEF StoredFirst, SeenRecorded, ProofHasTx, SettledWhenAnswered, TypeOK
  <2> QED BY <2>2, <2>3, <2>4
<1>5. ASSUME NEW m \in Msgs, SubmitFails(m) PROVE Inv'
  BY <1>5, AdvanceStep DEF SubmitFails, Goto, InFlight, TypeOK
<1>6. ASSUME NEW m \in Msgs, Wait(m) PROVE Inv'
  BY <1>6, AdvanceStep DEF Wait, Confirmed, Goto, InFlight, TypeOK
<1>7. ASSUME NEW m \in Msgs, WaitBreaks(m) PROVE Inv'
  BY <1>7, AdvanceStep DEF WaitBreaks, Goto, InFlight, TypeOK
<1>8. ASSUME NEW m \in Msgs, RecordEntry(m) PROVE Inv'
  <2>1. m \in anchored
    BY <1>8 DEF RecordEntry, Goto, ConfirmedIsMined, MinedIsAnchored
  <2> QED
    BY <1>8, <2>1, RowStep
       DEF RecordEntry, WriteEntry, Goto, Statuses, Ended, chain, TypeOK
<1>9. ASSUME NEW m \in Msgs, RecordEntryFails(m) PROVE Inv'
  <2>1. m \in anchored
    BY <1>9 DEF RecordEntryFails, Goto, ConfirmedIsMined, MinedIsAnchored
  <2>2. CASE WriteEntry(m)
    BY <1>9, <2>1, <2>2, RowStep
       DEF RecordEntryFails, WriteEntry, Goto, Statuses, InFlight, chain, TypeOK
  <2>3. CASE UNCHANGED rows
    BY <1>9, <2>3, AdvanceStep DEF RecordEntryFails, Goto, InFlight, rows, TypeOK
  <2> QED BY <1>9, <2>2, <2>3 DEF RecordEntryFails
<1>10. ASSUME NEW m \in Msgs, MarkChainFailed(m) PROVE Inv'
  BY <1>10, RowStep DEF MarkChainFailed, Goto, Statuses, Ended, chain, TypeOK
<1>11. ASSUME NEW m \in Msgs, MarkFails(m) PROVE Inv'
  BY <1>11, AdvanceStep DEF MarkFails, Goto, Ended, TypeOK
<1>12. ASSUME Crash PROVE Inv'
  BY <1>12, AdvanceStep DEF Crash, InFlight, Ended, TypeOK
<1>13. ASSUME UNCHANGED vars PROVE Inv'
  BY <1>13, AdvanceStep DEF vars, chain, TypeOK
<1>14. ASSUME SetRecorder PROVE Inv'
  BY <1>14 DEF SetRecorder, TypeOK, RecordedIsAnchored, MinedIsAnchored,
               ConfirmedIsMined, StoredFirst, SeenRecorded, ProofHasTx,
               SettledWhenAnswered
<1> QED
  BY <1>1, <1>2, <1>3, <1>4, <1>5, <1>6, <1>7, <1>8, <1>9, <1>10, <1>11, <1>12,
     <1>13, <1>14, ChainStep, EnterStep, ReadStep
     DEF Next, HandlerStep

\* Inv holds in every reachable state.
THEOREM InvHolds == Spec => []Inv
BY InitInv, NextInv, PTL DEF Spec

\* Every variable holds a value of its kind.
THEOREM TypeCorrect == Spec => []TypeOK
BY InvHolds, PTL DEF Inv

\* A message reported as recorded is anchored under its own id, whichever
\* transactions of the shared wallet replaced each other.
THEOREM RecordedAreAnchored == Spec => []RecordedIsAnchored
BY InvHolds, PTL DEF Inv

\* Nothing reaches the mempool or the contract before its row is stored.
THEOREM StoredBeforeAnchored == Spec => []AnchoredWasStored
<1>1. Inv => AnchoredWasStored
  BY DEF Inv, StoredFirst, AnchoredWasStored, Pooled
<1> QED BY <1>1, InvHolds, PTL

\* A chain proof that says recorded carries its transaction hash.
THEOREM ProofsHaveTx == Spec => []ProofHasTx
BY InvHolds, PTL DEF Inv

\* An answered send is recorded, failed or failed to be marked.
THEOREM AnswersSettle == Spec => []SettledWhenAnswered
BY InvHolds, PTL DEF Inv
=============================================================================
