----------------------------- MODULE ChainAnchor -----------------------------
(***************************************************************************)
(* Anchoring message digests on Sepolia: MessageService.sendMessage after  *)
(* its INSERT, BlockchainService, the contract MessageDigest, and the      *)
(* chain proof readers are given.  The send request waits for all of it.   *)
(* All sends share one wallet, so they compete for its transaction nonces. *)
(* The mempool, the miners and ethers' Wallet and tx.wait() are modelled    *)
(* by what BlockchainService can observe of them.                          *)
(*                                                                         *)
(* A message id is generated per send, so Msgs are both the sends and the   *)
(* contract's keys; the digest travels unchanged with its message.         *)
(*                                                                         *)
(* Operators named Faulty... are plausible slips in the code; each makes    *)
(* one of the properties below fail and none is part of Spec.              *)
(***************************************************************************)
EXTENDS Naturals, FiniteSets

CONSTANT
  Msgs   (* message ids: each names one send and one request for its proof  *)

ASSUME MsgsAssumption == IsFiniteSet(Msgs)

VARIABLES
  configured,  (* the server has an RPC url and a private key               *)
  status,      (* status[m]: chain_status, "none" while m has no row        *)
  records,     (* messages with a row in blockchain_records                 *)
  anchored,    (* messages the contract holds a digest of                   *)
  recorder,    (* the contract accepts writes from the server's wallet      *)
  tx,          (* tx[m]: what became of the transaction of m                *)
  nonce,       (* nonce[m]: the wallet nonce of that transaction            *)
  mined,       (* transactions of the wallet in the chain                   *)
  pc,          (* pc[m]: the last step the send of m completed              *)
  proof        (* proof[m]: what GET /:id/chain has read of m so far        *)

rows   == <<status, records>>
chain  == <<anchored, recorder, tx, nonce, mined>>
vars   == <<configured, status, records, anchored, recorder, tx, nonce, mined, pc, proof>>

Statuses == {"none", "pending", "recorded", "failed"}
TxStates == {"none", "pooled", "mined", "reverted", "replaced", "dropped"}
InFlight == {"stored", "prepared", "waiting", "confirmed", "failing"}
Ended    == {"answered", "unmarked", "rejected", "lost"}
NoProof  == [step |-> "idle", status |-> "none", txHash |-> "null"]

Init ==
  /\ configured \in BOOLEAN
  /\ status = [m \in Msgs |-> "none"]
  /\ records = {}
  /\ anchored = {}
  /\ recorder = TRUE
  /\ tx = [m \in Msgs |-> "none"]
  /\ nonce = [m \in Msgs |-> 0]
  /\ mined = 0
  /\ pc = [m \in Msgs |-> "idle"]
  /\ proof = [m \in Msgs |-> NoProof]

Goto(m, from, to) ==
  /\ pc[m] = from
  /\ pc' = [pc EXCEPT ![m] = to]

----------------------------------------------------------------------------
(* The chain, as seen through the wallet.                                  *)

Pooled == {m \in Msgs : tx[m] = "pooled"}

\* getTransactionCount("pending"): mined transactions and those that follow
\* them in the mempool without a gap.
NextNonce ==
  LET taken == {nonce[m] : m \in Pooled}
  IN  mined + Cardinality({k \in mined .. mined + Cardinality(Msgs) :
                             mined .. k \subseteq taken})

\* The node takes the transaction; one that holds the same nonce makes way.
EnterPool(m) ==
  tx' = [n \in Msgs |->
           CASE n = m -> "pooled"
             [] n # m /\ tx[n] = "pooled" /\ nonce[n] = nonce[m] -> "replaced"
             [] OTHER -> tx[n]]

\* The next transaction of the wallet is mined; recordHash reverts when the
\* wallet is no recorder or the message is recorded already.
Mine(m) ==
  /\ tx[m] = "pooled"
  /\ nonce[m] = mined
  /\ mined' = mined + 1
  /\ IF recorder /\ m \notin anchored
       THEN tx' = [tx EXCEPT ![m] = "mined"] /\ anchored' = anchored \cup {m}
       ELSE tx' = [tx EXCEPT ![m] = "reverted"] /\ UNCHANGED anchored
  /\ UNCHANGED <<configured, status, records, recorder, nonce, pc, proof>>

\* The node evicts a transaction.
Drop(m) ==
  /\ tx[m] = "pooled"
  /\ tx' = [tx EXCEPT ![m] = "dropped"]
  /\ UNCHANGED <<configured, status, records, anchored, recorder, nonce, mined, pc, proof>>

\* setRecorder by the contract's owner.
SetRecorder ==
  /\ recorder' = ~recorder
  /\ UNCHANGED <<configured, status, records, anchored, tx, nonce, mined, pc, proof>>

----------------------------------------------------------------------------
(* The send request.                                                       *)

\* The INSERT is not awaited and its failure goes unnoticed.
FaultyCreate(m) ==
  /\ Goto(m, "idle", "stored")
  /\ UNCHANGED <<configured, status, records, chain, proof>>

Create(m) ==
  /\ Goto(m, "idle", "stored")
  /\ status' = [status EXCEPT ![m] = "pending"]
  /\ UNCHANGED <<configured, records, chain, proof>>

\* A duplicate nonce, an unknown recipient, a lost connection: 409 or 500.  In
\* the last case the row may be there all the same.
CreateFails(m) ==
  /\ Goto(m, "idle", "rejected")
  /\ status' \in {status, [status EXCEPT ![m] = "pending"]}
  /\ UNCHANGED <<configured, records, chain, proof>>

SkipUnconfigured(m) ==
  /\ ~configured
  /\ Goto(m, "stored", "answered")
  /\ UNCHANGED <<configured, status, records, chain, proof>>

\* recordHash populates the transaction: the gas estimate reverts unless the
\* wallet is a recorder, and the nonce is what the node reports now.
Prepare(m) ==
  /\ configured
  /\ recorder
  /\ Goto(m, "stored", "prepared")
  /\ nonce' = [nonce EXCEPT ![m] = NextNonce]
  /\ UNCHANGED <<configured, status, records, anchored, recorder, tx, mined, proof>>

Broadcast(m) ==
  /\ nonce[m] >= mined
  /\ Goto(m, "prepared", "waiting")
  /\ EnterPool(m)
  /\ UNCHANGED <<configured, status, records, anchored, recorder, nonce, mined, proof>>

\* The node takes the transaction and its answer is lost: recordHash throws.
BroadcastAnswerLost(m) ==
  /\ nonce[m] >= mined
  /\ Goto(m, "prepared", "failing")
  /\ EnterPool(m)
  /\ UNCHANGED <<configured, status, records, anchored, recorder, nonce, mined, proof>>

\* The catch block of onMessageSent only logs.
FaultySwallow(m) ==
  /\ configured
  /\ Goto(m, "stored", "answered") \/ Goto(m, "prepared", "answered")
  /\ UNCHANGED <<configured, status, records, chain, proof>>

\* recordHash throws with nothing sent: no RPC, not a recorder, a nonce that
\* is used up or taken by a transaction of no lower fee.
SubmitFails(m) ==
  /\ configured
  /\ Goto(m, "stored", "failing") \/ Goto(m, "prepared", "failing")
  /\ UNCHANGED <<configured, status, records, chain, proof>>

\* Any transaction with the nonce is taken for the one that was sent.
FaultyConfirmedByNonce(m) == mined > nonce[m]

\* The receipt tx.wait() resolves with is that of the transaction itself.
Confirmed(m) == tx[m] = "mined"

\* The wait ends with the receipt only.
FaultyWait(m) ==
  /\ Confirmed(m)
  /\ Goto(m, "waiting", "confirmed")
  /\ UNCHANGED <<configured, status, records, chain, proof>>

\* tx.wait() ends: with the receipt, or throwing because the transaction
\* reverted or another one with its nonce was mined.  It has no timeout.
Wait(m) ==
  /\ \/ Confirmed(m) /\ Goto(m, "waiting", "confirmed")
     \/ /\ ~Confirmed(m)
        /\ \/ tx[m] = "reverted"
           \/ tx[m] \in {"replaced", "dropped"} /\ mined > nonce[m]
        /\ Goto(m, "waiting", "failing")
  /\ UNCHANGED <<configured, status, records, chain, proof>>

\* tx.wait() throws on a provider error, whatever becomes of the transaction.
WaitBreaks(m) ==
  /\ Goto(m, "waiting", "failing")
  /\ UNCHANGED <<configured, status, records, chain, proof>>

\* The two statements are not in one transaction and the INSERT got lost.
FaultyRecordEntry(m) ==
  /\ Goto(m, "confirmed", "answered")
  /\ status' = [status EXCEPT ![m] = "recorded"]
  /\ UNCHANGED <<configured, records, chain, proof>>

\* The transaction of recordChainEntry.
WriteEntry(m) ==
  /\ records' = records \cup {m}
  /\ status' = [status EXCEPT ![m] = "recorded"]

RecordEntry(m) ==
  /\ Goto(m, "confirmed", "answered")
  /\ WriteEntry(m)
  /\ UNCHANGED <<configured, chain, proof>>

\* recordChainEntry throws; the COMMIT may have taken effect all the same.
RecordEntryFails(m) ==
  /\ Goto(m, "confirmed", "failing")
  /\ WriteEntry(m) \/ UNCHANGED rows
  /\ UNCHANGED <<configured, chain, proof>>

\* The flag is the word the comments use, which the column does not know.
FaultyMark(m) ==
  /\ Goto(m, "failing", "answered")
  /\ status' = [status EXCEPT ![m] = "chain_failed"]
  /\ UNCHANGED <<configured, records, chain, proof>>

MarkChainFailed(m) ==
  /\ Goto(m, "failing", "answered")
  /\ status' = [status EXCEPT ![m] = "failed"]
  /\ UNCHANGED <<configured, records, chain, proof>>

\* The error is logged and swallowed.
MarkFails(m) ==
  /\ Goto(m, "failing", "unmarked")
  /\ UNCHANGED <<configured, status, records, chain, proof>>

\* The backend process dies; its transactions stay in the mempool.
Crash ==
  /\ \E m \in Msgs : pc[m] \in InFlight
  /\ pc' = [m \in Msgs |-> IF pc[m] \in InFlight THEN "lost" ELSE pc[m]]
  /\ UNCHANGED <<configured, status, records, chain, proof>>

----------------------------------------------------------------------------
(* GET /:id/chain, past its access check.                                  *)

ReadRow(m) ==
  /\ status[m] # "none"
  /\ proof[m] = NoProof
  /\ proof' = [proof EXCEPT ![m] =
                 [step |-> "read", status |-> status[m], txHash |-> "null"]]
  /\ UNCHANGED <<configured, status, records, chain, pc>>

ReadRecord(m) ==
  /\ proof[m].step = "read"
  /\ proof' = [proof EXCEPT ![m] =
                 [step |-> "shown", status |-> proof[m].status,
                  txHash |-> IF m \in records THEN "hash" ELSE "null"]]
  /\ UNCHANGED <<configured, status, records, chain, pc>>

----------------------------------------------------------------------------
HandlerStep(m) ==
  \/ SkipUnconfigured(m)
  \/ Prepare(m)
  \/ Broadcast(m)
  \/ SubmitFails(m)
  \/ Wait(m)
  \/ RecordEntry(m)
  \/ MarkChainFailed(m)

Next ==
  \/ \E m \in Msgs :
       \/ Create(m)
       \/ CreateFails(m)
       \/ HandlerStep(m)
       \/ BroadcastAnswerLost(m)
       \/ WaitBreaks(m)
       \/ RecordEntryFails(m)
       \/ MarkFails(m)
       \/ Mine(m)
       \/ Drop(m)
       \/ ReadRow(m)
       \/ ReadRecord(m)
  \/ SetRecorder
  \/ Crash

\* Node runs the handlers it has started, and the database and the RPC node
\* answer them.  Nothing is owed by clients, failures or the contract's owner.
HandlerFairness == \A m \in Msgs : WF_vars(HandlerStep(m))

\* Sepolia produces blocks.
ChainFairness == \A m \in Msgs : WF_vars(Mine(m))

Spec == Init /\ [][Next]_vars /\ HandlerFairness /\ ChainFairness

----------------------------------------------------------------------------
(* Properties.                                                             *)

\* Every variable holds a value of its kind.
TypeOK ==
  /\ configured \in BOOLEAN
  /\ status \in [Msgs -> Statuses]
  /\ records \in SUBSET Msgs
  /\ anchored \in SUBSET Msgs
  /\ recorder \in BOOLEAN
  /\ tx \in [Msgs -> TxStates]
  /\ nonce \in [Msgs -> Nat]
  /\ mined \in Nat
  /\ pc \in [Msgs -> InFlight \cup Ended \cup {"idle"}]
  /\ proof \in [Msgs -> [step : {"idle", "read", "shown"},
                         status : Statuses, txHash : {"hash", "null"}]]

\* The server never claims an anchor that is not there: a message reported as
\* recorded has its row in blockchain_records, and every such row names a
\* message whose own digest the contract holds, whichever transactions of the
\* wallet replaced each other (recordDigest, recordChainEntry).
RecordedIsAnchored ==
  /\ \A m \in Msgs : status[m] = "recorded" => m \in records
  /\ records \subseteq anchored

\* Only stored messages are anchored: the chain never holds a digest of a
\* message the database does not have (sendMessage awaits the INSERT).
AnchoredWasStored ==
  \A m \in Msgs : m \in anchored \cup Pooled => status[m] # "none"

\* A chain proof that says "recorded" carries its transaction hash, whatever
\* was written between the two reads of getChainProof.
ProofHasTx ==
  \A m \in Msgs :
    proof[m].step = "shown" /\ proof[m].status = "recorded" =>
      proof[m].txHash = "hash"

\* A send the configured server has answered is settled: its row says recorded
\* or failed, so that a retry worker can find what is left to do, except where
\* recording the failure failed too (onMessageSent).
SettledWhenAnswered ==
  \A m \in Msgs : configured /\ pc[m] = "answered" => status[m] \in {"recorded", "failed"}

\* While Sepolia produces blocks every stored send is answered, unless the
\* process dies or the node evicts a transaction of the wallet, which leaves
\* a gap that later transactions wait behind.
SendAnswered ==
  \A m \in Msgs :
    (pc[m] = "stored") ~> (pc[m] \in Ended \/ \E n \in Msgs : tx[n] = "dropped")

\* "Tracks whether the digest has been written to Sepolia": a message whose
\* chain write is reported as failed is not anchored.
StatusTracksAnchor ==
  \A m \in Msgs : status[m] = "failed" => m \notin anchored
=============================================================================
