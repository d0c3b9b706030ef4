# A TLA+ verification project for Zebra, an end-to-end encrypted messenger

The repository holds a Node.js relay server (`src/backend`), a Python desktop
client (`src/client`), a Solidity contract that anchors message digests
(`src/contracts`), a C++ program that keeps an encrypted local archive
(`src/message-store`) and a verification page. The server stores ciphertext,
public keys and access rights; everything secret lives in the client.

The modules here model the parts of the system that have state and that several
actors change at the same time. Every definition is translated from the source;
`PROJECT.json` says for each one which lines it stands for, and lists under
`hazards` what is hard to test in this code and which property is about it.

## 1. Inventory

| component | state | operations | what is hard about it | modelled by |
|---|---|---|---|---|
| key directory (`KeyRepository`, `KeyService`) | `public_keys`, `public_key_history`, row and gap locks, connection pool | publish (pin, confirm, refuse, rotate), read, history | concurrent publishes of one slot, deadlock on the gap, lost COMMIT answers, crash inside a transaction | `KeyDirectory`, `KeyRegistry` |
| message relay (`MessageService`, `MessageRepository`) | `messages` with `deleted_at`, `message_shares` with `revoked_at` | send, get, inbox, sent, forward, revoke, delete, delete a forward | access is checked in one statement and used in a later one | `MessageAccess`, `MessageSharing` |
| anchoring (`BlockchainService`, `MessageDigest.sol`) | `chain_status`, `blockchain_records`, the contract's records and recorders, the wallet's nonces, the mempool | record a digest, mark a failure, read a proof | one wallet for all sends, errors that leave the transaction alive, an outage of the chain, a crash between chain and database | `ChainAnchor` |
| authentication (`AuthService`, `UserRepository`, `LoginAttemptRepository`, `middleware/auth.js`) | `users`, `login_attempts`, tokens | register, login with lock-out, change password, verify a token | counts, rows and stamps that are read before and used after an `await`; stamps in whole seconds | `AuthServer` |
| keystore file and message cache (`keystore.py`) | send and receive counters, pinned keys, wrapped private keys, cache file | pin, number a message, accept a number, cache; create, unlock, change password | no lock: each method loads the file, changes it and replaces it, and threads overlap | `ClientKeystore` (counters, pins, cache), `Account` (create, unlock, change) |
| message cryptography (`messaging.py`, `kdf.py`, `aead.py`, `signing.py`) | none | seal, open, decrypt a message of one's own | which key, nonce, additional data and signature each check compares, and in which order | `MessageCrypto` |
| client windows (`main_frame.py`, `inbox_frame.py`, `compose_frame.py`, `message_frame.py`) | conversations, open chat, bubbles, banner, the session's plaintexts, threads, the event queue | load, send, forward, new chat, open, delete | a load every ten seconds whether or not the last one ended; lists that are replaced as a whole by older ones | `MainWindow`; the keystore's part of a send and a poll in `ClientKeystore` |
| key trust (`key_service.py`, `widgets.py`) | pins against the directory | pin on first contact, warn, accept, reject, reconcile | the key that is accepted is fetched again; a warning is set by one thread and cleared by another | `MainWindow` |
| account lifecycle in the client (`auth_service.py`, `login_frame.py`, `register_frame.py`, `main_frame.py`, `app.py`) | session, current keystore, keystore and cache files, windows | register, login, password change, log out | the password change has several steps on several stores, each of which may fail; threads that outlive a logout | `Account` |
| local archive (`Archive.cpp`, `main.cpp`, `message_frame.py`) | archive file and its temporary file | add, rekey; get, list and view only read | processes share one temporary file name; the key follows the keystore | `LocalArchive`, `ArchiveStore` |
| HTTP surface, rate limiters, widgets, verification page, deployment | none of their own | | | not modelled |

How they interact: the client calls the server over HTTP with a ten second
timeout; `sendMessage` calls `BlockchainService` and waits for it before it
answers; the client's `MessageService` calls `KeyService`, which reads the key
directory and pins what it finds; sends and polls share the keystore file and the
plaintext cache; workers tell the window what they found by `app.after`; the
password change goes from the server to the keystore, the cache and the archive.

What makes each one correct:

- key directory: the trail of a slot has one row per version, a current key is
  never replaced without an acknowledgement and an archived row, what a caller was
  told stays true, and concurrent transactions amount to single steps;
- relay: nobody reads or forwards what nobody gave them, a share goes back to a
  party, the lists and the row check agree, and handlers of several statements amount
  to single steps;
- anchoring: "recorded" means on the chain, a digest on the chain belongs to a
  stored message, a proof is consistent, a send ends;
- authentication: a token does not outlive the password it was obtained with, the
  lock-out holds up to the attempts that run at once, a name is one account's;
- keystore: numbers increase and are not reused, the keystore forgets nothing,
  nothing altered is accepted, a message that arrived is shown in the end;
- windows: the open chat is consistent with the conversations, which in the end are
  what the server lists, and what can be read is read;
- account: the server's password opens keystore and cache, no published identity is
  lost, accounts share no cache;
- archive: a whole file under a known key, which keeps what the user was told is in it;
  an add or a rekey takes effect in full or not at all.

## 2. Modules

| module | role |
|---|---|
| `KeyRegistry` | abstract specification of the key directory: an append-only trail of keys per slot, one indivisible step per publish |
| `KeyDirectory` | the transaction of `KeyRepository.publishKey`, statement by statement; implements `KeyRegistry` (`RefinesRegistry`) |
| `MessageSharing` | abstract specification of the relay: who sent, gave, has and was returned a message, in indivisible steps |
| `MessageAccess` | the relay's handlers, one step per SQL statement; implements `MessageSharing` (`RefinesSharing`) |
| `ChainAnchor` | `BlockchainService`, the contract, the wallet's transactions, the chain proof |
| `AuthServer` | registration, login, tokens and password change, one step per SQL statement |
| `MessageCrypto` | operators: how a message is sealed and in which order a received one is checked |
| `ClientKeystore` | the client's threads on the keystore file and the message cache; opens messages with `MessageCrypto` |
| `MainWindow` | the main window, its event queue and its threads, peers and their keys; opens messages with `MessageCrypto` |
| `Account` | the accounts of one machine over server, keystore, cache and windows |
| `ArchiveStore` | abstract specification of the archive: one store under one key, which only grows |
| `LocalArchive` | the archive's processes on file names and inodes; implements `ArchiveStore` (`RefinesStore`) |
| `...Proofs` | theorems about the module of that name and their proofs |
| `MC...` | the instance TLC checks of each of them |

Operators named `Faulty...` are not part of any specification. Each one is a slip
that would be easy to make in the code, and `PROJECT.json` pairs it with the
property that catches it.

`ClientKeystore`, `Account` and
`LocalArchive` choose `overlap` initially: without it a thread starts only when none
is running. That way one specification says both what a thread guarantees by itself
(properties named `Serial...`) and what survives overlapping threads. The code does
nothing to keep threads apart, so the serial properties are about the order of the
steps inside a thread, about failures and about restarts; findings say where overlap
breaks a promise.

### KeyDirectory

A handler `r` goes through `idle`, `queued`, `begun`, `selected` and then one of the
branches of `publishKey`: `InsertFirst` for a missing row, `CommitUnchanged`,
`CommitRefused`, or `Archive` and `Update`. `Commit` makes the writes visible.
`Begin` takes one of `PoolSize` connections. `LockGranted` is what InnoDB does for
`SELECT ... FOR UPDATE`: an existing row is locked exclusively, a missing row
leaves a gap lock that several transactions can hold at once, so two first
publishes can wait for each other to insert; MySQL then aborts one of them
(`DeadlockVictim`). `CommitAnswerLost` and `Rollback` are the two ways a handler
ends with an error, `Crash` is the end of the process. The UNIQUE indexes are left
out on purpose: the properties hold without them.

### MessageAccess

`Send`, `SoftDelete` and `SoftDeleteShare` are single statements. A get, a forward
and a revoke are handlers: `FindById` reads the message and applies the checks on
the row, `FindSharedWith` reads the shares when the caller is no party, and
`CreateShare` or `RevokeShare` is the later write. All other handlers and statements
may run in between. `Inbox` and `Sent` are what the four list queries return, over
all pages. A forward's share is named by its request, as each forward creates one
row at most.

`MessageSharing` is what this amounts to: a relation of who gave a message to whom,
whom it is shared with now, and to whom it was returned. Its guards are the promise.
A read is answered to a party of a message that is not deleted or to a user it is shared
with at that moment; a forward needs a forwarder who was given the message at some
time; a share ends only by the sender or by someone who gave it. Where the code's two
statements leave a gap, the abstract guard has to leave it too: a delete may cross the
read of a user the message was forwarded to, and a forward may cross the withdrawal of
its own forwarder's share. Everything else is a step of `MessageSharing` or a stutter.

### ChainAnchor

The send of a message goes through `Create` (the INSERT), `Prepare` (gas estimate
and nonce), `Broadcast`, `Wait` and `RecordEntry`; everything that throws leads to
`failing` and `MarkChainFailed`. The wallet's transactions have nonces: two sends
may get the same nonce, and then one replaces the other in the mempool or is
refused. `Mine` runs `recordHash`, which reverts unless the wallet is a recorder and
the message is new. `WaitBreaks`, `BroadcastAnswerLost` and `RecordEntryFails` are
the errors after which the transaction lives on. `ReadRow` and `ReadRecord` are the
two reads of `getChainProof`.

### AuthServer

A handler `h` is idle or holds what its request has read so far. Registration is
`StartRegister` (`findByUsername` finds nobody) and `Insert`, which the unique index
may refuse. A login reads the row (`StartLogin`), counts the failures of the last
`Window` seconds (`CountFailures`), and then either records one more or clears them
(`failures` is the table's rows, numbered where two fall into one second);
`SignToken` stamps the token with `password_changed_at` of the row read first. A
password change needs a token that `verifyToken` accepts (`Accepts`), compares the
current password (`FindOwn`) and updates the row whatever it holds by then
(`UpdatePassword`). `now` counts seconds and `Tick` moves it at any time, so that any
number of steps may fall into one second. `tokens` and `passwords` keep, as history,
which password a token was obtained with and when each password was set.

### MessageCrypto

`Seal`, `OpenResult`, `Receive` and `DecryptOwn` over symbolic primitives: a
ciphertext remembers the key, the nonce and the additional data it was made with, a
signature the payload and the signer. The order of the checks, signature before
replay before decryption, is the code's, and so is the exception each one gives. The
module has no state; the modules that open messages use it, and their properties
(`OnlyGenuineAccepted`, `ReadableIsRead`) fail when one of its checks is left out or
compares the wrong thing.

### ClientKeystore

A thread is a worker that sends or polls. `LoadToPin`/`SavePin`,
`LoadSendSeq`/`SaveSendSeq` and `ReadRecvSeq`/`Open`/`SaveRecvSeq` are the reads and
the replacement of the keystore file inside one method; `SnapshotCache`/
`ReplaceCacheFile` are the two halves of `save_message_cache`. `Open` is `receive` with
its replay check and with what `_decrypt_inbox` does when that check fails: it opens
the message once more without it. The server may serve an altered copy of a message
(`Wire`). Peers keep their keys here, and the two keys of a peer are pinned as one.

### MainWindow

The thread of the user interface takes events from `queue` in order (`Populate`,
`NewChat`, `ShowSent`, `Warn`, `ClearWarning`, `Reload`); workers put them there with
`After` when they end. A load is `FetchInbox`, `FetchSent`, one `Read` per message
received and one per recipient of messages sent (`_decrypt_inbox`, `_decrypt_sent`) and
`FinishLoad`; a send or forward is `SendKeys`, `Post` and its answer, which may be lost.
`Populate` replaces all conversations by what the load fetched, however old, keeps a
shell for the chat that is open (`Restored`) and redraws only when the number of its
messages differs (`Outdated`). Peers send, delete and rotate keys at any time
(`Peer`). `fetch_and_pin` is one step here; `ClientKeystore` takes it apart.

### Account

Every button starts a thread: `StartRegister` (`Register`, `ClearKeystore`,
`MakeKeystore`), `StartLogin` (`LogIn`, `Unlock`, `Publish`, `Enter`, `ShowMain`),
`StartPoll` (`Fetch`, `OpenMessages`, `SaveCounter`, `SaveCache`) and `StartChange`
(`ChangeAtServer`, `LoadWrapped`, `Rewrap`, `Recache`, `CloseDialog`). Threads share the
application's current user, token and keystore (`app`) and outlive the window that
started them. `LogOut` leaves the keystore object with the application, as
`_logout` does. A `Keystore` object is an index of `keystores`; a KEK is a password
with the keystore's salt. `RequestFails`, `AnswerLost` and `Crash` are the faults.
The server's side of a request is one step, since `AuthServer` takes it apart.

### LocalArchive

`archive` and `temp` are the two file names and `data` what the inodes hold. `Download`
starts a thread and its `add` process; `Change` derives the old key, `Rewrap` re-wraps
the keystore and `StartRekey` starts the `rekey` process. A process loads the archive
(`Load`), opens the temporary file with O_TRUNC (`OpenTemp`), writes (`Write`) and
renames (`Rename`): it renames whatever the name refers to by then. `WriteFails` removes
the temporary name, `ProcessDies` leaves it behind, and after `ClientDies` processes run
on without anybody who waits for them.

`ArchiveStore` has one key, one set of messages and what the user was told. `Rename` is
the step it sees: of an add as `Create` or `Add`, of a rekey as `Rekey`. All that comes
before a rename, and every fault, is a stutter. The mapping is that of behaviours
without overlap; with it there is no such store, since processes lose each other's
records, and the mapping says nothing.

## 3. Runs

| run | instance | shows |
|---|---|---|
| `key_directory` | 1 slot, 2 keys, 3 requests, 2 connections | type, complete history, durable answers, no silent swap, refinement of `KeyRegistry`, every publish answered |
| `message_access` | 3 users, 1 message, 3 requests, symmetric in users and requests | type, provenance of shares, only holders are served, lists agree with the row check, refinement of `MessageSharing` |
| `chain_anchor` | 2 messages | type, recorded is anchored, anchored was stored, consistent proofs, settled answers, sends end |
| `failed_but_anchored` | the same | **violation**: `failed` and on the chain |
| `auth_server` | 2 ids, 1 name, 2 passwords, 2 requests at once, 2 failures allowed, a window of 1 s, a clock of 3 s, symmetric | type, tokens do not outlive a password, bounded lock-out, one account per name |
| `client_keystore` | 1 peer, 2 threads, 2 messages and an altered copy of which 2 arrive, 2 sends, 1 fault | type, increasing numbers and a keystore that forgets nothing with one thread at a time, nothing altered accepted and every genuine message shown also with overlapping threads |
| `counter_regress` | the same | **violation**: an overlapping thread takes the send counter back |
| `out_of_order` | the same | **violation**: a late message is shown |
| `main_window` | 1 peer with 2 keys, 1 message each way, 2 threads, 1 waiting event, 1 fault | type, the open chat has an entry and its bubbles match, conversations follow the server in the end, what can be read is read |
| `warning_lost` | the same without faults | **violation**: a changed key without a warning |
| `account` | 2 accounts, 2 threads, 2 passwords each, 3 keystore objects, 1 fault, symmetric | type, server, keystore and cache change hands together, published identities are kept, caches are apart |
| `local_archive` | 2 threads, 2 messages, 2 password changes, 2 faults, symmetric | type, the archive is whole, keeps what was saved and follows the password, refinement of `ArchiveStore` |

Why these sizes. One slot: slots share nothing but connections, and three requests
on one slot with two connections are enough for one to hold the lock, one to wait
for it and one to wait for a connection. Two keys allow rotation, re-publication and
rotation back. Three users make a forward of a forward possible (a chain of
provenance of length two), and three requests a forward, a second forward and a
revoke or a get that races them; messages share nothing. Two messages compete for
one nonce, and the third party a third transaction would be is covered by the proof
for any number. Two handlers on two ids are two registrations of one name, two logins
that count before either records, or a login across a password change; three seconds
are one before, one of and one after a change. Two threads are enough to lose an
update; two messages can arrive in the wrong order, and the altered copy gives the
second one the number of the first; one fault may be a crash or a lost answer at any
step. In the window, one peer who rotates once makes a message unreadable and readable
again, and two threads are two loads, or a load and anything else. Two accounts may
follow each other in one process, where a thread of the first lives on; two passwords
are one change. In the archive, two faults are a process that dies over the
leftover of another, and two changes re-key twice.

`MaxSends`, `MaxArrivals`, `MaxFaults`, `MaxPasswords`, `MaxKeystores`, `MaxChanges`,
`MaxKeys`, `MaxQueue` and `MaxTime` are the bounds that are not sizes of sets. `MaxQueue`
keeps a thread from starting while that many events wait; the event loop goes on. What
the proofs say holds for all of them. Deadlock is not looked for, since every system here
comes to rest once its requests are handled or a bound is reached.

Fairness. `KeyDirectory`: weak fairness of each handler, as Node runs what it has
started and MySQL answers; `CommitAnswerLost`, `Rollback` and `Crash` are owed
nothing. `ChainAnchor`: the same for send handlers, and weak fairness of `Mine`, that
is, Sepolia produces blocks. `ClientKeystore`: weak fairness of each thread and of
starting a poll, which `_schedule_poll` does every ten seconds. `MainWindow`: weak
fairness of each thread and of the event loop, strong fairness of `StartLoad`: the timer
starts a load whatever other threads do, where the model has only so many workers, which
others may keep taking. Requests that fail are bounded by `MaxFaults`, so the liveness
properties are about what happens once the network is back. `MessageAccess`,
`AuthServer`, `Account` and `LocalArchive` have safety properties only and assume none.

### What the violations say

1. `onMessageSent` (`BlockchainService.js:66-69`) writes `failed` for every error, also
   when the transaction is alive, so `chain_status` does not track "whether the digest
   has been written to Sepolia" (`init-db.js:88`). What holds, and is proved, is the
   other direction.
2. `next_send_seq` (`keystore.py:125-130`) and the other methods do not exclude each
   other, so the counter is not "monotonic" (CRYPTO-DESIGN.md:223) once threads overlap.
3. `_decrypt_inbox` (`main_frame.py:342-353`) shows what the replay check stopped,
   against CRYPTO-DESIGN.md:242. This is also why `InboxShown` holds.
4. `_decrypt_inbox` sets the warning only after a message was opened with the pinned key
   (`main_frame.py:334-340`): a message made with the changed key gets a placeholder and
   no warning, against src/client/README.md:458-459.

### What the code does otherwise

Behaviour met while modelling which no document denies outright, so no run is about it:
`forwardMessage` (`MessageService.js:94-98`) awaits the access check and inserts the
share in a later statement, so that a forward can take effect after its user lost
access (what holds, and is proved, is that the user was once given the message).
`tx.wait()` (`BlockchainService.js:94`) has no timeout and the request waits for it; the
message is stored by then, and the client gives up after ten seconds. A token whose
login was under way in the second of a password change is still accepted. With
overlapping threads, a poll can put back the keystore file it loaded before a password
change, and can save one account's messages in the cache file of the next; and two
archive processes can lose each other's records.

## 4. Proofs

Proved with TLAPS for every value of the constants, from the assumptions the modules
name: `NoKey`, `NoUser`, `NoMsg`, `NoPeer`, `Nobody` and `Absent` are none of the values they
stand beside, `PoolSize`, `MaxFailures`, `MaxPasswords` and the numbers of keys are
positive and the other bounds natural numbers, `Msgs`, `Ids`, `Handlers` and `Threads` are
finite, messages have peers, and a ciphertext is one somebody made.

| module | theorems |
|---|---|
| `KeyDirectoryProofs` | `TypeCorrect`, `HistoryIsComplete`, `AnswersAreDurable`, `SwapsAreAudited` (an action property), `DirectoryRefinesRegistry` |
| `MessageAccessProofs` | `TypeCorrect`, `SharesHaveProvenance`, `OnlyHoldersServed`, `ListsAgreeWithReads`, `AccessRefinesSharing` |
| `ChainAnchorProofs` | `TypeCorrect`, `RecordedAreAnchored`, `StoredBeforeAnchored`, `ProofsHaveTx`, `AnswersSettle` |
| `AuthServerProofs` | `TypeCorrect`, `TokensAreSound`, `LockoutIsBounded`, `NamesAreUnique` |
| `ClientKeystoreProofs` | `TypeCorrect`, `GenuineOnly`, `NoNumberTwice`, `KeystoreKeeps` (an action property) |
| `MainWindowProofs` | `TypeCorrect`, `OpenChatIsListed`, `ThreadIsDrawn` |
| `AccountProofs` | `TypeCorrect`, `UnlocksSerially`, `KeysKept`, `CachesApart` |
| `LocalArchiveProofs` | `TypeCorrect`, `ArchiveWhole`, `DownloadsKept`, `FollowsPassword`, `ArchiveRefinesStore` |

The argument is the same in each: an inductive invariant, shown to hold initially and
to be kept by each action, one lemma per action or per group of actions that end
alike. What the invariant needs beyond the property:

- `KeyDirectory`: `HistoryComplete` alone is not inductive, because a commit writes
  what the transaction read long before. `LocksMatchSteps` (locks are held exactly
  from the SELECT to the end), `RowLockExclusive` (an existing row has one holder) and
  `SeenIsCurrent` (what a holder read is still the committed row) give that the version
  written is the next one. `StepFacts` adds what each branch has established. The
  refinement maps a commit to `Pin` or `Rotate`, a lost answer to `Fail` with effect,
  a rollback to `Fail` without, and everything else to a stutter.
- `MessageAccess`: the provenance property quantifies over every set of forwards of a
  message and says that some forward of the set comes from a party or from a forward
  outside it. It is kept because a forward is granted only to somebody who was given the
  message (`ServedWereGiven`), and parties and the users of a share never change; marks do
  not matter. `InFlightAsked` and `UnsharedYet` say that a handler in flight has a
  request and has not created its share yet. The lists agree because a forwarder of a
  single share was given the message (`ForwarderHadIt`, the provenance of a set of
  one). The refinement needs one invariant more, `RevokersSent`: a revoke past its check
  is the sender's, and stays so because a message keeps its sender. A read maps to
  `Read` at its last statement, the write of a forward to `Forward`; that of a revoke, or of
  a deleted forward, maps to `Withdraw`, or to a stutter when another share with the
  same user is left (`MarksShared`).
- `ChainAnchor`: `MinedIsAnchored` and `ConfirmedIsMined` carry the receipt from the chain
  to the row; `StoredFirst` orders the INSERT before the broadcast; `SeenRecorded` says that
  a reader who saw `recorded` will find the record, which is never removed.
- `AuthServer`: the row a login read and the stamp of a token name a password and the
  second it was set in (`LoginsRemember`, `TokensRemember`), and nothing was set after the
  second the present row is stamped with (`RowsRemember`); so a token at or after that
  second was obtained with a password of that very second. `OneAccountPerName` is
  inductive with the type: only `Insert` makes names, and an update keeps them. The
  lock-out is counted before the attempt is recorded, so the bound is not inductive:
  `RoomForEach` strengthens it to the recent failures plus the logins that have passed
  the count and may each add one (`Verifying`), and the number of those is at most
  that of the handlers.
- `ClientKeystore`: `Accepted` says that every copy of the file in a thread's hands has
  counters that some sender used, and that a plaintext on its way to the cache was opened;
  it needs no assumption on overlap. `SerialOK` says, for one thread at a time, that a
  thread about to save holds the file as it is, changed in one entry, and that every
  number posted is at most the counter on disk.
- `MainWindow`: the shapes of threads and events come first, since a thread's batch is what
  its event adds to a chat; then `ActiveListed` and `ThreadCountMatches` hold together, by
  cases on what `Populate` does with the open chat. The type bounds keys and
  counts. `KeyBounds`: no key is pinned, fetched or sealed with before its peer published it.
  `Once`: a message has one thread that sends it or one event that says so, never both.
  `Tallies`: a chat lists a message at most once while that event is to come and at most
  twice after it, as a load may have listed the message before.
- `Account`: `Typed` says that the keystore objects and windows a thread refers to exist and
  that a thread of a window has that window's user and token. For one thread at a time,
  `SerialState` adds that at most one thread runs (`Alone`), that what is published and cached
  agrees with the file (`DiskAgrees`), that windows hold their own user's keystore
  (`WindowsAgree`) and, per step of the thread, what it has done so far. `CleanState`
  adds for the absence of faults that the file opens with the server's password, except between
  the server's change and the re-wrapping, and the cache with the file's KEK, except
  between re-wrapping and re-encrypting.
- `LocalArchive`: there is always a free inode, by counting names and open files; the file a
  process renames is the one it wrote in full, also over a leftover, because a leftover is
  truncated when it is opened; without faults the archive is under the key the next step
  of the one thread expects. For the refinement, `Aimed` says what the one thread will have
  written: from its load to its rename the archive is as it read it (`ArchiveStays`: only
  a rename touches what the archive's name refers to), an add keeps the key and
  carries one message more, a rekey moves the key on by one and carries none.

Only model-checked: liveness (`EveryPublishAnswered`, `SendAnswered`, `InboxShown`,
`ListFollowsServer`, `ReadableIsRead`), which is out of the prover's reach. Every
invariant, action property and refinement that a passing run checks is proved. What the four
violations show is a counterexample and has no proof.

## 5. Not modelled

- Client: the verdict of `reconcile`, the dialogs for details, chain proof and key
  history, the revoke button's dialog and the error texts show state and change none
  of the client's; the developer login, which needs no server, is demonstration code.
  Lists are fetched as a whole: the client asks for the first page of fifty only.
- Archive: `get`, `list` and the view of an old format only read.
- Server: expiry of tokens, hashes, the shape of inputs and answers, headers, logging and
  rate limits, which a library counts. Profile and lookup only read. UNIQUE indexes
  other than that of user names only turn an INSERT into a failure, which `CreateFails` and
  `Fail` cover. Foreign keys hold because the API never removes accounts.
- Cryptographic primitives, beyond what they compare; encodings.
- The verification page, which reads the chain and keeps nothing, and the deployment.

## 6. Plan

What is left, in this order:

1. `Messenger`: composition of a client's sends with the relay and the chain, with the
   ten second timeout and the user's second attempt.
2. Pages of lists in `MessageAccess` and `MainWindow`, with a message that slips off the
   first page before it was read.
3. An abstract specification of the keystore, of counters that only grow and pins that
   stay, for `ClientKeystore` without overlap to implement, and one of anchoring, in which
   a message goes from stored to anchored to recorded.
4. What holds of `ClientKeystore` and `LocalArchive` when threads do overlap, as invariants
   of their own: which records and counters can be lost, and which cannot.
