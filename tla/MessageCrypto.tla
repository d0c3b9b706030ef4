---------------------------- MODULE MessageCrypto ----------------------------
(***************************************************************************)
(* The message layer of the client: how a message is sealed and in which   *)
(* order a received one is checked.  Primitives are symbolic: a key         *)
(* exchange yields the unordered pair of the two X25519 keys, a ciphertext  *)
(* remembers the key, the nonce and the additional data it was made with,   *)
(* a signature the payload and the signer.  A key pair is one value, which  *)
(* stands for its private half where the owner uses it and for its public   *)
(* half elsewhere.  Base64 and text encodings are left out.                 *)
(***************************************************************************)
EXTENDS Naturals

\* Static X25519 followed by HKDF-Expand: either side derives the same key.
MessageKey(mine, peer) == [info |-> "zebra-msg-v1", dh |-> {mine, peer}]

Aad(sender, recipient, seqNo) == <<sender, recipient, seqNo>>

Encrypt(key, nonce, text, aad) == [key |-> key, nonce |-> nonce, text |-> text, aad |-> aad]

\* Can the ciphertext be decrypted; otherwise InvalidTag is raised.
Decrypts(key, nonce, ciphertext, aad) ==
  /\ ciphertext.key = key
  /\ ciphertext.nonce = nonce
  /\ ciphertext.aad = aad

SignedPayload(sender, recipient, seqNo, ciphertext, nonce) ==
  <<sender, recipient, seqNo, ciphertext, nonce>>

Sign(payload, signer) == [payload |-> payload, signer |-> signer]

Verify(payload, signature, signer) == signature = Sign(payload, signer)

Digest(text) == [keccak256 |-> text]

\* me and peer are records [id, x, ed]: an account with its two key pairs.
Seal(text, nonce, me, peer, seqNo) ==
  LET ciphertext == Encrypt(MessageKey(me.x, peer.x), nonce, text,
                            Aad(me.id, peer.id, seqNo))
  IN  [ciphertext |-> ciphertext,
       nonce      |-> nonce,
       signature  |-> Sign(SignedPayload(me.id, peer.id, seqNo, ciphertext, nonce), me.ed),
       seqNo      |-> seqNo,
       digest     |-> Digest(text)]

\* No message of the sender has been accepted yet: last_recv_seq returns None
\* (a sequence number is at least 1).
NoneSeen == 0

\* What opening a message gives: "ok" or the exception raised.  The checks run
\* in the order signature, replay, decryption.
OpenResult(fields, sender, recipient, myX, peerX, peerEd, last, enforceReplay) ==
  LET payload == SignedPayload(sender, recipient, fields.seqNo, fields.ciphertext,
                               fields.nonce)
      key     == MessageKey(myX, peerX)
  IN  IF ~Verify(payload, fields.signature, peerEd)
        THEN "SignatureError"
      ELSE IF enforceReplay /\ last # NoneSeen /\ fields.seqNo <= last
        THEN "ReplayError"
      ELSE IF ~Decrypts(key, fields.nonce, fields.ciphertext,
                        Aad(sender, recipient, fields.seqNo))
        THEN "InvalidTag"
      ELSE "ok"

\* receive: a message of peer, opened with the keys pinned for it.
Receive(fields, me, peer, last, enforceReplay) ==
  OpenResult(fields, peer.id, me.id, me.x, peer.x, peer.ed, last, enforceReplay)

\* decrypt_own: a message this account sent, opened with the recipient's pinned
\* key and checked against the account's own signature, for display only.
DecryptOwn(fields, me, peer) ==
  OpenResult(fields, me.id, peer.id, me.x, peer.x, me.ed, NoneSeen, FALSE)

Plaintext(fields) == fields.ciphertext.text
=============================================================================
