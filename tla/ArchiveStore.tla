---------------------------- MODULE ArchiveStore ----------------------------
(***************************************************************************)
(* What the local archive promises its user: one store of messages under   *)
(* one key.  Adding a message and changing the key are indivisible steps.  *)
(* A message never leaves the store, a change of the password moves the    *)
(* key on by one and leaves every message in place, and only the step that *)
(* adds a message tells the user that it is archived.                      *)
(***************************************************************************)
EXTENDS Naturals

CONSTANTS
  Downloads  (* messages that can be downloaded                             *)

VARIABLES
  key,       (* the password the store opens with, 0 while there is none    *)
  stored,    (* the messages in the store                                   *)
  told       (* the messages the user was told are in it                    *)

storeVars == <<key, stored, told>>

StoreInit == key = 0 /\ stored = {} /\ told = {}

\* Nobody is told when the window was closed in the meantime.
Put(m) ==
  /\ stored' = stored \cup {m}
  /\ told' \in {told, told \cup {m}}

\* The first message creates the store, under the key of the day.
Create(m) ==
  /\ key = 0
  /\ key' \in Nat \ {0}
  /\ Put(m)

Add(m) ==
  /\ key # 0
  /\ UNCHANGED key
  /\ Put(m)

Rekey ==
  /\ key # 0
  /\ key' = key + 1
  /\ UNCHANGED <<stored, told>>

StoreNext ==
  \/ \E m \in Downloads : Create(m) \/ Add(m)
  \/ Rekey

StoreSpec == StoreInit /\ [][StoreNext]_storeVars
=============================================================================
