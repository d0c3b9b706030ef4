---------------------------- MODULE KeyRegistry ----------------------------
(***************************************************************************)
(* What the key directory promises: for every slot, that is for every user *)
(* and key type, an append-only trail of the keys that were ever pinned.   *)
(* The last key of a trail is the slot's current key, its position is the  *)
(* version, and everything before it is the audit trail.  A publish is one *)
(* indivisible step on the trail.                                          *)
(***************************************************************************)
EXTENDS Naturals, Sequences

CONSTANTS
  Slots,     (* (user_id, key_type) pairs                                   *)
  Keys,      (* public keys                                                 *)
  Requests   (* publish requests, each served once                          *)

VARIABLES
  trail,     (* trail[s]: every key ever pinned in slot s, oldest first     *)
  reply      (* reply[r]: what request r was answered, pending before that  *)

registryVars == <<trail, reply>>

Pending == [status |-> "pending", version |-> 0]
Failed  == [status |-> "failed",  version |-> 0]

RegistryInit ==
  /\ trail = [s \in Slots |-> <<>>]
  /\ reply = [r \in Requests |-> Pending]

Answer(r, status, version) ==
  /\ reply[r] = Pending
  /\ reply' = [reply EXCEPT ![r] = [status |-> status, version |-> version]]

\* The first key of a slot is trusted on first use.
Pin(r, s, k) ==
  /\ trail[s] = <<>>
  /\ trail' = [trail EXCEPT ![s] = <<k>>]
  /\ Answer(r, "pinned", 1)

\* Publishing the current key again changes nothing.
Confirm(r, s) ==
  /\ trail[s] # <<>>
  /\ Answer(r, "unchanged", Len(trail[s]))
  /\ UNCHANGED trail

\* A different key without an acknowledgement is refused.
Refuse(r, s) ==
  /\ trail[s] # <<>>
  /\ Answer(r, "rotation_required", Len(trail[s]))
  /\ UNCHANGED trail

\* A different, acknowledged key extends the trail by one version.
Rotate(r, s, k) ==
  /\ trail[s] # <<>>
  /\ trail[s][Len(trail[s])] # k
  /\ trail' = [trail EXCEPT ![s] = Append(@, k)]
  /\ Answer(r, "rotated", Len(trail[s]) + 1)

\* A failed request changed nothing, or its effect survived the failure.
Fail(r, s, k) ==
  /\ reply[r] = Pending
  /\ reply' = [reply EXCEPT ![r] = Failed]
  /\ \/ UNCHANGED trail
     \/ /\ trail[s] = <<>> \/ trail[s][Len(trail[s])] # k
        /\ trail' = [trail EXCEPT ![s] = Append(@, k)]

RegistryNext ==
  \E r \in Requests, s \in Slots, k \in Keys :
    \/ Pin(r, s, k)
    \/ Confirm(r, s)
    \/ Refuse(r, s)
    \/ Rotate(r, s, k)
    \/ Fail(r, s, k)

RegistrySpec == RegistryInit /\ [][RegistryNext]_registryVars
=============================================================================
