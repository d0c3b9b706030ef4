SPECIFICATION Spec
CONSTANTS
  Users = {alice, bob, carol}
  NoUser = NoUser
  Msgs = {m1}
  NoMsg = NoMsg
  Requests = {r1, r2, r3}
SYMMETRY Symmetry
INVARIANTS
  TypeOK
  ShareProvenance
  ServedWereGiven
  ListsMatchAccess
PROPERTIES
  RefinesSharing
CHECK_DEADLOCK FALSE
