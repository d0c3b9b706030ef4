SPECIFICATION Spec
CONSTANTS
  Msgs = {m1, m2}
INVARIANTS
  TypeOK
  RecordedIsAnchored
  AnchoredWasStored
  ProofHasTx
  SettledWhenAnswered
PROPERTIES
  SendAnswered
CHECK_DEADLOCK FALSE
