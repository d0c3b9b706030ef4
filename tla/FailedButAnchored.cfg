SPECIFICATION Spec
CONSTANTS
  Msgs = {m1, m2}
INVARIANTS
  StatusTracksAnchor
CHECK_DEADLOCK FALSE
