SPECIFICATION Spec
CONSTANTS
  u1 = u1
  u2 = u2
  n1 = n1
  a = a
  b = b
  h1 = h1
  h2 = h2
  Ids = {u1, u2}
  Names = {n1}
  Passwords = {a, b}
  Handlers = {h1, h2}
  MaxFailures = 2
  Window = 1
  MaxTime = 2
SYMMETRY Symmetry
INVARIANTS
  TypeOK
  TokenSound
  LockoutBound
  OneAccountPerName
CHECK_DEADLOCK FALSE
