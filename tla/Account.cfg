SPECIFICATION Spec
CONSTANTS
  Accounts = {alice, bob}
  Nobody = Nobody
  Workers = {w1, w2}
  MaxPasswords = 2
  MaxKeystores = 3
  MaxFaults = 1
SYMMETRY Symmetric
INVARIANTS
  TypeOK
  SerialUnlocks
  SerialKeysKept
  SerialCachesApart
CHECK_DEADLOCK FALSE
