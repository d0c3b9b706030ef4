SPECIFICATION Spec
CONSTANTS
  Threads = {t1, t2}
  Messages = {m1, m2}
  Absent = Absent
  MaxChanges = 2
  MaxFaults = 2
SYMMETRY Symmetric
INVARIANTS
  TypeOK
  SerialArchiveWhole
  SerialDownloadsKept
  ArchiveFollowsPassword
PROPERTIES
  RefinesStore
CHECK_DEADLOCK FALSE
