SPECIFICATION Spec
CONSTANTS
  Slots = {s1}
  Keys = {k1, k2}
  Requests = {r1, r2, r3}
  NoKey = NoKey
  PoolSize = 2
INVARIANTS
  TypeOK
  HistoryComplete
  AnswersDurable
PROPERTIES
  NoSilentSwap
  RefinesRegistry
  EveryPublishAnswered
CHECK_DEADLOCK FALSE
