\* The sharded store with expiry (internal/kv).
SPECIFICATION Spec
CONSTANTS
  a = a
  b = b
  Keys = {a, b}
  Vals = {v1, v2}
  Callers = {c1, c2}
  Janitor = janitor
  Missing = Missing
  NoAsk = NoAsk
  Hash <- MCHash
  Shards = 2
  TTLs = {0, 1}
  MaxTime = 2
  MaxCalls = 3
INVARIANTS
  LenSound
PROPERTIES
  ImplementsStore
  JanitorServes
CHECK_DEADLOCK FALSE
