\* The shutdown coordinator (internal/shutdown).
SPECIFICATION ShutdownSpec
CONSTANTS
  Hooks = {h1, h2, h3}
  NameOf <- MCNameOf
  Closers = {c1, c2}
  HasTimeout = TRUE
INVARIANTS
  HooksInTurn
  NilMeansAll
PROPERTIES
  ShutdownReturns
CHECK_DEADLOCK FALSE
