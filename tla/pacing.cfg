\* retry.Do around operations that take tokens from one ratelimit.Bucket.
SPECIFICATION Spec
CONSTANTS
  Callers = {c1, c2}
  Doers = {c1, c2}
  Patient = {c1}
  Weights = {1, 2}
  Rate = 3
  Unit = 2
  Burst = 2
  MaxAge = 2
  MaxBack = 1
  NoWait = NoWait
  Policies <- MCPolicies
INVARIANTS
  BucketIdeal
  AttemptsBounded
PROPERTIES
  DoReturns
