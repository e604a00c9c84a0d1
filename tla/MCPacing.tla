------------------------------ MODULE MCPacing ------------------------------
(* Two callers, one of which waits for tokens while the other asks and       *)
(* retries; the zero policy, and one whose base is above its maximum, with   *)
(* jitter.                                                                   *)
EXTENDS Pacing

Policy(a, b, m, num, den, j) ==
  [maxAttempts |-> a, baseDelay |-> b, maxDelay |-> m,
   multNum |-> num, multDen |-> den, jitNum |-> j, jitDen |-> 2]

MCPolicies == {Policy(0, 0, 0, 0, 1, 0),
               Policy(3, 2, 1, 3, 2, 1)}
=============================================================================
