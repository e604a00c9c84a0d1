------------------------------- MODULE Pacing -------------------------------
(* Callers that put retry.Do around an operation that first waits for a      *)
(* token of one shared ratelimit.Bucket, or asks for one and fails when there *)
(* is none: the two packages run together on one clock.                      *)
EXTENDS RateLimit, Retry

CONSTANTS Weights,  \* tokens an operation asks for
          Patient   \* the callers whose operation calls WaitN; the others call AllowN

ASSUME PacingAssumption == Doers = Callers /\ Weights \subseteq 1..Burst

VARIABLE working  \* callers whose operation has its tokens

vars == <<bucketVars, retryVars, working>>

Init == BucketInit /\ RetryInit /\ working = {}

\* An attempt begins: WaitN, or AllowN with its answer at once.
Attempt(c) == \E n \in Weights :
  /\ Begun(c)
  /\ \/ c \in Patient /\ CallWait(c, n) /\ UNCHANGED working
     \/ c \notin Patient /\ Allowed(n) /\ working' = working \union {c}
     \/ c \notin Patient /\ Denied(n) /\ UNCHANGED working

GetTokens(c) == /\ Granted(c)
                /\ working' = working \union {c}
                /\ UNCHANGED retryVars

WaitOn(c) == /\ Short(c)
             /\ UNCHANGED <<retryVars, working>>

\* WaitN returns the context's error, which Retryable may accept or not.
GiveUp(c) == /\ WaitCancelled(c) /\ c \in ended
             /\ \E r \in {"failed", "fatal"} : OpEnds(c, r)
             /\ UNCHANGED working

\* The operation ends: as it likes with its tokens, with an error without.
Finish(c) == /\ waits[c] = NoWait
             /\ \E r \in {"ok", "failed", "fatal"} :
                  /\ c \notin working => r # "ok"
                  /\ OpEnds(c, r)
             /\ working' = working \ {c}
             /\ UNCHANGED bucketVars

RetryStep(c) == /\ Aborted(c) \/ Woken(c) \/ SleepAborted(c)
                /\ UNCHANGED <<bucketVars, working>>

Cancel(c) == End(c) /\ UNCHANGED <<bucketVars, working>>

Tick == /\ Pass /\ Slept
        /\ UNCHANGED <<pol, loop, attempt, delay, ended, working>>

SetBack == Back /\ UNCHANGED <<retryVars, working>>

Step(c) == Attempt(c) \/ GetTokens(c) \/ WaitOn(c) \/ GiveUp(c) \/ Finish(c) \/ RetryStep(c)

Next == Tick \/ SetBack \/ \E c \in Callers : Step(c) \/ Cancel(c)

\* Time passes and goroutines that can run do.
Fairness == WF_vars(Tick) /\ \A c \in Callers : WF_vars(Step(c))

Spec == Init /\ [][Next]_vars /\ Fairness

-----------------------------------------------------------------------------
\* Types; Do makes no more attempts than the policy allows, and the bucket is
\* never overdrawn.
TypeOK == BucketTypeOK /\ RetryTypeOK /\ working \subseteq Callers

\* From the second delay on the maximum is the limit, whatever the multiplier
\* and however many attempts; the first is the base delay, even above the
\* maximum.  Jitter comes on top of either (retry.go:159).
DelayBounded == \A c \in Callers : loop[c] = "sleep" =>
  LET p == pol[c]
      top == IF attempt[c] = 1 THEN BaseDelay(p) ELSE MaxDelay(p)
  IN delay[c] <= top + Jitter(p, top)

\* Every Do returns: no backoff, no wait for tokens and no competitor holds it
\* up for ever (retry.go:117, ratelimit.go:98).
DoReturns == \A c \in Callers : ~Returned(c) ~> Returned(c)

\* Do makes no more attempts than the policy allows (types), with delays in their
\* bounds (retry.go:125, 159).
AttemptsBounded == TypeOK /\ DelayBounded

=============================================================================
