-------------------------------- MODULE Retry --------------------------------
(* internal/retry: the loop of Do with its attempts and delays.  What the    *)
(* operation does is up to the module that uses this one.                    *)
EXTENDS Integers

CONSTANTS Doers,      \* goroutines that call Do
          Policies    \* [maxAttempts, baseDelay, maxDelay, multNum, multDen,
                      \*  jitNum, jitDen]: multiplier and jitter as fractions

\* Any field may be zero or negative, which stands for unset; denominators are not.
ASSUME PolicyAssumption ==
  Policies \subseteq [maxAttempts : Int, baseDelay : Int, maxDelay : Int, multNum : Int,
                      multDen : Nat \ {0}, jitNum : Int, jitDen : Nat \ {0}]

VARIABLES pol,       \* the policy of each call
          loop,      \* where Do is
          attempt,   \* its loop variable
          delay,     \* the delay of its current Sleep
          nap,       \* what is left of its Sleep
          ended      \* the goroutines whose context has ended

retryVars == <<pol, loop, attempt, delay, nap, ended>>

\* The defaults of a Policy; a tick is its default base delay of 100ms.
MaxAttempts(p) == IF p.maxAttempts <= 0 THEN 3 ELSE p.maxAttempts
BaseDelay(p) == IF p.baseDelay <= 0 THEN 1 ELSE p.baseDelay
MaxDelay(p) == IF p.maxDelay <= 0 THEN 50 ELSE p.maxDelay
Times(p, d) == IF p.multNum <= 0 THEN 2 * d ELSE (d * p.multNum) \div p.multDen

\* Mutant: the growth is not capped.
BackoffUncapped(p, a) ==
  LET grow[k \in Nat] == IF k = 0 THEN BaseDelay(p) ELSE Times(p, grow[k - 1])
  IN grow[a - 1]

\* The delay after attempt a before jitter: a - 1 multiplications, until the
\* first one that reaches the maximum.  A base above the maximum stays.
Backoff(p, a) ==
  LET grow[k \in 0..(a - 1)] ==
        IF k = 0 THEN [d |-> BaseDelay(p), cap |-> FALSE]
        ELSE IF grow[k - 1].cap THEN grow[k - 1]
        ELSE LET b == Times(p, grow[k - 1].d)
             IN IF b >= MaxDelay(p) THEN [d |-> MaxDelay(p), cap |-> TRUE]
                ELSE [d |-> b, cap |-> FALSE]
  IN grow[a - 1].d

\* Jitter moves the delay by up to its fraction either way, never below zero.
Jitter(p, d) == IF p.jitNum <= 0 THEN 0 ELSE (d * p.jitNum) \div p.jitDen
Delays(p, a) == LET d == Backoff(p, a)
                IN {IF x < 0 THEN 0 ELSE x : x \in (d - Jitter(p, d))..(d + Jitter(p, d))}

RetryInit == /\ pol \in [Doers -> Policies]
             /\ loop = [c \in Doers |-> "check"]
             /\ attempt = [c \in Doers |-> 1]
             /\ delay = [c \in Doers |-> 0]
             /\ nap = [c \in Doers |-> 0]
             /\ ended = {}

Loop(c, l) == loop' = [loop EXCEPT ![c] = l]

\* The look at the context before each attempt.
Aborted(c) == /\ loop[c] = "check" /\ c \in ended
              /\ Loop(c, "cancelled")
              /\ UNCHANGED <<pol, attempt, delay, nap, ended>>
Begun(c) == /\ loop[c] = "check" /\ c \notin ended
            /\ Loop(c, "op")
            /\ UNCHANGED <<pol, attempt, delay, nap, ended>>

\* The operation returns r: "ok", an error that Retryable accepts ("failed") or
\* one it does not ("fatal").
OpEnds(c, r) ==
  /\ loop[c] = "op"
  /\ \/ r = "ok" /\ Loop(c, "ok") /\ UNCHANGED <<delay, nap>>
     \/ r # "ok" /\ attempt[c] = MaxAttempts(pol[c])
        /\ Loop(c, "exhausted") /\ UNCHANGED <<delay, nap>>
     \/ r = "fatal" /\ attempt[c] < MaxAttempts(pol[c])
        /\ Loop(c, "fatal") /\ UNCHANGED <<delay, nap>>
     \/ r = "failed" /\ attempt[c] < MaxAttempts(pol[c])
        /\ \E d \in Delays(pol[c], attempt[c]) :
             delay' = [delay EXCEPT ![c] = d] /\ nap' = [nap EXCEPT ![c] = d]
        /\ Loop(c, "sleep")
  /\ UNCHANGED <<pol, attempt, ended>>

\* Sleep ends: a delay of zero looks at the context only; otherwise with the
\* timer fired and the context ended the select takes either.
Woken(c) == /\ loop[c] = "sleep" /\ nap[c] = 0
            /\ ~(delay[c] = 0 /\ c \in ended)
            /\ Loop(c, "check")
            /\ attempt' = [attempt EXCEPT ![c] = @ + 1]
            /\ delay' = [delay EXCEPT ![c] = 0]
            /\ UNCHANGED <<pol, nap, ended>>
SleepAborted(c) == /\ loop[c] = "sleep" /\ c \in ended
                   /\ Loop(c, "cancelled")
                   /\ delay' = [delay EXCEPT ![c] = 0]
                   /\ nap' = [nap EXCEPT ![c] = 0]
                   /\ UNCHANGED <<pol, attempt, ended>>

End(c) == /\ c \notin ended
          /\ ended' = ended \union {c}
          /\ UNCHANGED <<pol, loop, attempt, delay, nap>>

\* Time passes for the sleepers.
Slept == nap' = [c \in Doers |-> IF loop[c] = "sleep" /\ nap[c] > 0 THEN nap[c] - 1 ELSE nap[c]]

Returned(c) == loop[c] \in {"ok", "exhausted", "fatal", "cancelled"}

RetryTypeOK == /\ pol \in [Doers -> Policies]
               /\ \A c \in Doers :
                    /\ loop[c] \in {"check", "op", "sleep", "ok", "exhausted", "fatal", "cancelled"}
                    /\ attempt[c] \in 1..MaxAttempts(pol[c])
                    /\ delay[c] \in Nat /\ nap[c] \in 0..delay[c]
               /\ ended \subseteq Doers
=============================================================================
