------------------------------ MODULE RateLimit ------------------------------
(* internal/ratelimit: the token bucket.  Tokens are counted in Units, so    *)
(* that one tick of the clock adds a whole number of them (the code's float  *)
(* arithmetic has no smaller steps that matter).  Time is kept as the age of *)
(* lastFill and as what is left of each timer, so it may run for ever.       *)
EXTENDS Integers

CONSTANTS Callers,
          Rate,     \* Units the bucket gains per tick
          Unit,     \* Units of one token
          Burst,    \* tokens in a full bucket
          MaxAge,   \* age at which an empty bucket is full again
          MaxBack,  \* bound of the ticks the clock is set back
          NoWait

ASSUME RateAssumption == Rate \in Nat \ {0}
ASSUME UnitAssumption == Unit \in Nat \ {0}
ASSUME BurstAssumption == Burst \in Nat \ {0}
ASSUME AgeAssumption == MaxAge \in Nat /\ MaxAge * Rate >= Burst * Unit
ASSUME BackAssumption == MaxBack \in Nat

VARIABLES tokens,  \* Bucket.tokens, in Units
          age,     \* now - lastFill; beyond MaxAge it makes no difference
          waits,   \* caller -> the n of its WaitN and what is left of its timer
          backs,   \* how often the clock was set back
          ideal    \* history: a bucket filled at every tick of true time

bucketVars == <<tokens, age, waits, backs, ideal>>

Full == Burst * Unit
Cap(x) == IF x > Full THEN Full ELSE x

\* New: a full bucket.
BucketInit == /\ tokens = Full
              /\ age = 0
              /\ waits = [c \in Callers |-> NoWait]
              /\ backs = 0
              /\ ideal = Full

\* What refillLocked leaves in the bucket.
Refilled == IF age <= 0 THEN tokens ELSE Cap(tokens + age * Rate)

\* Mutant: lastFill keeps its value.
SpendUnstamped(u) == /\ tokens' = Refilled - u
                     /\ ideal' = ideal - u
                     /\ UNCHANGED <<age, backs>>

\* Mutant: tokens stay as they were when nothing is taken, but lastFill moves.
SpendForgets(u) == /\ tokens' = IF u = 0 THEN tokens ELSE Refilled - u
                   /\ age' = IF age <= 0 THEN age ELSE 0
                   /\ ideal' = ideal - u
                   /\ UNCHANGED backs

\* refillLocked, then u Units are taken.
Spend(u) == /\ tokens' = Refilled - u
            /\ age' = IF age <= 0 THEN age ELSE 0
            /\ ideal' = ideal - u
            /\ UNCHANGED backs

Enough(n) == Refilled >= n * Unit

\* AllowN, true and false.
Allowed(n) == Enough(n) /\ Spend(n * Unit) /\ UNCHANGED waits
Denied(n) == ~Enough(n) /\ Spend(0) /\ UNCHANGED waits

\* WaitN with n <= burst, about to look at the bucket.
CallWait(c, n) == /\ waits[c] = NoWait /\ n \in 1..Burst
                  /\ waits' = [waits EXCEPT ![c] = [n |-> n, left |-> 0]]
                  /\ UNCHANGED <<tokens, age, backs, ideal>>

\* Its timer: the missing Units over the rate, cut to whole ticks, at least one.
WaitFor(n) == LET w == (n * Unit - Refilled) \div Rate IN IF w <= 0 THEN 1 ELSE w

\* One turn of WaitN's loop, when its timer has fired.
Granted(c) == /\ waits[c] # NoWait /\ waits[c].left = 0
              /\ Enough(waits[c].n)
              /\ Spend(waits[c].n * Unit)
              /\ waits' = [waits EXCEPT ![c] = NoWait]
Short(c) == /\ waits[c] # NoWait /\ waits[c].left = 0
            /\ ~Enough(waits[c].n)
            /\ Spend(0)
            /\ waits' = [waits EXCEPT ![c] = [n |-> waits[c].n, left |-> WaitFor(waits[c].n)]]

\* The context ends while the timer runs, or as it fires.
WaitCancelled(c) == /\ waits[c] # NoWait
                    /\ waits' = [waits EXCEPT ![c] = NoWait]
                    /\ UNCHANGED <<tokens, age, backs, ideal>>

\* Time passes; timers go on by the same clock.
Pass == /\ age' = IF age < MaxAge THEN age + 1 ELSE age
        /\ ideal' = Cap(ideal + Rate)
        /\ waits' = [c \in Callers |->
             IF waits[c] # NoWait /\ waits[c].left > 0
             THEN [n |-> waits[c].n, left |-> waits[c].left - 1] ELSE waits[c]]
        /\ UNCHANGED <<tokens, backs>>

\* The clock is set back by one tick; no true time passes.  MaxAge stands for
\* every greater age as well.
Back == /\ backs < MaxBack
        /\ backs' = backs + 1
        /\ age' = age - 1 \/ (age = MaxAge /\ age' = age)
        /\ UNCHANGED <<tokens, waits, ideal>>

BucketNext == \/ Pass \/ Back
              \/ \E n \in 1..Burst : Allowed(n) \/ Denied(n)
              \/ \E c \in Callers : \/ \E n \in 1..Burst : CallWait(c, n)
                                    \/ Granted(c) \/ Short(c) \/ WaitCancelled(c)

BucketSpec == BucketInit /\ [][BucketNext]_bucketVars

-----------------------------------------------------------------------------
\* Types; the bucket is never overdrawn or above its burst.
BucketTypeOK == /\ tokens \in 0..Full
                /\ age \in Int /\ age <= MaxAge
                /\ waits \in [Callers -> {NoWait} \union [n : 1..Burst, left : Nat]]
                /\ backs \in 0..MaxBack
                /\ ideal \in Int

\* The bucket that is refilled only when someone looks grants no more than one
\* that is filled at every tick, so that any stretch of T ticks gives away at
\* most the burst and T times the rate, also when the clock is set back; and if
\* it never is, no less either (ratelimit.go:139).
BucketIdeal == /\ Refilled <= ideal
               /\ backs = 0 => Refilled = ideal
=============================================================================
