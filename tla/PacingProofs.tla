---------------------------- MODULE PacingProofs ----------------------------
(* The resilience helpers.  The bucket's conservation law, for every rate,   *)
(* burst and unit and any number of callers: first for the bucket alone,     *)
(* then for the bucket under the retry loops of Pacing, whose steps are      *)
(* steps of the bucket; the delays of those loops; and, at the end, the      *)
(* circuit breaker.                                                          *)
EXTENDS Pacing, CircuitBreaker, WellFoundedInduction, TLAPS

\* What a step needs to know of the bucket before it: its types, that a clock
\* never set back shows no negative age, and that the reference bucket is never
\* above the burst.
LevelTypeOK == /\ tokens \in 0..Full
               /\ age \in Int /\ age <= MaxAge
               /\ backs \in 0..MaxBack
               /\ ideal \in Int
Level == /\ LevelTypeOK
         /\ ideal <= Full
         /\ backs = 0 => age >= 0
         /\ BucketIdeal

WaitsOK == waits \in [Callers -> {NoWait} \union [n : 1..Burst, left : Nat]]

BucketInv == Level /\ WaitsOK

\* A full bucket holds a positive whole number of Units.
LEMMA FullPositive == Full \in Nat /\ Full > 0
  <1>1. \A x, y \in Nat \ {0} : x * y \in Nat /\ x * y > 0
    OBVIOUS
  <1> QED BY <1>1, UnitAssumption, BurstAssumption DEF Full

\* One more tick adds one more Rate to what the age is worth.
LEMMA AgeWorth == \A a \in Int : /\ (a + 1) * Rate = a * Rate + Rate
                                 /\ (a - 1) * Rate = a * Rate - Rate
                                 /\ a * Rate \in Int
                                 /\ a >= 0 => a * Rate >= 0
                                 /\ a = 0 => a * Rate = 0
  BY RateAssumption

\* The oldest age that is kept is worth a full bucket.
LEMMA MaxAgeFills == MaxAge \in Nat /\ MaxAge * Rate >= Full
  BY AgeAssumption DEF Full

\* A refill leaves between nothing and a full bucket.
LEMMA RefillRange == ASSUME LevelTypeOK
                     PROVE  Refilled \in 0..Full /\ Refilled >= tokens
  <1>1. age * Rate \in Int /\ (age >= 0 => age * Rate >= 0)
    BY AgeWorth DEF LevelTypeOK
  <1> QED BY <1>1, FullPositive DEF Refilled, Cap, LevelTypeOK

\* Taking u Units of what a refill leaves keeps the law.
LEMMA SpendKeeps == ASSUME Level, NEW u \in Int, 0 <= u, u <= Refilled, Spend(u)
                    PROVE  Level'
  <1>1. Refilled \in 0..Full
    BY RefillRange DEF Level
  <1>2. /\ tokens' = Refilled - u /\ ideal' = ideal - u /\ backs' = backs
        /\ age' = (IF age <= 0 THEN age ELSE 0)
    BY DEF Spend
  <1>3. Refilled' = tokens'
    BY <1>2 DEF Refilled, Level, LevelTypeOK
  <1>4. MaxAge \in Nat
    BY AgeAssumption
  <1>5. tokens' \in 0..Full /\ age' \in Int /\ age' <= MaxAge /\ ideal' \in Int /\ ideal' <= Full
    BY <1>1, <1>2, <1>4, FullPositive DEF Level, LevelTypeOK
  <1>6. backs' = 0 => age' >= 0
    BY <1>2 DEF Level
  <1>7. Refilled' <= ideal' /\ (backs' = 0 => Refilled' = ideal')
    BY <1>1, <1>2, <1>3 DEF Level, BucketIdeal, LevelTypeOK
  <1>8. Full' = Full /\ backs' \in 0..MaxBack
    BY <1>2 DEF Full, Level, LevelTypeOK
  <1> QED BY <1>5, <1>6, <1>7, <1>8 DEF Level, LevelTypeOK, BucketIdeal

\* A tick keeps the law: the refill that is due grows as the reference does.
LEMMA PassKeeps == ASSUME Level, Pass PROVE Level'
  <1> USE DEF Level, LevelTypeOK, BucketIdeal
  <1>1. Refilled \in 0..Full
    BY RefillRange
  <1>2. tokens' = tokens /\ backs' = backs /\ ideal' = Cap(ideal + Rate)
        /\ age' = (IF age < MaxAge THEN age + 1 ELSE age)
    BY DEF Pass
  <1>3. ideal' \in Int /\ ideal' <= Full /\ ideal <= ideal'
    BY <1>2, FullPositive, RateAssumption DEF Cap
  <1>4. age' \in Int /\ age' <= MaxAge /\ (backs' = 0 => age' >= 0)
    BY <1>2, MaxAgeFills
  <1>5. Refilled' <= ideal' /\ (backs' = 0 => Refilled' = ideal')
    <2>1. CASE age < 0
      <3>1. age' <= 0
        BY <2>1, <1>2
      <3>2. Refilled' = tokens /\ Refilled = tokens
        BY <2>1, <3>1, <1>2 DEF Refilled
      <3> QED BY <2>1, <3>2, <1>2, <1>3
    <2>2. CASE age >= 0 /\ age < MaxAge
      <3> DEFINE w == age * Rate
      <3>1. w \in Int /\ w >= 0 /\ (age + 1) * Rate = w + Rate /\ (age = 0 => w = 0)
        BY <2>2, AgeWorth
      <3>2. Refilled = Cap(tokens + w)
        BY <3>1, <2>2, FullPositive DEF Refilled, Cap
      <3>3. Refilled' = Cap(tokens + (w + Rate))
        BY <3>1, <2>2, <1>2 DEF Refilled, Cap, Full
      <3> HIDE DEF w
      <3>4. Refilled' = Cap(Refilled + Rate)
        BY <3>1, <3>2, <3>3, RateAssumption, FullPositive DEF Cap
      <3> QED BY <3>4, <1>1, <1>2, RateAssumption, FullPositive DEF Cap
    <2>3. CASE age = MaxAge
      <3> DEFINE w == age * Rate
      <3>1. w \in Int /\ w >= Full /\ age >= 0 /\ (age = 0 => w = 0)
        BY <2>3, AgeWorth, MaxAgeFills
      <3>2. age > 0
        BY <3>1, FullPositive
      <3>3. Refilled = Cap(tokens + w) /\ Refilled' = Cap(tokens + w)
        BY <3>2, <2>3, <1>2 DEF Refilled, Cap, Full
      <3> HIDE DEF w
      <3>4. Refilled = Full /\ Refilled' = Full
        BY <3>1, <3>3, FullPositive DEF Cap
      <3>5. ideal = Full /\ ideal' = Full
        BY <3>4, <1>3, FullPositive
      <3> QED BY <3>4, <3>5, FullPositive
    <2> QED BY <2>1, <2>2, <2>3, MaxAgeFills
  <1>6. Full' = Full
    BY DEF Full
  <1> QED BY <1>2, <1>3, <1>4, <1>5, <1>6

\* Setting the clock back only makes the refill smaller.
LEMMA BackKeeps == ASSUME Level, Back PROVE Level'
  <1> USE DEF Level, LevelTypeOK, BucketIdeal
  <1>1. tokens' = tokens /\ backs' = backs + 1 /\ backs < MaxBack /\ ideal' = ideal
        /\ (age' = age - 1 \/ age' = age)
    BY DEF Back
  <1> DEFINE w == age * Rate
  <1>2. w \in Int /\ (age - 1) * Rate = w - Rate /\ (age >= 0 => w >= 0)
    BY AgeWorth
  <1>3. Refilled' <= Refilled
    <2>0. CASE age' = age
      <3>1. Refilled' = Refilled
        BY <2>0, <1>1 DEF Refilled, Cap, Full
      <3> QED BY <3>1, RefillRange, FullPositive
    <2>1. CASE age' = age - 1 /\ age > 1
      <3>1. Refilled = Cap(tokens + w)
        BY <2>1 DEF Refilled
      <3>2. Refilled' = Cap(tokens + (w - Rate))
        BY <2>1, <1>1, <1>2 DEF Refilled, Cap, Full
      <3> HIDE DEF w
      <3> QED BY <3>1, <3>2, <1>2, RateAssumption, FullPositive DEF Cap
    <2>2. CASE age' = age - 1 /\ age <= 1
      <3>1. Refilled' = tokens
        BY <2>2, <1>1 DEF Refilled
      <3> QED BY <3>1, RefillRange
    <2> QED BY <1>1, <2>0, <2>1, <2>2
  <1>4. Refilled \in 0..Full
    BY RefillRange
  <1>5. Refilled' \in Int
    BY <1>1, <1>2, FullPositive, RateAssumption DEF Refilled, Cap, Full
  <1>6. backs' \in 0..MaxBack /\ backs' # 0
    BY <1>1, BackAssumption
  <1>7. Full' = Full
    BY DEF Full
  <1>8. age' \in Int /\ age' <= MaxAge
    BY <1>1, MaxAgeFills
  <1>9. Refilled' <= ideal'
    BY <1>1, <1>3, <1>4, <1>5
  <1> QED BY <1>1, <1>6, <1>7, <1>8, <1>9

\* Steps that leave the bucket alone.
LEMMA IdleKeeps == ASSUME Level, UNCHANGED <<tokens, age, backs, ideal>> PROVE Level'
  BY DEF Level, LevelTypeOK, BucketIdeal, Refilled, Cap, Full

\* Every step of the bucket's operations keeps the law.
LEMMA BucketStep == ASSUME BucketInv, BucketNext PROVE Level'
  <1>1. Level /\ Refilled \in 0..Full
    BY RefillRange DEF BucketInv, Level
  <1>2. 0 \in Int /\ 0 <= 0 /\ 0 <= Refilled
    BY <1>1, FullPositive
  <1>3. ASSUME NEW n \in 1..Burst, Enough(n), Spend(n * Unit) PROVE Level'
    <2>1. n * Unit \in Int /\ 0 <= n * Unit
      BY <1>3, UnitAssumption, BurstAssumption
    <2>2. n * Unit <= Refilled
      BY <1>3, <2>1, <1>1, FullPositive DEF Enough
    <2> QED BY <1>1, <2>1, <2>2, <1>3, SpendKeeps
  <1>4. ASSUME Spend(0) PROVE Level'
    BY <1>1, <1>4, <1>2, SpendKeeps
  <1>5. CASE Pass
    BY <1>1, <1>5, PassKeeps
  <1>6. CASE Back
    BY <1>1, <1>6, BackKeeps
  <1>7. ASSUME NEW n \in 1..Burst, Allowed(n) \/ Denied(n) PROVE Level'
    BY <1>7, <1>3, <1>4 DEF Allowed, Denied
  <1>8. ASSUME NEW c \in Callers, NEW n \in 1..Burst, CallWait(c, n) PROVE Level'
    BY <1>1, <1>8, IdleKeeps DEF CallWait
  <1>9. ASSUME NEW c \in Callers, WaitCancelled(c) PROVE Level'
    BY <1>1, <1>9, IdleKeeps DEF WaitCancelled
  <1>10. ASSUME NEW c \in Callers, Granted(c) PROVE Level'
    <2>1. waits[c].n \in 1..Burst
      BY <1>10 DEF Granted, BucketInv, WaitsOK
    <2> QED BY <2>1, <1>10, <1>3 DEF Granted
  <1>11. ASSUME NEW c \in Callers, Short(c) PROVE Level'
    BY <1>11, <1>4 DEF Short
  <1> QED BY <1>5, <1>6, <1>7, <1>8, <1>9, <1>10, <1>11 DEF BucketNext

\* A waiter's timer is a whole number of ticks.
LEMMA WaitForNat == ASSUME BucketInv, NEW n \in 1..Burst PROVE WaitFor(n) \in Nat
  <1>1. Refilled \in Int
    BY RefillRange, FullPositive DEF BucketInv, Level
  <1>2. n * Unit - Refilled \in Int
    BY <1>1, UnitAssumption, BurstAssumption
  <1>3. \A x \in Int, r \in Nat \ {0} : x \div r \in Int
    OBVIOUS
  <1>4. (n * Unit - Refilled) \div Rate \in Int
    BY <1>2, <1>3, RateAssumption
  <1> QED BY <1>4 DEF WaitFor

\* Every step keeps the table of waiters in shape.
LEMMA WaitsStep == ASSUME BucketInv, BucketNext PROVE WaitsOK'
  <1> USE DEF WaitsOK
  <1>1. WaitsOK
    BY DEF BucketInv
  <1>2. CASE Pass
    BY <1>1, <1>2 DEF Pass
  <1>3. CASE UNCHANGED waits
    BY <1>1, <1>3
  <1>4. ASSUME NEW c \in Callers, NEW n \in 1..Burst, CallWait(c, n) PROVE WaitsOK'
    BY <1>1, <1>4 DEF CallWait
  <1>5. ASSUME NEW c \in Callers, Granted(c) \/ WaitCancelled(c) PROVE WaitsOK'
    BY <1>1, <1>5 DEF Granted, WaitCancelled
  <1>6. ASSUME NEW c \in Callers, Short(c) PROVE WaitsOK'
    <2>1. waits[c].n \in 1..Burst
      BY <1>1, <1>6 DEF Short
    <2>2. WaitFor(waits[c].n) \in Nat
      BY <2>1, WaitForNat
    <2> QED BY <1>1, <1>6, <2>1, <2>2 DEF Short
  <1> QED BY <1>2, <1>3, <1>4, <1>5, <1>6 DEF BucketNext, Back, Allowed, Denied

LEMMA BucketStart == ASSUME BucketInit PROVE BucketInv
  BY FullPositive, BackAssumption, AgeAssumption
     DEF BucketInit, BucketInv, Level, LevelTypeOK, WaitsOK, BucketIdeal, Refilled

\* The invariant holds of a bucket in whatever environment takes its steps.
LEMMA BucketKept == ASSUME BucketInv, [BucketNext]_bucketVars PROVE BucketInv'
  <1>1. CASE BucketNext
    BY <1>1, BucketStep, WaitsStep DEF BucketInv
  <1>2. CASE UNCHANGED bucketVars
    <2>1. Level'
      BY <1>2, IdleKeeps DEF BucketInv, bucketVars
    <2>2. WaitsOK'
      BY <1>2 DEF BucketInv, bucketVars, WaitsOK
    <2> QED BY <2>1, <2>2 DEF BucketInv
  <1> QED BY <1>1, <1>2

LEMMA BucketImplies == ASSUME BucketInv PROVE BucketTypeOK /\ BucketIdeal
  BY DEF BucketInv, Level, LevelTypeOK, WaitsOK, BucketTypeOK

\* A bucket alone, whoever calls it and however often, follows the law that
\* refillLocked is to keep (ratelimit.go:139).
THEOREM BucketKeepsIdeal == BucketSpec => [](BucketTypeOK /\ BucketIdeal)
  <1>1. BucketInit => BucketInv
    BY BucketStart
  <1>2. BucketInv /\ [BucketNext]_bucketVars => BucketInv'
    BY BucketKept
  <1>3. BucketInv => BucketTypeOK /\ BucketIdeal
    BY BucketImplies
  <1> QED BY <1>1, <1>2, <1>3, PTL DEF BucketSpec

\* Under the retry loops every step is one of the bucket's or leaves it alone.
LEMMA PacingIsBucket == ASSUME [Next]_vars PROVE [BucketNext]_bucketVars
  <1>1. CASE UNCHANGED vars
    BY <1>1 DEF vars
  <1>2. CASE Tick \/ SetBack
    BY <1>2 DEF Tick, SetBack, BucketNext
  <1>3. ASSUME NEW c \in Callers, Attempt(c) PROVE BucketNext
    BY <1>3, PacingAssumption DEF Attempt, BucketNext
  <1>4. ASSUME NEW c \in Callers, GetTokens(c) \/ WaitOn(c) \/ GiveUp(c) PROVE BucketNext
    BY <1>4 DEF GetTokens, WaitOn, GiveUp, BucketNext
  <1>5. ASSUME NEW c \in Callers, Finish(c) \/ RetryStep(c) \/ Cancel(c)
        PROVE UNCHANGED bucketVars
    BY <1>5 DEF Finish, RetryStep, Cancel
  <1> QED BY <1>1, <1>2, <1>3, <1>4, <1>5 DEF Next, Step

\* Retries cannot talk the bucket into giving more than its rate, and no other
\* caller's failed attempts make it give less (retry.go:117, ratelimit.go:139).
THEOREM PacingKeepsIdeal == Spec => []BucketIdeal
  <1>1. Init => BucketInv
    BY BucketStart DEF Init
  <1>2. BucketInv /\ [Next]_vars => BucketInv'
    BY BucketKept, PacingIsBucket
  <1>3. BucketInv => BucketIdeal
    BY BucketImplies
  <1> QED BY <1>1, <1>2, <1>3, PTL DEF Spec

-----------------------------------------------------------------------------
(* The delays of Do.  computeDelay's loop is a recursive function; that it    *)
(* has a value, and what that is, are inductions on the number of turns.      *)

\* The least element of a set of naturals.
LEMMA LeastNat == ASSUME NEW T \in SUBSET Nat, T # {}
                  PROVE  \E x \in T : \A y \in T : x <= y
  <1>1. \E x \in T : \A y \in T : ~(<<y, x>> \in OpToRel(<, Nat))
    BY NatLessThanWellFounded, WFMin
  <1>2. \A x, y \in Nat : ~(<<y, x>> \in OpToRel(<, Nat)) => x <= y
    BY DEF OpToRel
  <1> QED BY <1>1, <1>2

\* One turn of the loop, on the delay and whether it is capped.
Turn(p, f, k) ==
  IF k = 0 THEN [d |-> BaseDelay(p), cap |-> FALSE]
  ELSE IF f[k - 1].cap THEN f[k - 1]
  ELSE LET b == Times(p, f[k - 1].d)
       IN IF b >= MaxDelay(p) THEN [d |-> MaxDelay(p), cap |-> TRUE]
          ELSE [d |-> b, cap |-> FALSE]

LEMMA TurnsEnd ==
  ASSUME NEW p, NEW n \in Nat
  PROVE  \E f : f = [k \in 0..n |-> Turn(p, f, k)]
  <1> DEFINE Part(j) == \E g : g = [k \in 0..j |-> Turn(p, g, k)]
             T == {j \in 0..n : ~Part(j)}
  <1>1. ASSUME T # {} PROVE FALSE
    <2>1. PICK j \in T : \A i \in T : j <= i
      <3>1. T \in SUBSET Nat
        OBVIOUS
      <3> HIDE DEF T
      <3> QED BY <1>1, <3>1, LeastNat
    <2>2. j # 0
      <3> DEFINE g == [k \in 0..0 |-> [d |-> BaseDelay(p), cap |-> FALSE]]
      <3>1. g = [k \in 0..0 |-> Turn(p, g, k)]
        BY DEF Turn
      <3>2. Part(0)
        BY <3>1
      <3> QED BY <2>1, <3>2
    <2>3. PICK g : g = [k \in 0..(j - 1) |-> Turn(p, g, k)]
      <3>1. j - 1 \in 0..n /\ j - 1 \notin T
        BY <2>1, <2>2
      <3> QED BY <3>1
    <2> DEFINE h == [k \in 0..j |-> IF k = j THEN Turn(p, g, j) ELSE g[k]]
    <2>4. j \in Nat \ {0}
      BY <2>1, <2>2
    <2>5. ASSUME NEW k \in 0..j PROVE h[k] = Turn(p, h, k)
      <3>1. k # 0 => h[k - 1] = g[k - 1]
        BY <2>4
      <3>2. k # j => g[k] = Turn(p, g, k)
        BY <2>3, <2>4
      <3>3. h[k] = Turn(p, g, k)
        BY <3>2
      <3>4. Turn(p, g, k) = Turn(p, h, k)
        <4> HIDE DEF h
        <4> QED BY <3>1 DEF Turn
      <3> QED BY <3>3, <3>4
    <2>6. h = [k \in 0..j |-> Turn(p, h, k)]
      <3>1. h = [k \in 0..j |-> h[k]]
        OBVIOUS
      <3> HIDE DEF h
      <3> QED BY <3>1, <2>5
    <2>7. Part(j)
      <3> HIDE DEF h
      <3> QED BY <2>6
    <2> QED BY <2>1, <2>7
  <1>2. Part(n)
    <2> HIDE DEF Part
    <2> QED BY <1>1
  <1> QED BY <1>2

\* Products and quotients of naturals.
LEMMA ProductNat == \A x, y \in Nat : x * y \in Nat
  OBVIOUS

LEMMA QuotientNat == \A x \in Nat, n \in Nat \ {0} : x \div n \in Nat
  OBVIOUS

LEMMA QuotientGrows == ASSUME NEW x \in Nat, NEW y \in Nat, NEW n \in Nat \ {0}, x <= y
                       PROVE  x \div n <= y \div n
  <1> DEFINE q == x \div n
             r == y \div n
  <1>1. q \in Nat /\ r \in Nat
    BY QuotientNat
  <1>2. n * q <= x /\ y < n * r + n
    OBVIOUS
  <1> HIDE DEF q, r
  <1>3. ASSUME r + 1 <= q PROVE FALSE
    <2>1. PICK m \in Nat : q = r + 1 + m
      <3>1. q - r - 1 \in Nat /\ q = r + 1 + (q - r - 1)
        BY <1>1, <1>3
      <3> QED BY <3>1
    <2>2. n * q = n * r + n + n * m /\ n * m \in Nat /\ n * r \in Nat
      BY <2>1, <1>1, ProductNat
    <2> QED BY <1>2, <2>2
  <1> QED BY <1>1, <1>3 DEF q, r

LEMMA ProductGrows == ASSUME NEW x \in Nat, NEW y \in Nat, NEW n \in Nat, x <= y
                      PROVE  x * n <= y * n
  <1>1. PICK m \in Nat : y = x + m
    <2>1. y - x \in Nat /\ y = x + (y - x)
      OBVIOUS
    <2> QED BY <2>1
  <1>2. y * n = x * n + m * n /\ m * n \in Nat /\ x * n \in Nat
    BY <1>1, ProductNat
  <1> QED BY <1>2

\* The defaults leave positive numbers.
LEMMA PolicyFits ==
  ASSUME NEW p \in Policies
  PROVE  /\ MaxAttempts(p) \in Nat \ {0} /\ BaseDelay(p) \in Nat \ {0} /\ MaxDelay(p) \in Nat \ {0}
         /\ \A d \in Nat : Times(p, d) \in Nat /\ Jitter(p, d) \in Nat
         /\ \A d, e \in Nat : d <= e => Jitter(p, d) <= Jitter(p, e)
  <1>1. /\ p.maxAttempts \in Int /\ p.baseDelay \in Int /\ p.maxDelay \in Int
        /\ p.multNum \in Int /\ p.jitNum \in Int
        /\ p.multDen \in Nat \ {0} /\ p.jitDen \in Nat \ {0}
    BY PolicyAssumption
  <1>2. MaxAttempts(p) \in Nat \ {0} /\ BaseDelay(p) \in Nat \ {0} /\ MaxDelay(p) \in Nat \ {0}
    BY <1>1 DEF MaxAttempts, BaseDelay, MaxDelay
  <1>3. ASSUME NEW d \in Nat PROVE Times(p, d) \in Nat
    <2>1. CASE p.multNum <= 0
      BY <2>1 DEF Times
    <2>2. CASE ~(p.multNum <= 0)
      <3>1. p.multNum \in Nat
        BY <1>1, <2>2
      <3>2. d * p.multNum \in Nat
        BY <3>1, ProductNat
      <3>3. (d * p.multNum) \div p.multDen \in Nat
        BY <1>1, <3>2, QuotientNat
      <3> QED BY <2>2, <3>3 DEF Times
    <2> QED BY <2>1, <2>2
  <1>4. ASSUME NEW d \in Nat PROVE Jitter(p, d) \in Nat
    <2>1. CASE p.jitNum <= 0
      BY <2>1 DEF Jitter
    <2>2. CASE ~(p.jitNum <= 0)
      <3>1. p.jitNum \in Nat
        BY <1>1, <2>2
      <3>2. d * p.jitNum \in Nat
        BY <3>1, ProductNat
      <3>3. (d * p.jitNum) \div p.jitDen \in Nat
        BY <1>1, <3>2, QuotientNat
      <3> QED BY <2>2, <3>3 DEF Jitter
    <2> QED BY <2>1, <2>2
  <1>5. ASSUME NEW d \in Nat, NEW e \in Nat, d <= e PROVE Jitter(p, d) <= Jitter(p, e)
    <2>1. CASE p.jitNum <= 0
      BY <2>1 DEF Jitter
    <2>2. CASE ~(p.jitNum <= 0)
      <3>1. p.jitNum \in Nat
        BY <1>1, <2>2
      <3>2. d * p.jitNum \in Nat /\ e * p.jitNum \in Nat /\ d * p.jitNum <= e * p.jitNum
        BY <1>5, <3>1, ProductNat, ProductGrows
      <3>3. (d * p.jitNum) \div p.jitDen <= (e * p.jitNum) \div p.jitDen
        BY <1>1, <3>2, QuotientGrows
      <3> QED BY <2>2, <3>3 DEF Jitter
    <2> QED BY <2>1, <2>2
  <1> QED BY <1>2, <1>3, <1>4, <1>5

\* The backoff after the first attempt is the base delay, and after any later one
\* at most the maximum, whatever the multiplier does.
LEMMA BackoffBound ==
  ASSUME NEW p \in Policies, NEW a \in Nat \ {0}
  PROVE  /\ Backoff(p, a) \in Nat
         /\ Backoff(p, a) <= IF a = 1 THEN BaseDelay(p) ELSE MaxDelay(p)
  <1> DEFINE n == a - 1
             Loops(f) == [k \in 0..n |-> Turn(p, f, k)]
             grow == CHOOSE f : f = Loops(f)
             Good(k) == /\ grow[k].d \in Nat
                        /\ k = 0 => grow[k].d <= BaseDelay(p) /\ ~grow[k].cap
                        /\ k # 0 => grow[k].d <= MaxDelay(p)
             T == {k \in 0..n : ~Good(k)}
  <1>1. grow = Loops(grow)
    <2>1. \E f : f = Loops(f)
      <3>1. n \in Nat
        OBVIOUS
      <3> HIDE DEF n
      <3> QED BY <3>1, TurnsEnd
    <2> HIDE DEF Loops
    <2> QED BY <2>1
  <1>2. Backoff(p, a) = grow[n].d
    BY DEF Backoff, Turn
  <1> HIDE DEF grow
  <1>3. \A k \in 0..n : grow[k] = Turn(p, grow, k)
    BY <1>1
  <1>4. ASSUME T # {} PROVE FALSE
    <2>1. PICK k \in T : \A i \in T : k <= i
      <3>1. T \in SUBSET Nat
        OBVIOUS
      <3> HIDE DEF T
      <3> QED BY <1>4, <3>1, LeastNat
    <2>2. k \in 0..n /\ ~Good(k) /\ (k # 0 => k - 1 \in 0..n /\ k - 1 \notin T)
      BY <2>1
    <2>3. CASE k = 0
      <3>1. grow[k] = [d |-> BaseDelay(p), cap |-> FALSE]
        BY <1>3, <2>2, <2>3 DEF Turn
      <3>2. grow[k].d = BaseDelay(p) /\ ~grow[k].cap
        BY <3>1
      <3> QED BY <2>2, <2>3, <3>2, PolicyFits
    <2>4. CASE k # 0 /\ grow[k - 1].cap
      <3>1. grow[k] = grow[k - 1]
        BY <1>3, <2>2, <2>4 DEF Turn
      <3>2. Good(k - 1)
        BY <2>2, <2>4
      <3>3. k - 1 # 0
        BY <2>4, <3>2
      <3> QED BY <2>2, <2>4, <3>1, <3>2, <3>3
    <2>5. CASE k # 0 /\ ~grow[k - 1].cap
      <3> DEFINE b == Times(p, grow[k - 1].d)
      <3>1. Good(k - 1)
        BY <2>2, <2>5
      <3>2. b \in Nat
        BY <3>1, PolicyFits
      <3>3. grow[k] = IF b >= MaxDelay(p) THEN [d |-> MaxDelay(p), cap |-> TRUE]
                      ELSE [d |-> b, cap |-> FALSE]
        BY <1>3, <2>2, <2>5 DEF Turn
      <3> HIDE DEF b
      <3>4. grow[k].d = IF b >= MaxDelay(p) THEN MaxDelay(p) ELSE b
        BY <3>3
      <3> QED BY <2>2, <2>5, <3>2, <3>4, PolicyFits
    <2> QED BY <2>3, <2>4, <2>5
  <1>5. Good(n)
    <2> HIDE DEF Good
    <2> QED BY <1>4
  <1>6. (n = 0 <=> a = 1) /\ BaseDelay(p) \in Nat /\ MaxDelay(p) \in Nat
    BY PolicyFits
  <1> HIDE DEF n
  <1>7. CASE a = 1
    BY <1>2, <1>5, <1>6, <1>7
  <1>8. CASE a # 1
    BY <1>2, <1>5, <1>6, <1>8
  <1> QED BY <1>7, <1>8

\* Every delay Do may sleep is in its bounds.
LEMMA DelaysBound ==
  ASSUME NEW p \in Policies, NEW a \in Nat \ {0}, NEW d \in Delays(p, a)
  PROVE  LET top == IF a = 1 THEN BaseDelay(p) ELSE MaxDelay(p)
         IN d \in Nat /\ d <= top + Jitter(p, top)
  <1> DEFINE top == IF a = 1 THEN BaseDelay(p) ELSE MaxDelay(p)
             b == Backoff(p, a)
  <1>1. b \in Nat /\ b <= top /\ top \in Nat
    BY BackoffBound, PolicyFits
  <1>2. PICK x \in (b - Jitter(p, b))..(b + Jitter(p, b)) : d = IF x < 0 THEN 0 ELSE x
    BY DEF Delays
  <1> HIDE DEF b, top
  <1>3. Jitter(p, b) \in Nat /\ Jitter(p, top) \in Nat /\ Jitter(p, b) <= Jitter(p, top)
    BY <1>1, PolicyFits
  <1>4. d \in Nat /\ d <= top + Jitter(p, top)
    BY <1>1, <1>2, <1>3
  <1> QED BY <1>4 DEF top

-----------------------------------------------------------------------------
(* The loop of Do: who sleeps has an attempt left, and sleeps within bounds.  *)

Stages == {"check", "op", "sleep", "ok", "exhausted", "fatal", "cancelled"}
RetryShape == /\ pol \in [Doers -> Policies]
              /\ loop \in [Doers -> Stages]
              /\ attempt \in [Doers -> Nat \ {0}]
              /\ delay \in [Doers -> Nat] /\ nap \in [Doers -> Nat]
              /\ ended \subseteq Doers

SleepBound(c) == LET top == IF attempt[c] = 1 THEN BaseDelay(pol[c]) ELSE MaxDelay(pol[c])
                 IN delay[c] <= top + Jitter(pol[c], top)
DoerOK(c) == /\ attempt[c] <= MaxAttempts(pol[c])
             /\ nap[c] <= delay[c]
             /\ loop[c] = "sleep" => attempt[c] < MaxAttempts(pol[c]) /\ SleepBound(c)

RetryInv == RetryShape /\ \A c \in Doers : DoerOK(c)

\* What one goroutine's step does to the loops of Do.
RetryMove(c) == \/ Aborted(c) \/ Begun(c) \/ Woken(c) \/ SleepAborted(c) \/ End(c)
                \/ \E r \in {"ok", "failed", "fatal"} : OpEnds(c, r)

LEMMA RetryShapeKept == ASSUME RetryInv, NEW c \in Doers, RetryMove(c) PROVE RetryShape'
  <1> USE DEF RetryInv, RetryShape, Stages, Loop
  <1>1. CASE Aborted(c) \/ Begun(c) \/ End(c)
    BY <1>1 DEF Aborted, Begun, End
  <1>2. CASE Woken(c) \/ SleepAborted(c)
    BY <1>2 DEF Woken, SleepAborted
  <1>3. ASSUME NEW r \in {"ok", "failed", "fatal"}, OpEnds(c, r) PROVE RetryShape'
    <2>1. CASE UNCHANGED <<delay, nap>>
      BY <1>3, <2>1 DEF OpEnds
    <2>2. CASE /\ Loop(c, "sleep")
               /\ \E d \in Delays(pol[c], attempt[c]) :
                    delay' = [delay EXCEPT ![c] = d] /\ nap' = [nap EXCEPT ![c] = d]
      <3>1. PICK d \in Delays(pol[c], attempt[c]) :
                   delay' = [delay EXCEPT ![c] = d] /\ nap' = [nap EXCEPT ![c] = d]
        BY <2>2
      <3>2. d \in Nat
        BY DelaysBound
      <3> QED BY <1>3, <2>2, <3>1, <3>2 DEF OpEnds
    <2> QED BY <1>3, <2>1, <2>2 DEF OpEnds
  <1> QED BY <1>1, <1>2, <1>3 DEF RetryMove

LEMMA DoerFrame ==
  ASSUME NEW c, DoerOK(c), pol'[c] = pol[c], attempt'[c] = attempt[c], delay'[c] = delay[c],
         nap'[c] = nap[c], loop'[c] = loop[c] \/ loop'[c] # "sleep"
  PROVE  DoerOK(c)'
  BY DEF DoerOK, SleepBound

LEMMA DoerMoves == ASSUME RetryInv, NEW c \in Doers, RetryMove(c) PROVE DoerOK(c)'
  <1> USE DEF RetryInv, RetryShape, Loop
  <1>1. CASE Aborted(c) \/ Begun(c) \/ End(c)
    BY <1>1, DoerFrame DEF Aborted, Begun, End
  <1>2. CASE Woken(c)
    <2>1. /\ loop'[c] = "check" /\ attempt'[c] = attempt[c] + 1
          /\ delay'[c] = 0 /\ nap'[c] = 0 /\ pol' = pol
      BY <1>2 DEF Woken
    <2>2. attempt[c] < MaxAttempts(pol[c]) /\ MaxAttempts(pol[c]) \in Nat /\ attempt[c] \in Nat
      BY <1>2, PolicyFits DEF Woken, DoerOK
    <2>3. attempt'[c] <= MaxAttempts(pol[c])
      BY <2>1, <2>2
    <2> QED BY <2>1, <2>3 DEF DoerOK
  <1>3. CASE SleepAborted(c)
    <2>1. /\ loop'[c] = "cancelled" /\ attempt' = attempt
          /\ delay'[c] = 0 /\ nap'[c] = 0 /\ pol' = pol
      BY <1>3 DEF SleepAborted
    <2> QED BY <2>1 DEF DoerOK
  <1>4. ASSUME NEW r \in {"ok", "failed", "fatal"}, OpEnds(c, r) PROVE DoerOK(c)'
    <2>1. CASE UNCHANGED <<delay, nap>> /\ loop'[c] # "sleep"
      BY <1>4, <2>1, DoerFrame DEF OpEnds
    <2>2. CASE /\ Loop(c, "sleep") /\ attempt[c] < MaxAttempts(pol[c])
               /\ \E d \in Delays(pol[c], attempt[c]) :
                    delay' = [delay EXCEPT ![c] = d] /\ nap' = [nap EXCEPT ![c] = d]
      <3>1. PICK d \in Delays(pol[c], attempt[c]) :
                   delay' = [delay EXCEPT ![c] = d] /\ nap' = [nap EXCEPT ![c] = d]
        BY <2>2
      <3> DEFINE top == IF attempt[c] = 1 THEN BaseDelay(pol[c]) ELSE MaxDelay(pol[c])
      <3>2. d \in Nat /\ d <= top + Jitter(pol[c], top)
        BY DelaysBound
      <3>3. delay'[c] = d /\ nap'[c] = d /\ pol' = pol /\ attempt' = attempt
        BY <1>4, <3>1 DEF OpEnds
      <3>4. SleepBound(c)'
        BY <3>2, <3>3 DEF SleepBound
      <3>5. nap'[c] <= delay'[c]
        BY <3>2, <3>3
      <3>6. attempt'[c] <= MaxAttempts(pol[c])' /\ attempt'[c] < MaxAttempts(pol[c])'
        BY <2>2, <3>3, PolicyFits DEF DoerOK
      <3> QED BY <3>4, <3>5, <3>6 DEF DoerOK
    <2> QED BY <1>4, <2>1, <2>2 DEF OpEnds
  <1> QED BY <1>1, <1>2, <1>3, <1>4 DEF RetryMove

LEMMA RetryMoveKeeps == ASSUME RetryInv, NEW c \in Doers, RetryMove(c) PROVE RetryInv'
  <1>1. RetryShape'
    BY RetryShapeKept
  <1>2. DoerOK(c)'
    BY DoerMoves
  <1>3. ASSUME NEW e \in Doers, e # c PROVE DoerOK(e)'
    <2>1. /\ pol'[e] = pol[e] /\ attempt'[e] = attempt[e] /\ delay'[e] = delay[e]
          /\ nap'[e] = nap[e] /\ loop'[e] = loop[e]
      BY <1>3 DEF RetryInv, RetryShape, RetryMove, Aborted, Begun, Woken, SleepAborted, End, OpEnds, Loop
    <2> QED BY <2>1, DoerFrame DEF RetryInv
  <1> QED BY <1>1, <1>2, <1>3 DEF RetryInv

\* Time only shortens what is left of a sleep.
LEMMA SleepKeeps ==
  ASSUME RetryInv, Slept, UNCHANGED <<pol, loop, attempt, delay, ended>>
  PROVE  RetryInv'
  <1>1. nap' \in [Doers -> Nat] /\ \A c \in Doers : nap'[c] <= nap[c]
    BY DEF Slept, RetryInv, RetryShape
  <1>2. RetryShape'
    BY <1>1 DEF RetryInv, RetryShape
  <1>3. ASSUME NEW c \in Doers PROVE DoerOK(c)'
    <2>1. nap'[c] <= delay[c]
      BY <1>1 DEF RetryInv, RetryShape, DoerOK
    <2> QED BY <2>1 DEF RetryInv, DoerOK, SleepBound
  <1> QED BY <1>2, <1>3 DEF RetryInv

LEMMA RetryFrame == ASSUME RetryInv, UNCHANGED retryVars PROVE RetryInv'
  BY DEF RetryInv, RetryShape, DoerOK, SleepBound, retryVars

LEMMA RetryStart == ASSUME RetryInit PROVE RetryInv
  <1>1. RetryShape
    BY DEF RetryInit, RetryShape, Stages
  <1>2. ASSUME NEW c \in Doers PROVE DoerOK(c)
    <2>1. pol[c] \in Policies
      BY <1>1 DEF RetryShape
    <2>2. MaxAttempts(pol[c]) \in Nat \ {0}
      BY <2>1, PolicyFits
    <2> QED BY <2>2 DEF RetryInit, DoerOK
  <1> QED BY <1>1, <1>2 DEF RetryInv

\* Every step of the two packages together keeps the loops of Do in bounds.
LEMMA RetryKept == ASSUME RetryInv, working \subseteq Callers, [Next]_vars
                   PROVE  RetryInv' /\ working' \subseteq Callers
  <1>1. CASE UNCHANGED vars
    BY <1>1, RetryFrame DEF vars
  <1>2. CASE Tick
    BY <1>2, SleepKeeps DEF Tick
  <1>3. CASE SetBack
    BY <1>3, RetryFrame DEF SetBack
  <1>4. ASSUME NEW c \in Callers, Attempt(c) \/ GiveUp(c) \/ Finish(c) \/ RetryStep(c) \/ Cancel(c)
        PROVE  RetryMove(c) /\ working' \subseteq Callers
    <2>1. CASE Attempt(c)
      BY <2>1 DEF Attempt, RetryMove
    <2>2. CASE GiveUp(c)
      BY <2>2 DEF GiveUp, RetryMove
    <2>3. CASE Finish(c)
      BY <2>3 DEF Finish, RetryMove
    <2>4. CASE RetryStep(c) \/ Cancel(c)
      BY <2>4 DEF RetryStep, Cancel, RetryMove
    <2> QED BY <1>4, <2>1, <2>2, <2>3, <2>4
  <1>5. ASSUME NEW c \in Callers, GetTokens(c) \/ WaitOn(c)
        PROVE  UNCHANGED retryVars /\ working' \subseteq Callers
    BY <1>5 DEF GetTokens, WaitOn
  <1> QED BY <1>1, <1>2, <1>3, <1>4, <1>5, RetryMoveKeeps, RetryFrame, PacingAssumption
          DEF Next, Step, Tick, SetBack

\* Do makes no more attempts than its policy allows, with every delay in its
\* bounds, for any policy: unset or negative fields, multipliers below one, a base
\* above the maximum, any jitter (retry.go:125, 159), whatever the bucket and the
\* contexts do.
THEOREM DoIsBounded == Spec => []AttemptsBounded
  <1> DEFINE I == BucketInv /\ RetryInv /\ working \subseteq Callers
  <1>1. Init => I
    BY BucketStart, RetryStart DEF Init
  <1>2. I /\ [Next]_vars => I'
    BY BucketKept, PacingIsBucket, RetryKept
  <1>3. ASSUME I PROVE AttemptsBounded
    <2>1. BucketTypeOK
      BY <1>3, BucketImplies
    <2>2. RetryTypeOK
      <3>1. ASSUME NEW c \in Doers PROVE attempt[c] \in 1..MaxAttempts(pol[c]) /\ nap[c] \in 0..delay[c]
        <4>1. MaxAttempts(pol[c]) \in Nat
          BY <1>3, PolicyFits DEF RetryInv, RetryShape
        <4> QED BY <1>3, <4>1 DEF RetryInv, RetryShape, DoerOK
      <3> QED BY <1>3, <3>1 DEF RetryInv, RetryShape, Stages, RetryTypeOK
    <2>3. DelayBounded
      BY <1>3, PacingAssumption DEF RetryInv, DoerOK, SleepBound, DelayBounded
    <2> QED BY <1>3, <2>1, <2>2, <2>3 DEF AttemptsBounded, TypeOK
  <1> QED BY <1>1, <1>2, <1>3, PTL DEF Spec

-----------------------------------------------------------------------------
(* The circuit breaker, for any set of callers, any threshold and any        *)
(* cooldown.                                                                 *)

(* A call counts as a probe exactly while it is in flight.                 *)
ProbesInFlight ==
    \A c \in Goroutines : /\ c \in probe => InFlight(c)
                          /\ pc[c] = "notifyProbe" => c \in probe

(* The call that made the breaker half-open is still out.                  *)
HalfOpenHasProbe == state = "halfOpen" /\ ~lost => \E c \in Goroutines : c \in probe

(* Without stale results a probe keeps the breaker half-open until it      *)
(* ends, and a half-open breaker admits no other.                          *)
ProbeMeansHalfOpen == ~stale => \A c \in Goroutines : c \in probe => state = "halfOpen"

(* In a closed breaker the count is below the threshold or, after a        *)
(* delayed write, at it; without one it is the run of failures.            *)
CountInClosed ==
    state = "closed" => /\ failures <= Threshold
                        /\ ~late => failures = streak

BreakerIInv ==
    /\ BreakerTypeOK
    /\ ProbesInFlight
    /\ HalfOpenHasProbe
    /\ ProbeMeansHalfOpen
    /\ CountInClosed
    /\ SingleProbeUnlessStale

-----------------------------------------------------------------------------

LEMMA BreakerInitIInv == BreakerInit => BreakerIInv
<1> SUFFICES ASSUME BreakerInit PROVE BreakerIInv
  OBVIOUS
<1> USE DEF BreakerInit
<1>1. stale \in BOOLEAN /\ late \in BOOLEAN /\ lost \in BOOLEAN
  OBVIOUS
<1>2. BreakerTypeOK
  BY <1>1, ThresholdAssumption DEF BreakerTypeOK, States, PCs
<1>3. ProbesInFlight /\ HalfOpenHasProbe /\ ProbeMeansHalfOpen
        /\ SingleProbeUnlessStale
  BY DEF ProbesInFlight, HalfOpenHasProbe, ProbeMeansHalfOpen,
     SingleProbeUnlessStale, SingleProbe
<1>4. CountInClosed
  BY ThresholdAssumption DEF CountInClosed
<1>. QED
  BY <1>2, <1>3, <1>4 DEF BreakerIInv

(* allow() *)
LEMMA AllowStep ==
    ASSUME BreakerIInv, NEW c \in Goroutines, AllowClosed(c) \/ AllowProbe(c)
    PROVE  BreakerIInv'
<1> USE ThresholdAssumption DEF BreakerIInv
<1>1. CASE AllowClosed(c)
  <2> USE <1>1 DEF AllowClosed
  <2>1. BreakerTypeOK'
    BY DEF BreakerTypeOK, PCs
  <2>2. ProbesInFlight'
    BY DEF BreakerTypeOK, ProbesInFlight, InFlight
  <2>3. HalfOpenHasProbe' /\ ProbeMeansHalfOpen' /\ SingleProbeUnlessStale'
    BY DEF HalfOpenHasProbe, ProbeMeansHalfOpen, SingleProbeUnlessStale,
       SingleProbe
  <2>4. CountInClosed'
    BY DEF CountInClosed
  <2>. QED
    BY <2>1, <2>2, <2>3, <2>4
<1>2. CASE AllowProbe(c)
  <2> USE <1>2 DEF AllowProbe
  <2>1. BreakerTypeOK'
    BY DEF BreakerTypeOK, PCs, States
  <2>2. ProbesInFlight'
    BY DEF BreakerTypeOK, ProbesInFlight, InFlight
  <2>3. HalfOpenHasProbe' /\ ProbeMeansHalfOpen'
    BY DEF HalfOpenHasProbe, ProbeMeansHalfOpen
  <2>4. SingleProbeUnlessStale'
    BY DEF ProbeMeansHalfOpen, SingleProbeUnlessStale, SingleProbe
  <2>5. CountInClosed'
    BY DEF CountInClosed
  <2>. QED
    BY <2>1, <2>2, <2>3, <2>4, <2>5
<1>. QED
  BY <1>1, <1>2

(* The callbacks of OnStateChange return. *)
LEMMA NotifiedStep ==
    ASSUME BreakerIInv, NEW c \in Goroutines, Notified(c)
    PROVE  BreakerIInv'
<1> USE ThresholdAssumption DEF BreakerIInv
<1>1. CASE ProbeNotified(c)
  <2> USE <1>1 DEF ProbeNotified
  <2>1. BreakerTypeOK'
    BY DEF BreakerTypeOK, PCs
  <2>2. ProbesInFlight'
    BY DEF BreakerTypeOK, ProbesInFlight, InFlight
  <2>3. HalfOpenHasProbe' /\ ProbeMeansHalfOpen' /\ SingleProbeUnlessStale'
    BY DEF HalfOpenHasProbe, ProbeMeansHalfOpen, SingleProbeUnlessStale,
       SingleProbe
  <2>4. CountInClosed'
    BY DEF CountInClosed
  <2>. QED
    BY <2>1, <2>2, <2>3, <2>4
<1>2. CASE ReopenNotified(c)
  <2> USE <1>2 DEF ReopenNotified
  <2>0. late' \in BOOLEAN
    OBVIOUS
  <2>1. BreakerTypeOK'
    BY <2>0 DEF BreakerTypeOK, PCs
  <2>2. ProbesInFlight'
    BY DEF BreakerTypeOK, ProbesInFlight, InFlight
  <2>3. HalfOpenHasProbe' /\ ProbeMeansHalfOpen' /\ SingleProbeUnlessStale'
    BY DEF HalfOpenHasProbe, ProbeMeansHalfOpen, SingleProbeUnlessStale,
       SingleProbe
  <2>4. state' = "closed" => late'
    OBVIOUS
  <2>5. CountInClosed'
    BY <2>4 DEF CountInClosed
  <2>. QED
    BY <2>1, <2>2, <2>3, <2>5
<1>. QED
  BY <1>1, <1>2 DEF Notified

(* recordResult() *)
LEMMA RecordClosedStep ==
    ASSUME BreakerIInv, NEW c \in Goroutines, NEW failed \in BOOLEAN,
           RecordClosed(c, failed)
    PROVE  BreakerIInv'
<1> USE ThresholdAssumption DEF BreakerIInv, RecordClosed, Returns
<1>0. failures \in Nat /\ failures <= Threshold /\ streak \in Nat
        /\ (~late => failures = streak)
  BY DEF BreakerTypeOK, CountInClosed
<1>1. BreakerTypeOK'
  <2>1. failures' \in 0..(Threshold + 1) /\ streak' \in Nat
    BY <1>0
  <2>2. state' \in States /\ openedAt' \in Nat
    BY DEF BreakerTypeOK, States
  <2>. QED
    BY <2>1, <2>2 DEF BreakerTypeOK, PCs
<1>2. ProbesInFlight'
  BY DEF BreakerTypeOK, ProbesInFlight, InFlight
<1>3. state' # "halfOpen"
  BY DEF BreakerTypeOK
<1>4. HalfOpenHasProbe'
  BY <1>3 DEF HalfOpenHasProbe
<1>5. ProbeMeansHalfOpen' /\ SingleProbeUnlessStale'
  BY DEF ProbeMeansHalfOpen, SingleProbeUnlessStale, SingleProbe
<1>6. CountInClosed'
  BY <1>0 DEF CountInClosed
<1>. QED
  BY <1>1, <1>2, <1>4, <1>5, <1>6

LEMMA RecordHalfOpenStep ==
    ASSUME BreakerIInv, NEW c \in Goroutines, NEW failed \in BOOLEAN,
           RecordHalfOpen(c, failed)
    PROVE  BreakerIInv'
<1> USE ThresholdAssumption DEF BreakerIInv, RecordHalfOpen, Returns
<1>0. stale' \in BOOLEAN /\ (~stale' => ~stale /\ c \in probe)
  BY DEF BreakerTypeOK
<1>1. BreakerTypeOK'
  BY <1>0 DEF BreakerTypeOK, PCs, States
<1>2. ProbesInFlight'
  BY DEF BreakerTypeOK, ProbesInFlight, InFlight
<1>3. HalfOpenHasProbe'
  BY DEF HalfOpenHasProbe
<1>4. ~stale' => \A d \in Goroutines : d \notin probe'
  BY <1>0 DEF SingleProbeUnlessStale, SingleProbe
<1>5. ProbeMeansHalfOpen' /\ SingleProbeUnlessStale'
  BY <1>4 DEF ProbeMeansHalfOpen, SingleProbeUnlessStale, SingleProbe
<1>6. CountInClosed'
  BY DEF CountInClosed
<1>. QED
  BY <1>1, <1>2, <1>3, <1>5, <1>6

LEMMA RecordOpenStep ==
    ASSUME BreakerIInv, NEW c \in Goroutines, RecordOpen(c)
    PROVE  BreakerIInv'
<1> USE ThresholdAssumption DEF BreakerIInv, RecordOpen, Returns
<1>1. BreakerTypeOK'
  BY DEF BreakerTypeOK, PCs
<1>2. ProbesInFlight'
  BY DEF BreakerTypeOK, ProbesInFlight, InFlight
<1>3. HalfOpenHasProbe' /\ ProbeMeansHalfOpen' /\ SingleProbeUnlessStale'
  BY DEF HalfOpenHasProbe, ProbeMeansHalfOpen, SingleProbeUnlessStale,
     SingleProbe
<1>4. CountInClosed'
  BY DEF CountInClosed
<1>. QED
  BY <1>1, <1>2, <1>3, <1>4

LEMMA OpPanicsStep ==
    ASSUME BreakerIInv, NEW c \in Goroutines, OpPanics(c)
    PROVE  BreakerIInv'
<1> USE ThresholdAssumption DEF BreakerIInv, OpPanics, Returns
<1>0. lost' \in BOOLEAN
  OBVIOUS
<1>1. BreakerTypeOK'
  BY <1>0 DEF BreakerTypeOK, PCs
<1>2. ProbesInFlight'
  BY DEF BreakerTypeOK, ProbesInFlight, InFlight
<1>3. HalfOpenHasProbe' /\ ProbeMeansHalfOpen' /\ SingleProbeUnlessStale'
  BY DEF HalfOpenHasProbe, ProbeMeansHalfOpen, SingleProbeUnlessStale,
     SingleProbe
<1>4. CountInClosed'
  BY DEF CountInClosed
<1>. QED
  BY <1>1, <1>2, <1>3, <1>4

LEMMA ResetStep == ASSUME BreakerIInv, Reset PROVE BreakerIInv'
<1> USE ThresholdAssumption DEF BreakerIInv, Reset
<1>0. stale' \in BOOLEAN
  OBVIOUS
<1>1. BreakerTypeOK'
  BY <1>0 DEF BreakerTypeOK, States
<1>2. ProbesInFlight'
  BY DEF ProbesInFlight, InFlight
<1>3. HalfOpenHasProbe' /\ ProbeMeansHalfOpen' /\ SingleProbeUnlessStale'
  BY DEF HalfOpenHasProbe, ProbeMeansHalfOpen, SingleProbeUnlessStale
<1>4. CountInClosed'
  BY DEF CountInClosed
<1>. QED
  BY <1>1, <1>2, <1>3, <1>4

LEMMA ClockTickStep == ASSUME BreakerIInv, ClockTick PROVE BreakerIInv'
<1> USE DEF BreakerIInv, ClockTick
<1>1. BreakerTypeOK'
  BY DEF BreakerTypeOK
<1>2. ProbesInFlight' /\ HalfOpenHasProbe' /\ ProbeMeansHalfOpen'
        /\ SingleProbeUnlessStale'
  BY DEF ProbesInFlight, InFlight, HalfOpenHasProbe, ProbeMeansHalfOpen,
     SingleProbeUnlessStale, SingleProbe
<1>3. CountInClosed'
  BY DEF CountInClosed
<1>. QED
  BY <1>1, <1>2, <1>3

LEMMA BreakerStutter == ASSUME BreakerIInv, UNCHANGED breakerVars PROVE BreakerIInv'
BY DEF BreakerIInv, breakerVars, BreakerTypeOK, ProbesInFlight, InFlight, HalfOpenHasProbe,
   ProbeMeansHalfOpen, CountInClosed, SingleProbeUnlessStale, SingleProbe

(* BreakerIInv is inductive: one case per action.                                 *)
LEMMA BreakerNextIInv == BreakerIInv /\ [BreakerNext]_breakerVars => BreakerIInv'
<1> SUFFICES ASSUME BreakerIInv, [BreakerNext]_breakerVars PROVE BreakerIInv'
  OBVIOUS
<1>1. CASE UNCHANGED breakerVars
  BY <1>1, BreakerStutter
<1>2. ASSUME NEW c \in Goroutines, AllowClosed(c) \/ AllowProbe(c) PROVE BreakerIInv'
  BY <1>2, AllowStep
<1>3. ASSUME NEW c \in Goroutines, Notified(c) PROVE BreakerIInv'
  BY <1>3, NotifiedStep
<1>4. ASSUME NEW c \in Goroutines, RecordResult(c) PROVE BreakerIInv'
  BY <1>4, RecordClosedStep, RecordHalfOpenStep, RecordOpenStep
     DEF RecordResult
<1>5. ASSUME NEW c \in Goroutines, OpPanics(c) PROVE BreakerIInv'
  BY <1>5, OpPanicsStep
<1>. QED
  BY <1>1, <1>2, <1>3, <1>4, <1>5, ResetStep, ClockTickStep DEF BreakerNext

LEMMA BreakerInductive == BreakerSpec => []BreakerIInv
<1>1. BreakerInit /\ [][BreakerNext]_breakerVars => []BreakerIInv
  BY BreakerInitIInv, BreakerNextIInv, PTL
<1>. QED
  BY <1>1 DEF BreakerSpec

-----------------------------------------------------------------------------

(* Every variable keeps its type; the failure count never passes the       *)
(* threshold by more than one.                                             *)
THEOREM BreakerTypes == BreakerSpec => []BreakerTypeOK
<1>1. BreakerIInv => BreakerTypeOK
  BY DEF BreakerIInv
<1>. QED
  BY <1>1, BreakerInductive, PTL

(* A half-open breaker has a call in flight whose result will decide it.   *)
THEOREM BreakerHalfOpenHasCall == BreakerSpec => []HalfOpenHasCall
<1>1. BreakerIInv => HalfOpenHasCall
  BY DEF BreakerIInv, HalfOpenHasProbe, ProbesInFlight, HalfOpenHasCall
<1>. QED
  BY <1>1, BreakerInductive, PTL

(* One probe at a time, until a half-open breaker takes a stale result or  *)
(* is reset.                                                               *)
THEOREM BreakerSingleProbe == BreakerSpec => []SingleProbeUnlessStale
<1>1. BreakerIInv => SingleProbeUnlessStale
  BY DEF BreakerIInv
<1>. QED
  BY <1>1, BreakerInductive, PTL

(* allow(), the callbacks and Reset never trip a closed breaker;           *)
(* recordResult does at the end of a run of Threshold failures.            *)
THEOREM BreakerTripsOnStreak == BreakerSpec => TripsOnStreak
<1>1. ASSUME BreakerIInv, [BreakerNext]_breakerVars
      PROVE  [state = "closed" /\ state' = "open" /\ ~late
                => streak' >= Threshold]_breakerVars
  <2> SUFFICES ASSUME BreakerNext, state = "closed", state' = "open", ~late
               PROVE  streak' >= Threshold
    BY <1>1
  <2>1. PICK c \in Goroutines : \E failed \in BOOLEAN : RecordClosed(c, failed)
    BY DEF BreakerNext, AllowClosed, AllowProbe, Notified, ProbeNotified,
       ReopenNotified, RecordResult, RecordHalfOpen, RecordOpen, OpPanics,
       Reset, ClockTick
  <2>2. PICK failed \in BOOLEAN : RecordClosed(c, failed)
    BY <2>1
  <2>3. failures = streak /\ streak \in Nat
    BY <1>1 DEF BreakerIInv, BreakerTypeOK, CountInClosed
  <2>. QED
    BY <2>2, <2>3, ThresholdAssumption DEF RecordClosed
<1>. QED
  BY <1>1, BreakerInductive, PTL DEF BreakerSpec, TripsOnStreak

=============================================================================
