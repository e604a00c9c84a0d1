------------------------------ MODULE KVProofs ------------------------------
(* The store of internal/kv for any keys, values, lifetimes, callers and      *)
(* number of shards: it implements the abstract store of KVStore, and Len     *)
(* counts what was there.                                                     *)
EXTENDS KV, FiniteSetTheorems, WellFoundedInduction, TLAPS

-----------------------------------------------------------------------------
(* The number of shards.  The loop of nextPow2 is a recursive function; that  *)
(* it has a value is an induction on the distance to the end of its domain.   *)

\* The least element of a set of naturals.
LEMMA LeastNat == ASSUME NEW T \in SUBSET Nat, T # {}
                  PROVE  \E x \in T : \A y \in T : x <= y
  <1>1. \E x \in T : \A y \in T : ~(<<y, x>> \in OpToRel(<, Nat))
    BY NatLessThanWellFounded, WFMin
  <1>2. \A x, y \in Nat : ~(<<y, x>> \in OpToRel(<, Nat)) => x <= y
    BY DEF OpToRel
  <1>. QED BY <1>1, <1>2

\* The doubling loop from p has a value for every p up to 2n.
LEMMA DoublingEnds ==
  ASSUME NEW n \in Nat \ {0}
  PROVE  \E f : f = [p \in 1..(2 * n) |-> IF p < n THEN f[2 * p] ELSE p]
  <1>. DEFINE Body(g, p) == IF p < n THEN g[2 * p] ELSE p
              Part(j) == \E g : g = [p \in (2 * n - j)..(2 * n) |-> Body(g, p)]
              T == {j \in 0..(2 * n - 1) : ~Part(j)}
  <1>1. ASSUME T # {} PROVE FALSE
    <2>1. PICK j \in T : \A i \in T : j <= i
      <3>1. T \in SUBSET Nat
        OBVIOUS
      <3>. HIDE DEF T
      <3>. QED BY <1>1, <3>1, LeastNat
    <2>2. j # 0
      <3>. DEFINE g == [p \in (2 * n)..(2 * n) |-> p]
      <3>1. g = [p \in (2 * n - 0)..(2 * n) |-> Body(g, p)]
        OBVIOUS
      <3>2. Part(0)
        BY <3>1
      <3>. QED BY <2>1, <3>2
    <2>3. PICK g : g = [p \in (2 * n - (j - 1))..(2 * n) |-> Body(g, p)]
      <3>1. j - 1 \in 0..(2 * n - 1) /\ j - 1 \notin T
        BY <2>1, <2>2
      <3>. QED BY <3>1
    <2>. DEFINE m == 2 * n - j
                h == [p \in m..(2 * n) |-> IF p = m THEN Body(g, m) ELSE g[p]]
    <2>4. m \in 1..(2 * n - 1)
      BY <2>1, <2>2
    <2>5. ASSUME NEW p \in m..(2 * n) PROVE h[p] = Body(h, p)
      <3>1. p < n => h[2 * p] = g[2 * p]
        BY <2>4
      <3>2. p # m => g[p] = Body(g, p)
        <4>1. p # m => p \in (2 * n - (j - 1))..(2 * n)
          BY <2>1, <2>4
        <4>. QED BY <2>3, <4>1
      <3>. QED BY <3>1, <3>2
    <2>6. h = [p \in (2 * n - j)..(2 * n) |-> Body(h, p)]
      <3>. HIDE DEF Body
      <3>1. h = [p \in m..(2 * n) |-> h[p]]
        OBVIOUS
      <3>. HIDE DEF h
      <3>. QED BY <3>1, <2>5
    <2>7. Part(j)
      <3>. HIDE DEF h
      <3>. QED BY <2>6
    <2>. QED BY <2>1, <2>7
  <1>2. Part(2 * n - 1)
    <2>. HIDE DEF Part
    <2>. QED BY <1>1
  <1>3. 2 * n - (2 * n - 1) = 1
    OBVIOUS
  <1>. QED BY <1>2, <1>3

\* nextPow2 returns a power's worth of shards: at least one, for every n.
LEMMA NextPow2Positive == ASSUME NEW n \in Nat \ {0} PROVE NextPow2(n) \in Nat \ {0}
  <1>. DEFINE Loop(f) == [p \in 1..(2 * n) |-> IF p < n THEN f[2 * p] ELSE p]
              doubled == CHOOSE f : f = Loop(f)
              T == {d \in 0..(2 * n) : d < 2 * n /\ doubled[2 * n - d] \notin Nat \ {0}}
  <1>1. doubled = Loop(doubled)
    <2>1. \E f : f = Loop(f)
      BY DoublingEnds
    <2>. HIDE DEF Loop
    <2>. QED BY <2>1
  <1>. HIDE DEF doubled
  <1>2. ASSUME T # {} PROVE FALSE
    <2>1. PICK d \in T : \A i \in T : d <= i
      <3>1. T \in SUBSET Nat
        OBVIOUS
      <3>. HIDE DEF T
      <3>. QED BY <1>2, <3>1, LeastNat
    <2>. DEFINE p == 2 * n - d
    <2>2. d \in Nat /\ p \in 1..(2 * n) /\ doubled[p] \notin Nat \ {0}
      BY <2>1
    <2>3. doubled[p] = IF p < n THEN doubled[2 * p] ELSE p
      BY <1>1, <2>2
    <2>4. CASE p < n
      <3>. DEFINE e == 2 * n - 2 * p
      <3>1. e \in 0..(2 * n) /\ e < d /\ e < 2 * n /\ 2 * n - e = 2 * p
        BY <2>1, <2>2, <2>4
      <3>2. e \notin T
        <4>. HIDE DEF T
        <4>. HIDE DEF e, p
        <4>. QED BY <2>1, <2>2, <3>1
      <3>. QED BY <3>1, <3>2, <2>2, <2>3, <2>4
    <2>5. CASE ~(p < n)
      BY <2>2, <2>3, <2>5
    <2>. QED BY <2>4, <2>5
  <1>3. 2 * n - 1 \notin T
    BY <1>2
  <1>4. doubled[1] \in Nat \ {0}
    BY <1>3
  <1>. QED BY <1>4 DEF NextPow2, doubled

LEMMA ShardsPositive == NumShards \in Nat \ {0}
  BY NextPow2Positive, KVAssumption DEF NumShards

\* A key's shard is one of the table.
LEMMA ShardInTable == \A k \in Keys : ShardFor(k) \in 0..(NumShards - 1)
  BY ShardsPositive, KVAssumption DEF ShardFor

-----------------------------------------------------------------------------
(* The invariant *)

Gets == [at : {"check", "drop"}, key : Keys, copy : Entries, fill : TTLs \union {NoAsk}]
Computes == [at : {"compute"}, key : Keys, fill : TTLs]
Lens == [at : {"len"}, shard : 0..NumShards, n : 0..Cardinality(Keys)]
Sweeps == [at : {"sweep"}, now : 1..MaxTime, shard : 0..(NumShards - 1)]

Types == /\ now \in 1..MaxTime
         /\ entries \in [Keys -> Entries \union {Missing}]
         /\ proc \in [Procs -> Locals]
         /\ calls \in 0..MaxCalls

Flags == stop \in BOOLEAN /\ stopped \in BOOLEAN

\* What a Get in progress has seen: what its key holds now, and its copy, unless
\* that was expired from the start; a Get about to drop has an expired copy.
Seen(c) ==
  LET l == proc[c] IN
  IF InGet(l)
  THEN /\ ask[c] = [key |-> l.key, seen |-> ask[c].seen]
       /\ ask[c].seen \in SUBSET (Entries \union {Missing})
       /\ Live[l.key] \in ask[c].seen
       /\ l.copy \in ask[c].seen \/ (Missing \in ask[c].seen /\ Expired(l.copy, now))
       /\ l.at = "drop" => Expired(l.copy, now)
  ELSE ask[c] = NoAsk

\* The keys of S in the first s shards.
Below(S, s) == {k \in S : ShardFor(k) < s}

\* What a Len in progress has counted, for the shards behind it.
Counted(c) ==
  At(c, "len") =>
    /\ span[c].all \subseteq Present /\ Present \subseteq span[c].ever
    /\ span[c].ever \subseteq Keys
    /\ Cardinality(Below(span[c].all, proc[c].shard)) <= proc[c].n
    /\ proc[c].n <= Cardinality(Below(span[c].ever, proc[c].shard))

\* A sweep works with a time that has been.
SweepPast(p) == At(p, "sweep") => proc[p].now <= now

Histories == /\ ask = [c \in Callers |-> ask[c]]
             /\ \A c \in Callers : Seen(c) /\ Counted(c)
             /\ \A p \in Procs : SweepPast(p)

IInv == Types /\ Flags /\ Histories

\* Where a goroutine is tells which locals it has.
LEMMA Kinds ==
  ASSUME NEW l \in Locals
  PROVE  /\ InGet(l) => l \in Gets
         /\ l.at = "compute" => l \in Computes
         /\ l.at = "len" => l \in Lens
         /\ l.at = "sweep" => l \in Sweeps
  <1>. USE DEF InGet, Gets, Computes, Lens, Sweeps
  <1>1. CASE l \in {Idle, [at |-> "closing"], [at |-> "gone"]}
    BY <1>1 DEF Idle
  <1>2. CASE l \in Gets
    BY <1>2
  <1>3. CASE l \in Computes
    BY <1>3
  <1>4. CASE l \in Lens
    BY <1>4
  <1>5. CASE l \in Sweeps
    BY <1>5
  <1>. QED BY <1>1, <1>2, <1>3, <1>4, <1>5 DEF Locals

LEMMA LocalsHold ==
  /\ Idle \in Locals /\ [at |-> "closing"] \in Locals /\ [at |-> "gone"] \in Locals
  /\ Gets \subseteq Locals /\ Computes \subseteq Locals
  /\ Lens \subseteq Locals /\ Sweeps \subseteq Locals
  BY DEF Locals, Gets, Computes, Lens, Sweeps

LEMMA ProcsAre == Janitor \in Procs /\ Callers \subseteq Procs /\ Janitor \notin Callers
  BY KVAssumption DEF Procs

\* Expired once, expired from then on.
LEMMA ExpiredStays ==
  ASSUME NEW e \in Entries, NEW t \in Nat, NEW u \in Nat, t <= u, Expired(e, t)
  PROVE  Expired(e, u)
  BY DEF Entries, Expired

\* What callers see of a key.
LEMMA LiveType == ASSUME Types PROVE Live \in [Keys -> Entries \union {Missing}]
  BY DEF Types, Live

\* A time that goes on keeps what was seen: the goroutine has not moved.
LEMMA SeenStays ==
  ASSUME Types, Types', now <= now', History, NEW c \in Callers, Seen(c),
         InGet(proc[c]), InGet(proc'[c]),
         proc'[c].key = proc[c].key, proc'[c].copy = proc[c].copy,
         proc'[c].at = "drop" => proc[c].at = "drop" \/ Expired(proc[c].copy, now')
  PROVE  Seen(c)'
  <1>1. proc'[c] \in Gets /\ proc[c] \in Gets
    BY Kinds, ProcsAre DEF Types
  <1>2. ask'[c] = [key |-> proc'[c].key, seen |-> {Live'[proc'[c].key]} \union ask[c].seen]
    BY DEF History
  <1>3. Live' \in [Keys -> Entries \union {Missing}]
    BY DEF Types, Live
  <1>4. /\ proc[c].key \in Keys /\ proc[c].copy \in Entries
        /\ now \in Nat /\ now' \in Nat
    BY <1>1 DEF Gets, Types
  <1>5. Expired(proc[c].copy, now) => Expired(proc[c].copy, now')
    BY <1>4, ExpiredStays
  <1>. QED BY <1>2, <1>3, <1>4, <1>5 DEF Seen

LEMMA SeenNot ==
  ASSUME History, NEW c \in Callers, ~InGet(proc'[c])
  PROVE  Seen(c)'
  BY DEF History, Seen

\* Below grows with the set and with the shards.
LEMMA BelowGrows ==
  ASSUME NEW S, NEW R \in SUBSET Keys, S \subseteq R, NEW s \in Nat
  PROVE  /\ Cardinality(Below(S, s)) <= Cardinality(Below(R, s))
         /\ Cardinality(Below(S, s)) \in Nat /\ Cardinality(Below(R, s)) \in Nat
         /\ Cardinality(Below(R, s)) <= Cardinality(Keys)
  <1>1. Below(S, s) \subseteq Below(R, s) /\ Below(R, s) \subseteq Keys
    BY DEF Below
  <1>2. IsFiniteSet(Keys) /\ IsFiniteSet(Below(R, s)) /\ IsFiniteSet(Below(S, s))
    BY <1>1, FS_Subset, KVAssumption
  <1>. QED BY <1>1, <1>2, FS_Subset, FS_CardinalityType

LEMMA CountedStays ==
  ASSUME Types, Types', History, NEW c \in Callers, Counted(c), proc'[c] = proc[c]
  PROVE  Counted(c)'
  <1>. SUFFICES ASSUME At(c, "len")
                PROVE  Counted(c)'
    BY DEF Counted, At
  <1>1. proc[c] \in Lens
    BY Kinds, ProcsAre DEF Types, At
  <1>2. /\ span'[c].all = span[c].all \intersect Present'
        /\ span'[c].ever = span[c].ever \union Present'
    BY DEF History, At
  <1>3. proc[c].shard \in Nat /\ proc[c].n \in Nat
    BY <1>1, ShardsPositive, KVAssumption, FS_CardinalityType DEF Lens
  <1>4. /\ span[c].all \subseteq Present /\ span[c].ever \in SUBSET Keys /\ Present \subseteq span[c].ever
        /\ Cardinality(Below(span[c].all, proc[c].shard)) <= proc[c].n
        /\ proc[c].n <= Cardinality(Below(span[c].ever, proc[c].shard))
    BY DEF Counted
  <1>5. Present' \subseteq Keys /\ Present \subseteq Keys
    BY DEF Present
  <1>6. Cardinality(Below(span'[c].all, proc[c].shard)) <= Cardinality(Below(span[c].all, proc[c].shard))
        /\ Cardinality(Below(span'[c].all, proc[c].shard)) \in Nat /\ Cardinality(Below(span[c].all, proc[c].shard)) \in Nat
    BY <1>2, <1>3, <1>4, <1>5, BelowGrows
  <1>7. Cardinality(Below(span[c].ever, proc[c].shard)) <= Cardinality(Below(span'[c].ever, proc[c].shard))
        /\ Cardinality(Below(span'[c].ever, proc[c].shard)) \in Nat /\ Cardinality(Below(span[c].ever, proc[c].shard)) \in Nat
    BY <1>2, <1>3, <1>4, <1>5, BelowGrows
  <1>8. /\ Cardinality(Below(span'[c].all, proc[c].shard)) <= proc[c].n
        /\ proc[c].n <= Cardinality(Below(span'[c].ever, proc[c].shard))
    BY <1>3, <1>4, <1>6, <1>7
  <1>9. /\ span'[c].all \subseteq Present' /\ Present' \subseteq span'[c].ever /\ span'[c].ever \subseteq Keys
    BY <1>2, <1>4, <1>5
  <1>. QED BY <1>8, <1>9 DEF Counted, Below, ShardFor

-----------------------------------------------------------------------------
(* Every step keeps the invariant: the goroutine that moves, by the lemma of  *)
(* its operation, the others by the two lemmas above.                         *)

LEMMA Others ==
  ASSUME IInv, Types', now <= now', History, NEW p \in Procs,
         \A q \in Procs : q # p => proc'[q] = proc[q],
         p \in Callers => Seen(p)' /\ Counted(p)', SweepPast(p)'
  PROVE  Histories'
  <1>1. ask' = [c \in Callers |-> ask'[c]]
    BY DEF History
  <1>2. ASSUME NEW c \in Callers, c # p PROVE Seen(c)' /\ Counted(c)'
    <2>1. proc'[c] = proc[c]
      BY <1>2, ProcsAre
    <2>2. Seen(c) /\ Counted(c)
      BY DEF IInv, Histories
    <2>3. CASE InGet(proc[c])
      BY <2>1, <2>2, <2>3, SeenStays, CountedStays DEF IInv
    <2>4. CASE ~InGet(proc[c])
      BY <2>1, <2>2, <2>4, SeenNot, CountedStays DEF IInv
    <2>. QED BY <2>3, <2>4
  <1>3. ASSUME NEW q \in Procs, q # p PROVE SweepPast(q)'
    <2>1. proc'[q] = proc[q] /\ SweepPast(q)
      BY <1>3 DEF IInv, Histories
    <2>2. At(q, "sweep") => proc[q] \in Sweeps
      BY Kinds DEF IInv, Types, At
    <2>. QED BY <2>1, <2>2 DEF SweepPast, At, Sweeps, IInv, Types
  <1>. QED BY <1>1, <1>2, <1>3 DEF Histories

LEMMA EntryType ==
  ASSUME Types, NEW v \in Vals, NEW ttl \in TTLs
  PROVE  Entry(v, ttl, now) \in Entries
  BY KVAssumption DEF Types, Entry, Entries

\* A step that moves one goroutine to where it is neither in Get, nor in Len, nor
\* in Sweep.
LEMMA QuietMove ==
  ASSUME IInv, History, NEW p \in Procs, NEW l \in Locals,
         l.at \notin {"check", "drop", "len", "sweep"},
         proc' = [proc EXCEPT ![p] = l], UNCHANGED now, calls' \in 0..MaxCalls,
         entries' \in [Keys -> Entries \union {Missing}]
  PROVE  Types' /\ Histories'
  <1>1. Types'
    BY DEF IInv, Types
  <1>2. proc'[p] = l /\ \A q \in Procs : q # p => proc'[q] = proc[q]
    BY DEF IInv, Types
  <1>3. p \in Callers => Seen(p)' /\ Counted(p)'
    BY <1>2, SeenNot DEF InGet, Counted, At
  <1>4. SweepPast(p)'
    BY <1>2 DEF SweepPast, At
  <1>5. now <= now'
    BY DEF IInv, Types
  <1>. QED BY <1>1, <1>2, <1>3, <1>4, <1>5, Others

\* A step that moves none.
LEMMA NoMove ==
  ASSUME IInv, History, UNCHANGED proc, calls' \in 0..MaxCalls,
         now' \in 1..MaxTime, now <= now',
         entries' \in [Keys -> Entries \union {Missing}]
  PROVE  Types' /\ Histories'
  <1>1. Types'
    BY DEF IInv, Types
  <1>2. ask' = [c \in Callers |-> ask'[c]]
    BY DEF History
  <1>3. ASSUME NEW c \in Callers PROVE Seen(c)' /\ Counted(c)'
    <2>1. Seen(c) /\ Counted(c)
      BY DEF IInv, Histories
    <2>2. CASE InGet(proc[c])
      BY <1>1, <2>1, <2>2, SeenStays, CountedStays DEF IInv
    <2>3. CASE ~InGet(proc[c])
      BY <1>1, <2>1, <2>3, SeenNot, CountedStays DEF IInv
    <2>. QED BY <2>2, <2>3
  <1>4. ASSUME NEW q \in Procs PROVE SweepPast(q)'
    <2>1. SweepPast(q)
      BY DEF IInv, Histories
    <2>2. At(q, "sweep") => proc[q] \in Sweeps
      BY Kinds DEF IInv, Types, At
    <2>. QED BY <2>1, <2>2 DEF SweepPast, At, Sweeps, IInv, Types
  <1>. QED BY <1>1, <1>2, <1>3, <1>4 DEF Histories

LEMMA BeginCalls == ASSUME IInv, NEW c \in Callers, Begin(c)
                    PROVE  calls' \in 0..MaxCalls /\ proc[c].at = "idle"
  BY KVAssumption DEF IInv, Types, Begin, At

LEMMA MissingFits == ASSUME Types, NEW k \in Keys
                     PROVE  [entries EXCEPT ![k] = Missing] \in [Keys -> Entries \union {Missing}]
  BY DEF Types

LEMMA StoreFits == ASSUME Types, NEW k \in Keys, NEW v \in Vals, NEW ttl \in TTLs, Store(k, v, ttl)
                   PROVE  entries' \in [Keys -> Entries \union {Missing}]
  BY EntryType DEF Types, Store

\* A Get that has its answer leaves for compute or ends.
LEMMA AfterGetQuiet ==
  ASSUME NEW k \in Keys, NEW fill \in TTLs \union {NoAsk}, NEW r
  PROVE  /\ AfterGet(k, fill, r) \in Locals
         /\ AfterGet(k, fill, r).at \in {"idle", "compute"}
  <1>1. CASE fill = NoAsk \/ r # Missing
    BY <1>1, LocalsHold DEF AfterGet, Idle
  <1>2. CASE ~(fill = NoAsk \/ r # Missing)
    BY <1>2, LocalsHold DEF AfterGet, Computes
  <1>. QED BY <1>1, <1>2

LEMMA WritersKeep ==
  ASSUME IInv, History, NEW c \in Callers, Set(c) \/ Delete(c) \/ Compute(c)
  PROVE  Types' /\ Histories'
  <1>1. CASE Set(c)
    <2>1. entries' \in [Keys -> Entries \union {Missing}]
      BY <1>1, StoreFits DEF Set, IInv
    <2>2. UNCHANGED <<now, proc>> /\ calls' \in 0..MaxCalls
      BY <1>1, BeginCalls DEF Set
    <2>. QED BY <2>1, <2>2, NoMove DEF IInv, Types
  <1>2. CASE Delete(c)
    <2>1. entries' \in [Keys -> Entries \union {Missing}]
      BY <1>2, MissingFits DEF Delete, IInv
    <2>2. UNCHANGED <<now, proc>> /\ calls' \in 0..MaxCalls
      BY <1>2, BeginCalls DEF Delete
    <2>. QED BY <2>1, <2>2, NoMove DEF IInv, Types
  <1>3. CASE Compute(c)
    <2>1. proc[c] \in Computes
      BY <1>3, Kinds, ProcsAre DEF Compute, At, IInv, Types
    <2>2. entries' \in [Keys -> Entries \union {Missing}]
      BY <1>3, <2>1, StoreFits DEF Compute, IInv, Types, Computes
    <2>3. UNCHANGED <<now, calls>> /\ proc' = [proc EXCEPT ![c] = Idle]
      BY <1>3 DEF Compute
    <2>4. Idle \in Locals /\ Idle.at = "idle" /\ c \in Procs /\ calls \in 0..MaxCalls
      BY LocalsHold, ProcsAre DEF Idle, IInv, Types
    <2>. QED BY <2>2, <2>3, <2>4, QuietMove
  <1>. QED BY <1>1, <1>2, <1>3

LEMMA CallGetKeeps ==
  ASSUME IInv, History, NEW c \in Callers, CallGet(c)
  PROVE  Types' /\ Histories'
  <1>1. UNCHANGED <<now, entries>> /\ calls' \in 0..MaxCalls /\ proc[c].at = "idle"
    BY BeginCalls DEF CallGet
  <1>2. entries' \in [Keys -> Entries \union {Missing}] /\ c \in Procs /\ now <= now'
    BY <1>1, ProcsAre DEF IInv, Types
  <1>3. PICK k \in Keys, fill \in TTLs \union {NoAsk} :
          \/ entries[k] = Missing /\ Answered(c, k, fill, Missing)
          \/ /\ entries[k] # Missing
             /\ proc' = [proc EXCEPT ![c] =
                  [at |-> "check", key |-> k, copy |-> entries[k], fill |-> fill]]
    BY DEF CallGet
  <1>4. CASE Answered(c, k, fill, Missing)
    <2>. DEFINE l == AfterGet(k, fill, Missing)
    <2>1. proc' = [proc EXCEPT ![c] = l] /\ l \in Locals /\ l.at \in {"idle", "compute"}
      BY <1>4, AfterGetQuiet DEF Answered
    <2>. HIDE DEF l
    <2>. QED BY <1>1, <1>2, <2>1, QuietMove
  <1>5. CASE /\ entries[k] # Missing
             /\ proc' = [proc EXCEPT ![c] =
                  [at |-> "check", key |-> k, copy |-> entries[k], fill |-> fill]]
    <2>. DEFINE l == [at |-> "check", key |-> k, copy |-> entries[k], fill |-> fill]
    <2>1. entries[k] \in Entries
      BY <1>5 DEF IInv, Types
    <2>2. l \in Gets /\ l.key = k /\ l.copy = entries[k] /\ l.at = "check"
      BY <2>1 DEF Gets
    <2>3. proc' = [proc EXCEPT ![c] = l] /\ l \in Locals
      BY <1>5, <2>2, LocalsHold
    <2>. HIDE DEF l
    <2>4. Types' /\ proc'[c] = l /\ \A q \in Procs : q # c => proc'[q] = proc[q]
      BY <1>1, <1>2, <2>3 DEF IInv, Types
    <2>5. ~InGet(proc[c]) /\ InGet(proc'[c])
      BY <1>1, <2>2, <2>4 DEF InGet
    <2>6. ask'[c] = [key |-> k, seen |-> {Live'[k]}]
      BY <2>2, <2>4, <2>5 DEF History
    <2>7. Live'[k] = IF Expired(entries[k], now) THEN Missing ELSE entries[k]
      BY <1>1, <1>5 DEF Live
    <2>8. Seen(c)'
      BY <1>1, <2>1, <2>2, <2>4, <2>5, <2>6, <2>7 DEF Seen
    <2>9. Counted(c)' /\ SweepPast(c)'
      BY <2>2, <2>4 DEF Counted, SweepPast, At
    <2>. QED BY <1>2, <2>4, <2>8, <2>9, Others
  <1>. QED BY <1>3, <1>4, <1>5

LEMMA CheckKeeps ==
  ASSUME IInv, History, NEW c \in Callers, Check(c)
  PROVE  Types' /\ Histories'
  <1>1. UNCHANGED <<now, entries, calls>> /\ proc[c].at = "check"
    BY DEF Check, At
  <1>2. /\ entries' \in [Keys -> Entries \union {Missing}] /\ c \in Procs /\ now <= now'
        /\ calls' \in 0..MaxCalls
    BY <1>1, ProcsAre DEF IInv, Types
  <1>3. InGet(proc[c]) /\ proc[c] \in Gets
    BY <1>1, <1>2, Kinds DEF InGet, IInv, Types
  <1>4. CASE Expired(proc[c].copy, now)
    <2>. DEFINE l == [proc[c] EXCEPT !.at = "drop"]
    <2>1. l \in Gets /\ l.at = "drop" /\ l.key = proc[c].key /\ l.copy = proc[c].copy
      BY <1>3 DEF Gets
    <2>2. proc' = [proc EXCEPT ![c] = l]
      BY <1>4 DEF Check
    <2>. HIDE DEF l
    <2>3. Types' /\ proc'[c] = l /\ \A q \in Procs : q # c => proc'[q] = proc[q]
      BY <1>1, <1>2, <2>1, <2>2, LocalsHold DEF IInv, Types
    <2>4. Seen(c)'
      BY <1>1, <1>2, <1>3, <1>4, <2>1, <2>3, SeenStays DEF IInv, Histories, InGet
    <2>5. Counted(c)' /\ SweepPast(c)'
      BY <2>1, <2>3 DEF Counted, SweepPast, At
    <2>. QED BY <1>2, <2>3, <2>4, <2>5, Others
  <1>5. CASE ~Expired(proc[c].copy, now)
    <2>. DEFINE l == AfterGet(proc[c].key, proc[c].fill, proc[c].copy.value)
    <2>1. proc' = [proc EXCEPT ![c] = l] /\ l \in Locals /\ l.at \in {"idle", "compute"}
      BY <1>3, <1>5, AfterGetQuiet DEF Check, Answered, Gets
    <2>. HIDE DEF l
    <2>. QED BY <1>1, <1>2, <2>1, QuietMove
  <1>. QED BY <1>4, <1>5

LEMMA DropKeeps ==
  ASSUME IInv, History, NEW c \in Callers, Drop(c)
  PROVE  Types' /\ Histories'
  <1>1. UNCHANGED <<now, calls>> /\ proc[c].at = "drop"
    BY DEF Drop, At
  <1>2. proc[c] \in Gets /\ c \in Procs /\ calls' \in 0..MaxCalls
    BY <1>1, Kinds, ProcsAre DEF InGet, IInv, Types
  <1>3. entries' = entries \/ entries' = [entries EXCEPT ![proc[c].key] = Missing]
    BY DEF Drop
  <1>4. entries' \in [Keys -> Entries \union {Missing}]
    BY <1>2, <1>3, MissingFits DEF Gets, IInv, Types
  <1>. DEFINE l == AfterGet(proc[c].key, proc[c].fill, Missing)
  <1>5. proc' = [proc EXCEPT ![c] = l] /\ l \in Locals /\ l.at \in {"idle", "compute"}
    BY <1>2, AfterGetQuiet DEF Drop, Answered, Gets
  <1>. HIDE DEF l
  <1>. QED BY <1>1, <1>2, <1>4, <1>5, QuietMove

\* Counting one more shard.
LEMMA BelowNext ==
  ASSUME NEW S \in SUBSET Keys, NEW s \in 0..(NumShards - 1)
  PROVE  /\ Cardinality(Below(S, s + 1)) = Cardinality(Below(S, s)) + Cardinality({k \in S : ShardFor(k) = s})
         /\ Cardinality(Below(S, s)) \in Nat
         /\ Cardinality({k \in S : ShardFor(k) = s}) \in Nat
         /\ IsFiniteSet({k \in S : ShardFor(k) = s})
  <1>. DEFINE A == Below(S, s)
              B == {k \in S : ShardFor(k) = s}
  <1>1. Below(S, s + 1) = A \union B /\ A \intersect B = {}
    BY ShardInTable, ShardsPositive DEF Below
  <1>2. A \subseteq Keys /\ B \subseteq Keys
    BY DEF Below
  <1>. HIDE DEF A, B
  <1>3. IsFiniteSet(A) /\ IsFiniteSet(B)
    BY <1>2, FS_Subset, KVAssumption
  <1>4. Cardinality(A \union B) = Cardinality(A) + Cardinality(B)
    <2>1. Cardinality(A \union B) = Cardinality(A) + Cardinality(B) - Cardinality(A \intersect B)
      BY <1>3, FS_Union
    <2>2. Cardinality(A \intersect B) = 0
      BY <1>1, FS_EmptySet
    <2>. QED BY <2>1, <2>2, <1>3, FS_CardinalityType
  <1>. QED BY <1>1, <1>3, <1>4, FS_CardinalityType DEF A, B

LEMMA LenShardKeeps ==
  ASSUME IInv, History, NEW c \in Callers, LenShard(c)
  PROVE  Types' /\ Histories'
  <1>. DEFINE s == proc[c].shard
              h == Cardinality(Held(s))
  <1>1. UNCHANGED <<now, entries, calls>> /\ proc[c].at = "len" /\ s < NumShards
    BY DEF LenShard, At
  <1>2. proc[c] \in Lens /\ c \in Procs
    BY <1>1, Kinds, ProcsAre DEF IInv, Types
  <1>3. s \in 0..(NumShards - 1) /\ s + 1 \in 0..NumShards
    BY <1>1, <1>2, ShardsPositive DEF Lens
  <1>4. /\ span[c].all \subseteq Present /\ Present \subseteq span[c].ever /\ span[c].ever \subseteq Keys
        /\ Cardinality(Below(span[c].all, s)) <= proc[c].n
        /\ proc[c].n <= Cardinality(Below(span[c].ever, s))
    BY <1>1 DEF IInv, Histories, Counted, At
  <1>5. Present \subseteq Keys /\ Held(s) = {k \in Present : ShardFor(k) = s}
    BY DEF Present, Held
  <1>6. /\ proc' = [proc EXCEPT ![c] = [proc[c] EXCEPT !.shard = s + 1, !.n = proc[c].n + h]]
    BY DEF LenShard
  <1>7. proc[c].n \in Nat /\ h \in Nat
    <2>1. IsFiniteSet(Held(s))
      BY <1>3, <1>5, BelowNext
    <2>. QED BY <1>2, <2>1, FS_CardinalityType, KVAssumption DEF Lens
  <1>8. /\ Cardinality(Below(span[c].all, s + 1)) <= proc[c].n + h
    <2>. DEFINE B == {k \in span[c].all : ShardFor(k) = s}
    <2>1. /\ Cardinality(Below(span[c].all, s + 1)) = Cardinality(Below(span[c].all, s)) + Cardinality(B)
          /\ Cardinality(Below(span[c].all, s)) \in Nat /\ Cardinality(B) \in Nat
      BY <1>3, <1>4, <1>5, BelowNext
    <2>2. B \subseteq Held(s) /\ IsFiniteSet(Held(s))
      BY <1>3, <1>4, <1>5, BelowNext
    <2>. HIDE DEF B
    <2>3. Cardinality(B) <= h
      BY <2>2, FS_Subset
    <2>. HIDE DEF h, s
    <2>. QED BY <1>4, <1>7, <2>1, <2>3
  <1>9. /\ proc[c].n + h <= Cardinality(Below(span[c].ever, s + 1))
    <2>. DEFINE B == {k \in span[c].ever : ShardFor(k) = s}
    <2>1. /\ Cardinality(Below(span[c].ever, s + 1)) = Cardinality(Below(span[c].ever, s)) + Cardinality(B)
          /\ Cardinality(Below(span[c].ever, s)) \in Nat /\ Cardinality(B) \in Nat
          /\ IsFiniteSet(B)
      BY <1>3, <1>4, <1>5, BelowNext
    <2>2. Held(s) \subseteq B
      BY <1>4, <1>5
    <2>. HIDE DEF B
    <2>3. h <= Cardinality(B)
      BY <2>1, <2>2, FS_Subset
    <2>. HIDE DEF h, s
    <2>. QED BY <1>4, <1>7, <2>1, <2>3
  <1>10. proc[c].n + h \in 0..Cardinality(Keys)
    <2>1. /\ Cardinality(Below(span[c].ever, s + 1)) <= Cardinality(Keys)
          /\ Cardinality(Below(span[c].ever, s + 1)) \in Nat
      BY <1>3, <1>4, BelowGrows
    <2>2. Cardinality(Keys) \in Nat
      BY KVAssumption, FS_CardinalityType
    <2>. HIDE DEF h, s
    <2>. QED BY <1>7, <1>9, <2>1, <2>2
  <1>. DEFINE l == [proc[c] EXCEPT !.shard = s + 1, !.n = proc[c].n + h]
  <1>11. l \in Lens /\ l.at = "len" /\ l.shard = s + 1 /\ l.n = proc[c].n + h
    <2>. HIDE DEF h, s
    <2>. QED BY <1>2, <1>3, <1>10 DEF Lens
  <1>. HIDE DEF l
  <1>12. Types' /\ proc'[c] = l /\ \A q \in Procs : q # c => proc'[q] = proc[q]
    BY <1>1, <1>2, <1>6, <1>11, LocalsHold DEF IInv, Types, l
  <1>13. span'[c].all = span[c].all /\ span'[c].ever = span[c].ever /\ Present' = Present
    <2>1. Present' = Present
      BY <1>1 DEF Present
    <2>2. /\ span'[c].all = span[c].all \intersect Present'
          /\ span'[c].ever = span[c].ever \union Present'
      BY <1>1, <1>11, <1>12 DEF History
    <2>. QED BY <1>4, <2>1, <2>2
  <1>14. Counted(c)'
    BY <1>4, <1>8, <1>9, <1>11, <1>12, <1>13 DEF Counted, Below, ShardFor
  <1>15. Seen(c)' /\ SweepPast(c)'
    BY <1>11, <1>12, SeenNot DEF InGet, SweepPast, At
  <1>16. now <= now'
    BY <1>1 DEF IInv, Types
  <1>. QED BY <1>2, <1>12, <1>14, <1>15, <1>16, Others

LEMMA CallLenKeeps ==
  ASSUME IInv, History, NEW c \in Callers, CallLen(c)
  PROVE  Types' /\ Histories'
  <1>. DEFINE l == [at |-> "len", shard |-> 0, n |-> 0]
  <1>1. UNCHANGED <<now, entries>> /\ calls' \in 0..MaxCalls /\ proc[c].at = "idle" /\ c \in Procs
    BY BeginCalls, ProcsAre DEF CallLen
  <1>2. l \in Lens /\ l.at = "len" /\ l.shard = 0 /\ l.n = 0
    BY ShardsPositive, KVAssumption, FS_CardinalityType DEF Lens
  <1>3. proc' = [proc EXCEPT ![c] = l]
    BY DEF CallLen
  <1>. HIDE DEF l
  <1>4. Types' /\ proc'[c] = l /\ \A q \in Procs : q # c => proc'[q] = proc[q]
    BY <1>1, <1>2, <1>3, LocalsHold DEF IInv, Types
  <1>5. span'[c].all = Present' /\ span'[c].ever = Present'
    BY <1>1, <1>2, <1>4 DEF History
  <1>6. Cardinality(Below(Present', 0)) = 0
    <2>1. \A k \in Keys : ~(ShardFor(k) < 0)
      BY ShardInTable
    <2>2. Below(Present', 0) = {}
      BY <2>1 DEF Below, Present
    <2>. QED BY <2>2, FS_EmptySet
  <1>7. Counted(c)'
    <2>1. Present' \subseteq Keys
      BY DEF Present
    <2>2. /\ Cardinality(Below(span'[c].all, proc'[c].shard)) = 0
          /\ Cardinality(Below(span'[c].ever, proc'[c].shard)) = 0
          /\ proc'[c].n = 0
      BY <1>2, <1>4, <1>5, <1>6
    <2>3. /\ Cardinality(Below(span'[c].all, proc'[c].shard)) <= proc'[c].n
          /\ proc'[c].n <= Cardinality(Below(span'[c].ever, proc'[c].shard))
      BY <2>2
    <2>. QED BY <1>5, <2>1, <2>3 DEF Counted, Below, ShardFor
  <1>8. Seen(c)' /\ SweepPast(c)'
    BY <1>2, <1>4, SeenNot DEF InGet, SweepPast, At
  <1>9. now <= now'
    BY <1>1 DEF IInv, Types
  <1>. QED BY <1>1, <1>4, <1>7, <1>8, <1>9, Others

\* A sweep begins with the time it is.
LEMMA SweepFromKeeps ==
  ASSUME IInv, History, NEW p \in Procs, SweepFrom(p), UNCHANGED <<now, entries>>,
         calls' \in 0..MaxCalls
  PROVE  Types' /\ Histories'
  <1>. DEFINE l == [at |-> "sweep", now |-> now, shard |-> 0]
  <1>1. l \in Sweeps /\ l.at = "sweep" /\ l.now = now
    BY ShardsPositive DEF Sweeps, IInv, Types
  <1>2. proc' = [proc EXCEPT ![p] = l]
    BY DEF SweepFrom
  <1>. HIDE DEF l
  <1>3. Types' /\ proc'[p] = l /\ \A q \in Procs : q # p => proc'[q] = proc[q]
    BY <1>1, <1>2, LocalsHold DEF IInv, Types
  <1>4. p \in Callers => Seen(p)' /\ Counted(p)'
    BY <1>1, <1>3, SeenNot DEF InGet, Counted, At
  <1>5. now <= now' /\ SweepPast(p)'
    BY <1>1, <1>3 DEF IInv, Types, SweepPast
  <1>. QED BY <1>3, <1>4, <1>5, Others

LEMMA SweepShardKeeps ==
  ASSUME IInv, History, NEW p \in Procs, SweepShard(p)
  PROVE  Types' /\ Histories'
  <1>1. UNCHANGED <<now, calls>> /\ proc[p].at = "sweep"
    BY DEF SweepShard, At
  <1>2. proc[p] \in Sweeps
    BY <1>1, Kinds DEF IInv, Types
  <1>3. entries' \in [Keys -> Entries \union {Missing}]
    BY DEF SweepShard, IInv, Types
  <1>4. CASE proc[p].shard + 1 = NumShards
    <2>1. proc' = [proc EXCEPT ![p] = Idle] /\ Idle \in Locals /\ Idle.at = "idle" /\ calls' \in 0..MaxCalls
      BY <1>1, <1>4, LocalsHold DEF SweepShard, Idle, IInv, Types
    <2>. QED BY <1>1, <1>3, <2>1, QuietMove
  <1>5. CASE proc[p].shard + 1 # NumShards
    <2>. DEFINE l == [proc[p] EXCEPT !.shard = proc[p].shard + 1]
    <2>1. l \in Sweeps /\ l.at = "sweep" /\ l.now = proc[p].now
      BY <1>2, <1>5, ShardsPositive DEF Sweeps
    <2>2. proc' = [proc EXCEPT ![p] = l]
      BY <1>5 DEF SweepShard
    <2>. HIDE DEF l
    <2>3. Types' /\ proc'[p] = l /\ \A q \in Procs : q # p => proc'[q] = proc[q]
      BY <1>1, <1>3, <2>1, <2>2, LocalsHold DEF IInv, Types
    <2>4. p \in Callers => Seen(p)' /\ Counted(p)'
      BY <2>1, <2>3, SeenNot DEF InGet, Counted, At
    <2>5. now <= now' /\ SweepPast(p)'
      BY <1>1, <2>1, <2>3 DEF IInv, Types, Histories, SweepPast, At
    <2>. QED BY <2>3, <2>4, <2>5, Others
  <1>. QED BY <1>4, <1>5

LEMMA EndsKeep ==
  ASSUME IInv, History,
         \/ \E c \in Callers : LenReturn(c) \/ CallClose(c) \/ CloseReturn(c) \/ CallSweep(c)
         \/ JanitorSweep \/ JanitorExit
  PROVE  Types' /\ Histories'
  <1>. USE ProcsAre
  <1>1. calls \in 0..MaxCalls /\ entries \in [Keys -> Entries \union {Missing}]
    BY DEF IInv, Types
  <1>2. Idle \in Locals /\ Idle.at = "idle"
    BY LocalsHold DEF Idle
  <1>. DEFINE gone == [at |-> "gone"]
              closing == [at |-> "closing"]
  <1>3. gone \in Locals /\ closing \in Locals /\ gone.at = "gone" /\ closing.at = "closing"
    BY LocalsHold
  <1>4. ASSUME NEW c \in Callers, LenReturn(c) \/ CloseReturn(c) PROVE Types' /\ Histories'
    <2>1. UNCHANGED <<now, entries, calls>> /\ proc' = [proc EXCEPT ![c] = Idle]
      BY <1>4 DEF LenReturn, CloseReturn
    <2>. QED BY <1>1, <1>2, <2>1, QuietMove
  <1>5. ASSUME NEW c \in Callers, CallClose(c) PROVE Types' /\ Histories'
    <2>1. UNCHANGED <<now, entries>> /\ proc' = [proc EXCEPT ![c] = closing] /\ calls' \in 0..MaxCalls
      BY <1>5, BeginCalls DEF CallClose
    <2>. HIDE DEF closing
    <2>. QED BY <1>1, <1>3, <2>1, QuietMove
  <1>6. CASE JanitorExit
    <2>1. UNCHANGED <<now, entries, calls>> /\ proc' = [proc EXCEPT ![Janitor] = gone]
      BY <1>6 DEF JanitorExit
    <2>. HIDE DEF gone
    <2>. QED BY <1>1, <1>3, <2>1, QuietMove
  <1>7. ASSUME NEW c \in Callers, CallSweep(c) PROVE Types' /\ Histories'
    BY <1>7, BeginCalls, SweepFromKeeps DEF CallSweep
  <1>8. CASE JanitorSweep
    BY <1>1, <1>8, SweepFromKeeps DEF JanitorSweep
  <1>. QED BY <1>4, <1>5, <1>6, <1>7, <1>8

LEMMA AdvanceKeeps ==
  ASSUME IInv, History, Advance
  PROVE  Types' /\ Histories'
  <1>1. now' \in 1..MaxTime /\ now <= now' /\ UNCHANGED proc
    BY KVAssumption DEF Advance, IInv, Types
  <1>2. calls' \in 0..MaxCalls /\ entries' \in [Keys -> Entries \union {Missing}]
    BY DEF Advance, IInv, Types
  <1>. QED BY <1>1, <1>2, NoMove

LEMMA FlagsKept == ASSUME Flags, [Next]_vars PROVE Flags'
  <1>1. /\ stop' = stop \/ stop' = TRUE
        /\ stopped' = stopped \/ stopped' = TRUE
    <2>1. CASE UNCHANGED vars
      BY <2>1 DEF vars
    <2>2. ASSUME NEW c \in Callers, Step(c)
          PROVE  (stop' = stop \/ stop' = TRUE) /\ stopped' = stopped
      BY <2>2, Zenon DEF Step, Set, Delete, CallGet, Check, Drop, Compute, CallLen, LenShard,
                  LenReturn, CallSweep, CallClose, CloseReturn
    <2>3. CASE (\E p \in Procs : SweepShard(p)) \/ JanitorSweep \/ JanitorExit \/ Advance
      BY <2>3, Zenon DEF SweepShard, JanitorSweep, JanitorExit, Advance
    <2>. QED BY <2>1, <2>2, <2>3, Zenon DEF Next
  <1>. QED BY <1>1, Zenon DEF Flags

LEMMA InitInv == Init => IInv
  <1>. SUFFICES ASSUME Init PROVE IInv
    OBVIOUS
  <1>1. PICK j \in {"idle", "gone"} :
          proc = [p \in Procs |-> IF p = Janitor THEN [at |-> j] ELSE Idle]
    BY DEF Init
  <1>2. \A p \in Procs : proc[p] \in Locals /\ proc[p].at \in {"idle", "gone"}
    BY <1>1, LocalsHold DEF Idle
  <1>3. proc \in [Procs -> Locals]
    BY <1>1, <1>2
  <1>4. Types
    BY <1>3, KVAssumption DEF Init, Types
  <1>5. Flags
    BY Zenon DEF Init, Flags, At
  <1>6. \A p \in Procs : ~InGet(proc[p]) /\ ~At(p, "len") /\ ~At(p, "sweep")
    BY <1>2 DEF InGet, At
  <1>7. Histories
    BY <1>6, ProcsAre DEF Histories, Init, Seen, Counted, SweepPast
  <1>. QED BY <1>4, <1>5, <1>7 DEF IInv

LEMMA Inductive == Spec => []IInv
  <1>1. ASSUME IInv, [Next]_vars PROVE IInv'
    <2>1. Flags'
      BY <1>1, FlagsKept DEF IInv
    <2>2. CASE UNCHANGED vars
      BY <1>1, <2>1, <2>2 DEF vars, IInv, Types, Histories, Seen, Counted, SweepPast, At, Live, Present
    <2>3. ASSUME History, NEW c \in Callers, Step(c) PROVE Types' /\ Histories'
      BY <1>1, <2>3, WritersKeep, CallGetKeeps, CheckKeeps, DropKeeps, CallLenKeeps,
         LenShardKeeps, EndsKeep DEF Step
    <2>4. ASSUME History, (\E p \in Procs : SweepShard(p)) \/ JanitorSweep \/ JanitorExit \/ Advance
          PROVE Types' /\ Histories'
      BY <1>1, <2>4, SweepShardKeeps, EndsKeep, AdvanceKeeps
    <2>. QED BY <1>1, <2>1, <2>2, <2>3, <2>4 DEF Next, IInv
  <1>. QED BY <1>1, InitInv, PTL DEF Spec

-----------------------------------------------------------------------------
(* The theorems *)

\* Loops over the shards stay within the table, and a Len that counts shard by
\* shard while others store and remove misses no key that was there throughout
\* and counts none that was never there (kv.go:166), for any number of shards.
THEOREM LenIsSound == Spec => []LenSound
  <1>1. ASSUME IInv PROVE TypeOK
    <2>1. Types /\ Flags
      BY <1>1 DEF IInv
    <2>2. /\ now \in 1..MaxTime /\ calls \in 0..MaxCalls
          /\ entries \in [Keys -> Entries \union {Missing}]
          /\ \A p \in Procs : proc[p] \in Locals
      BY <2>1 DEF Types
    <2>. QED BY <2>1, <2>2, Zenon DEF TypeOK, Flags
  <1>2. ASSUME IInv PROVE LenCounts
    <2>. SUFFICES ASSUME NEW c \in Callers, At(c, "len"), proc[c].shard = NumShards
                  PROVE  /\ Cardinality(span[c].all) <= proc[c].n
                         /\ proc[c].n <= Cardinality(span[c].ever)
      BY DEF LenCounts
    <2>1. Counted(c)
      BY <1>2 DEF IInv, Histories
    <2>2. span[c].all \subseteq Keys /\ span[c].ever \subseteq Keys
      BY <2>1 DEF Counted, Present
    <2>3. \A k \in Keys : ShardFor(k) < NumShards
      BY ShardInTable, ShardsPositive
    <2>4. Below(span[c].all, NumShards) = span[c].all /\ Below(span[c].ever, NumShards) = span[c].ever
      BY <2>2, <2>3 DEF Below
    <2>. QED BY <2>1, <2>4 DEF Counted
  <1>. QED BY <1>1, <1>2, Inductive, PTL DEF LenSound

-----------------------------------------------------------------------------
(* The store implements the abstract one: entries expired but not removed are *)
(* absent from the map, so removing one is a stutter, and a Get in progress   *)
(* is an ask.                                                                 *)

\* What the history variable says of every caller.
LEMMA AskIs ==
  ASSUME IInv, NEW c \in Callers
  PROVE  /\ ask[c] = NoAsk <=> ~InGet(proc[c])
         /\ InGet(proc[c]) => /\ ask[c] = [key |-> proc[c].key, seen |-> ask[c].seen]
                              /\ proc[c] \in Gets
                              /\ Live[proc[c].key] \in ask[c].seen
  <1>1. Seen(c)
    BY DEF IInv, Histories
  <1>2. InGet(proc[c]) => proc[c] \in Gets
    BY Kinds, ProcsAre DEF IInv, Types
  <1>3. ASSUME InGet(proc[c]) PROVE ask[c] \in [key : Keys, seen : SUBSET (Entries \union {Missing})]
    <2>1. proc[c].key \in Keys
      BY <1>2, <1>3 DEF Gets
    <2>2. /\ ask[c] = [key |-> proc[c].key, seen |-> ask[c].seen]
          /\ ask[c].seen \in SUBSET (Entries \union {Missing})
      BY <1>1, <1>3 DEF Seen
    <2>. QED BY <2>1, <2>2
  <1>4. InGet(proc[c]) => ask[c] # NoAsk
    BY <1>3, NoneAssumption
  <1>. QED BY <1>1, <1>2, <1>4 DEF Seen

\* Every Get in progress goes on.
SameGets == \A c \in Callers : /\ InGet(proc'[c]) <=> InGet(proc[c])
                               /\ InGet(proc[c]) => proc'[c].key = proc[c].key

\* A step during which Gets go on shows each of them what its key has now.
LEMMA GetsWitness == ASSUME IInv, History, SameGets PROVE Abstract!Witness
  <1>1. ask' = [c \in Callers |-> ask'[c]]
    BY DEF History
  <1>2. ASSUME NEW c \in Callers
        PROVE  ask'[c] = IF ask[c] = NoAsk THEN NoAsk
                         ELSE [ask[c] EXCEPT !.seen = @ \union {Live'[ask[c].key]}]
    <2>1. CASE InGet(proc[c])
      <3>1. ask'[c] = [key |-> proc[c].key, seen |-> {Live'[proc[c].key]} \union ask[c].seen]
        BY <2>1 DEF History, SameGets
      <3>2. ask[c] # NoAsk /\ ask[c] = [key |-> proc[c].key, seen |-> ask[c].seen]
        BY <2>1, AskIs
      <3>3. [ask[c] EXCEPT !.seen = @ \union {Live'[ask[c].key]}]
              = [key |-> proc[c].key, seen |-> ask[c].seen \union {Live'[proc[c].key]}]
        BY <3>2
      <3>4. ask[c].seen \union {Live'[proc[c].key]} = {Live'[proc[c].key]} \union ask[c].seen
        OBVIOUS
      <3>. QED BY <3>1, <3>2, <3>3, <3>4
    <2>2. CASE ~InGet(proc[c])
      BY <2>2, AskIs DEF History, SameGets
    <2>. QED BY <2>1, <2>2
  <1>. QED BY <1>1, <1>2 DEF Abstract!Witness

LEMMA GetsStay == ASSUME IInv, History, SameGets, Live' = Live PROVE ask' = ask
  <1>1. ask' = [c \in Callers |-> ask'[c]] /\ ask = [c \in Callers |-> ask[c]]
    BY DEF History, IInv, Histories
  <1>2. ASSUME NEW c \in Callers PROVE ask'[c] = ask[c]
    <2>1. CASE InGet(proc[c])
      <3>1. ask'[c] = [key |-> proc[c].key, seen |-> {Live[proc[c].key]} \union ask[c].seen]
        BY <2>1 DEF History, SameGets
      <3>2. {Live[proc[c].key]} \union ask[c].seen = ask[c].seen
        BY <2>1, AskIs
      <3>. QED BY <2>1, <3>1, <3>2, AskIs
    <2>2. CASE ~InGet(proc[c])
      BY <2>2, AskIs DEF History, SameGets
    <2>. QED BY <2>1, <2>2
  <1>. QED BY <1>1, <1>2

\* All Gets but c's go on, which ends or has not begun, or begins.
LEMMA OneGetMoves ==
  ASSUME IInv, History, Live' = Live, NEW c \in Callers,
         \A d \in Callers : d # c => proc'[d] = proc[d]
  PROVE  ask' = [ask EXCEPT ![c] = ask'[c]]
  <1>1. ask' = [d \in Callers |-> ask'[d]] /\ ask = [d \in Callers |-> ask[d]]
    BY DEF History, IInv, Histories
  <1>2. ASSUME NEW d \in Callers, d # c PROVE ask'[d] = ask[d]
    <2>1. CASE InGet(proc[d])
      <3>1. ask'[d] = [key |-> proc[d].key, seen |-> {Live[proc[d].key]} \union ask[d].seen]
        BY <1>2, <2>1 DEF History
      <3>2. {Live[proc[d].key]} \union ask[d].seen = ask[d].seen
        BY <2>1, AskIs
      <3>. QED BY <2>1, <3>1, <3>2, AskIs
    <2>2. CASE ~InGet(proc[d])
      BY <1>2, <2>2, AskIs DEF History
    <2>. QED BY <2>1, <2>2
  <1>. QED BY <1>1, <1>2

LEMMA SameExpired == \A e, t : Abstract!Expired(e, t) <=> Expired(e, t)
  BY DEF Abstract!Expired, Expired

LEMMA SameEntry == \A v, ttl, t : Abstract!Entry(v, ttl, t) = Entry(v, ttl, t)
  BY DEF Abstract!Entry, Entry

\* A stored entry is live at once.
LEMMA StoreIsPut ==
  ASSUME IInv, History, SameGets, UNCHANGED now,
         NEW k \in Keys, NEW v \in Vals, NEW ttl \in TTLs, Store(k, v, ttl)
  PROVE  Abstract!Put(k, v, ttl)
  <1>. DEFINE e == Entry(v, ttl, now)
  <1>1. e \in Entries /\ ~Expired(e, now)
    BY EntryType, KVAssumption DEF IInv, Types, Expired, Entry
  <1>2. entries' = [entries EXCEPT ![k] = e]
    BY DEF Store
  <1>. HIDE DEF e
  <1>3. Live' = [Live EXCEPT ![k] = e]
    BY <1>1, <1>2 DEF Live, IInv, Types
  <1>4. event' = [op |-> "Set", key |-> k, val |-> v]
    BY DEF Store
  <1>5. e = Abstract!Entry(v, ttl, now)
    BY SameEntry DEF e
  <1>. QED BY <1>3, <1>4, <1>5, GetsWitness DEF Abstract!Put

\* One goroutine that is outside Get before and after leaves all Gets going on.
LEMMA OutsideGets ==
  ASSUME IInv, NEW p \in Procs, NEW l, proc' = [proc EXCEPT ![p] = l],
         ~InGet(proc[p]), ~InGet(l)
  PROVE  SameGets
  BY ProcsAre DEF SameGets, IInv, Types

LEMMA WritersRefine ==
  ASSUME IInv, History, NEW c \in Callers, Set(c) \/ Delete(c) \/ Compute(c)
  PROVE  [Abstract!Next]_Abstract!storeVars
  <1>1. CASE Set(c)
    <2>1. SameGets /\ UNCHANGED now
      BY <1>1 DEF Set, SameGets
    <2>2. PICK k \in Keys, v \in Vals, ttl \in TTLs : Store(k, v, ttl)
      BY <1>1 DEF Set
    <2>3. Abstract!Put(k, v, ttl)
      BY <2>1, <2>2, StoreIsPut
    <2>. QED BY <2>3 DEF Abstract!Next
  <1>2. CASE Delete(c)
    <2>1. SameGets /\ UNCHANGED now
      BY <1>2 DEF Delete, SameGets
    <2>2. PICK k \in Keys : entries' = [entries EXCEPT ![k] = Missing] /\ event' = [op |-> "Delete", key |-> k]
      BY <1>2 DEF Delete
    <2>3. Live' = [Live EXCEPT ![k] = Missing]
      BY <2>1, <2>2 DEF Live, IInv, Types
    <2>4. Abstract!Remove(k)
      BY <2>1, <2>2, <2>3, GetsWitness DEF Abstract!Remove
    <2>. QED BY <2>4 DEF Abstract!Next
  <1>3. CASE Compute(c)
    <2>1. proc[c].at = "compute" /\ proc' = [proc EXCEPT ![c] = Idle] /\ UNCHANGED now
      BY <1>3 DEF Compute, At
    <2>2. SameGets
      BY <2>1, OutsideGets, ProcsAre DEF InGet, Idle
    <2>3. proc[c] \in Computes
      BY <2>1, Kinds, ProcsAre DEF IInv, Types
    <2>4. CASE UNCHANGED <<entries, event>>
      <3>1. Live' = Live
        BY <2>1, <2>4 DEF Live
      <3>. QED BY <2>1, <2>2, <2>4, <3>1, GetsStay DEF Abstract!storeVars
    <2>5. CASE \E v \in Vals : Store(proc[c].key, v, proc[c].fill)
      <3>1. PICK v \in Vals : Store(proc[c].key, v, proc[c].fill)
        BY <2>5
      <3>2. proc[c].key \in Keys /\ proc[c].fill \in TTLs
        BY <2>3 DEF Computes
      <3>3. Abstract!Put(proc[c].key, v, proc[c].fill)
        BY <2>1, <2>2, <3>1, <3>2, StoreIsPut
      <3>. QED BY <3>2, <3>3 DEF Abstract!Next
    <2>. QED BY <1>3, <2>4, <2>5 DEF Compute
  <1>. QED BY <1>1, <1>2, <1>3

\* A Get of a missing key is answered at once; another one begins to ask.
LEMMA CallGetRefines ==
  ASSUME IInv, History, NEW c \in Callers, CallGet(c)
  PROVE  [Abstract!Next]_Abstract!storeVars
  <1>1. UNCHANGED <<now, entries>> /\ proc[c].at = "idle" /\ c \in Procs
    BY BeginCalls, ProcsAre DEF CallGet
  <1>2. Live' = Live
    BY <1>1 DEF Live
  <1>3. ask[c] = NoAsk
    BY <1>1, AskIs DEF InGet
  <1>4. PICK k \in Keys, fill \in TTLs \union {NoAsk} :
          \/ entries[k] = Missing /\ Answered(c, k, fill, Missing)
          \/ /\ entries[k] # Missing
             /\ proc' = [proc EXCEPT ![c] =
                  [at |-> "check", key |-> k, copy |-> entries[k], fill |-> fill]]
             /\ UNCHANGED event
    BY DEF CallGet
  <1>5. CASE entries[k] = Missing /\ Answered(c, k, fill, Missing)
    <2>. DEFINE l == AfterGet(k, fill, Missing)
    <2>1. proc' = [proc EXCEPT ![c] = l] /\ l.at \in {"idle", "compute"}
      BY <1>5, AfterGetQuiet DEF Answered
    <2>. HIDE DEF l
    <2>2. ask' = ask
      BY <1>1, <1>2, <2>1, OutsideGets, GetsStay DEF InGet
    <2>3. event' = [op |-> "Get", by |-> c, key |-> k, val |-> Missing]
      BY <1>5 DEF Answered
    <2>4. Live[k] = Missing
      BY <1>5 DEF Live
    <2>5. Abstract!Ask(c, k)
      BY <1>1, <1>2, <1>3, <2>2, <2>3, <2>4 DEF Abstract!Ask
    <2>. QED BY <2>5 DEF Abstract!Next
  <1>6. CASE /\ entries[k] # Missing
             /\ proc' = [proc EXCEPT ![c] =
                  [at |-> "check", key |-> k, copy |-> entries[k], fill |-> fill]]
             /\ UNCHANGED event
    <2>1. /\ proc'[c] = [at |-> "check", key |-> k, copy |-> entries[k], fill |-> fill]
          /\ \A d \in Callers : d # c => proc'[d] = proc[d]
      BY <1>1, <1>6, ProcsAre DEF IInv, Types
    <2>2. ~InGet(proc[c]) /\ InGet(proc'[c]) /\ proc'[c].key = k
      BY <1>1, <2>1 DEF InGet
    <2>3. ask'[c] = [key |-> k, seen |-> {Live[k]}]
      BY <1>2, <2>2 DEF History
    <2>4. ask' = [ask EXCEPT ![c] = [key |-> k, seen |-> {Live[k]}]]
      BY <1>2, <2>1, <2>3, OneGetMoves
    <2>5. Abstract!Ask(c, k)
      BY <1>1, <1>2, <1>3, <1>6, <2>4 DEF Abstract!Ask
    <2>. QED BY <2>5 DEF Abstract!Next
  <1>. QED BY <1>4, <1>5, <1>6

\* An answered Get.
LEMMA AnsweredRefines ==
  ASSUME IInv, History, NEW c \in Callers, NEW r \in Vals \union {Missing},
         InGet(proc[c]), Answered(c, proc[c].key, proc[c].fill, r),
         UNCHANGED now, Live' = Live, Abstract!MayAnswer(c, r)
  PROVE  [Abstract!Next]_Abstract!storeVars
  <1>1. ask[c] # NoAsk /\ ask[c].key = proc[c].key /\ proc[c] \in Gets
    <2>1. /\ ask[c] # NoAsk /\ proc[c] \in Gets
          /\ ask[c] = [key |-> proc[c].key, seen |-> ask[c].seen]
      BY AskIs
    <2>2. \A k, s : [key |-> k, seen |-> s].key = k
      OBVIOUS
    <2>. QED BY <2>1, <2>2
  <1>. DEFINE l == AfterGet(proc[c].key, proc[c].fill, r)
  <1>2. proc' = [proc EXCEPT ![c] = l] /\ l.at \in {"idle", "compute"}
    BY <1>1, AfterGetQuiet DEF Answered, Gets
  <1>. HIDE DEF l
  <1>3. proc'[c] = l /\ \A d \in Callers : d # c => proc'[d] = proc[d]
    BY <1>2, ProcsAre DEF IInv, Types
  <1>4. ask'[c] = NoAsk
    BY <1>2, <1>3 DEF History, InGet
  <1>5. ask' = [ask EXCEPT ![c] = NoAsk]
    BY <1>3, <1>4, OneGetMoves
  <1>6. event' = [op |-> "Get", by |-> c, key |-> ask[c].key, val |-> r]
    BY <1>1 DEF Answered
  <1>7. Abstract!Answer(c, r)
    BY <1>1, <1>5, <1>6 DEF Abstract!Answer
  <1>. QED BY <1>7 DEF Abstract!Next

LEMMA CheckRefines ==
  ASSUME IInv, History, NEW c \in Callers, Check(c)
  PROVE  [Abstract!Next]_Abstract!storeVars
  <1>1. UNCHANGED <<now, entries>> /\ proc[c].at = "check" /\ c \in Procs
    BY ProcsAre DEF Check, At
  <1>2. Live' = Live
    BY <1>1 DEF Live
  <1>3. InGet(proc[c]) /\ proc[c] \in Gets
    BY <1>1, Kinds DEF InGet, IInv, Types
  <1>4. CASE Expired(proc[c].copy, now)
    <2>. DEFINE l == [proc[c] EXCEPT !.at = "drop"]
    <2>1. l.at = "drop" /\ l.key = proc[c].key
      BY <1>3 DEF Gets
    <2>2. proc' = [proc EXCEPT ![c] = l] /\ UNCHANGED event
      BY <1>4 DEF Check
    <2>. HIDE DEF l
    <2>3. SameGets
      BY <1>1, <1>3, <2>1, <2>2, ProcsAre DEF SameGets, InGet, IInv, Types
    <2>. QED BY <1>1, <1>2, <2>2, <2>3, GetsStay DEF Abstract!storeVars
  <1>5. CASE ~Expired(proc[c].copy, now)
    <2>. DEFINE r == proc[c].copy.value
    <2>1. Answered(c, proc[c].key, proc[c].fill, r)
      BY <1>5 DEF Check
    <2>2. proc[c].copy \in Entries /\ r \in Vals
      BY <1>3 DEF Gets, Entries
    <2>3. proc[c].copy \in ask[c].seen \ {Missing}
      BY <1>3, <1>5, <2>2, NoneAssumption DEF IInv, Histories, Seen
    <2>4. Abstract!MayAnswer(c, r)
      BY <2>3 DEF Abstract!MayAnswer
    <2>. HIDE DEF r
    <2>. QED BY <1>1, <1>2, <1>3, <2>1, <2>2, <2>4, AnsweredRefines
  <1>. QED BY <1>4, <1>5

\* Drop removes an entry only if it is as expired as the copy was.
LEMMA DropRefines ==
  ASSUME IInv, History, NEW c \in Callers, Drop(c)
  PROVE  [Abstract!Next]_Abstract!storeVars
  <1>. DEFINE k == proc[c].key
              e == proc[c].copy
  <1>1. UNCHANGED now /\ proc[c].at = "drop" /\ Answered(c, k, proc[c].fill, Missing)
    BY DEF Drop, At
  <1>2. InGet(proc[c]) /\ proc[c] \in Gets /\ k \in Keys /\ e \in Entries
    BY <1>1, AskIs DEF InGet, Gets
  <1>3. Expired(e, now) /\ (e \in ask[c].seen \/ Missing \in ask[c].seen)
    BY <1>1, <1>2 DEF IInv, Histories, Seen
  <1>4. Live' = Live
    <2>1. CASE entries' = entries
      BY <1>1, <2>1 DEF Live
    <2>2. CASE /\ entries[k] # Missing /\ entries[k].expiresAt = e.expiresAt
               /\ entries' = [entries EXCEPT ![k] = Missing]
      <3>1. Expired(entries[k], now)
        BY <1>3, <2>2 DEF Expired
      <3>. HIDE DEF k, e
      <3>. QED BY <1>1, <1>2, <2>2, <3>1 DEF Live, IInv, Types
    <2>. QED BY <2>1, <2>2 DEF Drop
  <1>5. Abstract!MayAnswer(c, Missing)
    BY <1>3, SameExpired DEF Abstract!MayAnswer
  <1>. QED BY <1>1, <1>2, <1>4, <1>5, AnsweredRefines

\* Len, Close and the janitor do not touch the entries; a sweep removes only what
\* is expired.
LEMMA HousekeepingStutters ==
  ASSUME IInv, History,
         \/ \E c \in Callers : CallLen(c) \/ LenShard(c) \/ LenReturn(c) \/ CallClose(c)
                                \/ CloseReturn(c) \/ CallSweep(c)
         \/ \E p \in Procs : SweepShard(p)
         \/ JanitorSweep \/ JanitorExit
  PROVE  UNCHANGED Abstract!storeVars
  <1>. USE ProcsAre
  <1>1. UNCHANGED <<now, event>>
    BY DEF CallLen, LenShard, LenReturn, CallClose, CloseReturn, CallSweep, SweepShard,
           JanitorSweep, JanitorExit
  <1>2. Live' = Live
    <2>1. CASE UNCHANGED entries
      BY <1>1, <2>1 DEF Live
    <2>2. ASSUME NEW p \in Procs, SweepShard(p) PROVE Live' = Live
      <3>1. proc[p].at = "sweep" /\ proc[p] \in Sweeps /\ proc[p].now <= now
        BY <2>2, Kinds DEF SweepShard, At, IInv, Types, Histories, SweepPast
      <3>2. ASSUME NEW k \in Keys, entries'[k] # entries[k]
            PROVE  /\ entries[k] # Missing /\ Expired(entries[k], now)
                   /\ entries'[k] = Missing
        <4>1. /\ entries[k] # Missing /\ Expired(entries[k], proc[p].now)
              /\ entries'[k] = Missing
          BY <2>2, <3>2 DEF SweepShard, Held
        <4>2. entries[k] \in Entries /\ proc[p].now \in Nat /\ now \in Nat
          BY <3>1, <4>1 DEF IInv, Types, Sweeps
        <4>. QED BY <3>1, <4>1, <4>2, ExpiredStays
      <3>3. ASSUME NEW k \in Keys PROVE Live'[k] = Live[k]
        BY <1>1, <3>2 DEF Live
      <3>. QED BY <3>3 DEF Live
    <2>. QED BY <2>1, <2>2 DEF CallLen, LenShard, LenReturn, CallClose, CloseReturn, CallSweep,
                               JanitorSweep, JanitorExit
  <1>3. SameGets
    <2>1. ASSUME NEW p \in Procs, NEW l, proc' = [proc EXCEPT ![p] = l],
                 proc[p].at \in {"idle", "len", "closing", "sweep"},
                 l.at \in {"idle", "len", "closing", "sweep", "gone"}
          PROVE  SameGets
      BY <2>1, OutsideGets DEF InGet
    <2>2. ASSUME NEW c \in Callers, CallLen(c) \/ LenReturn(c) \/ CallClose(c) \/ CloseReturn(c) \/ CallSweep(c)
          PROVE  SameGets
      BY <2>1, <2>2 DEF CallLen, LenReturn, CallClose, CloseReturn, CallSweep, SweepFrom, Begin, At, Idle
    <2>3. ASSUME NEW c \in Callers, LenShard(c) PROVE SameGets
      <3>1. proc[c].at = "len" /\ proc[c] \in Lens
        BY <2>3, Kinds DEF LenShard, At, IInv, Types
      <3>. DEFINE l == [proc[c] EXCEPT !.shard = proc[c].shard + 1,
                                       !.n = proc[c].n + Cardinality(Held(proc[c].shard))]
      <3>2. proc' = [proc EXCEPT ![c] = l] /\ l.at = "len"
        BY <2>3, <3>1 DEF LenShard, Lens
      <3>. HIDE DEF l
      <3>. QED BY <2>1, <3>1, <3>2
    <2>4. ASSUME NEW p \in Procs, SweepShard(p) PROVE SameGets
      <3>1. proc[p].at = "sweep" /\ proc[p] \in Sweeps
        BY <2>4, Kinds DEF SweepShard, At, IInv, Types
      <3>. DEFINE l == IF proc[p].shard + 1 = NumShards THEN Idle
                       ELSE [proc[p] EXCEPT !.shard = proc[p].shard + 1]
      <3>2. proc' = [proc EXCEPT ![p] = l] /\ l.at \in {"idle", "sweep"}
        BY <2>4, <3>1 DEF SweepShard, Sweeps, Idle
      <3>. HIDE DEF l
      <3>. QED BY <2>1, <3>1, <3>2
    <2>5. CASE JanitorSweep \/ JanitorExit
      BY <2>1, <2>5 DEF JanitorSweep, JanitorExit, SweepFrom, At
    <2>. QED BY <2>2, <2>3, <2>4, <2>5
  <1>. QED BY <1>1, <1>2, <1>3, GetsStay DEF Abstract!storeVars

LEMMA AdvanceIsPass ==
  ASSUME IInv, History, Advance
  PROVE  Abstract!Pass
  <1>1. now' = now + 1 /\ UNCHANGED <<entries, event, proc>>
    BY DEF Advance
  <1>2. ASSUME NEW k \in Keys
        PROVE  Live'[k] = IF Live[k] # Missing /\ Expired(Live[k], now') THEN Missing ELSE Live[k]
    <2>1. CASE entries[k] = Missing
      BY <1>1, <2>1 DEF Live
    <2>2. CASE entries[k] # Missing
      <3>1. entries[k] \in Entries /\ now \in Nat /\ now' \in Nat /\ now <= now'
        BY <1>1, <2>2 DEF IInv, Types
      <3>2. Expired(entries[k], now) => Expired(entries[k], now')
        BY <3>1, ExpiredStays
      <3>. QED BY <1>1, <2>2, <3>2 DEF Live
    <2>. QED BY <2>1, <2>2
  <1>3. Live' = [k \in Keys |-> IF Live[k] # Missing /\ Abstract!Expired(Live[k], now')
                                THEN Missing ELSE Live[k]]
    <2>1. Live' = [k \in Keys |-> Live'[k]]
      BY DEF Live
    <2>. QED BY <1>2, <2>1, SameExpired
  <1>4. SameGets
    BY <1>1 DEF SameGets
  <1>. QED BY <1>1, <1>3, <1>4, GetsWitness DEF Abstract!Pass

\* The store implements what kv.Store promises, for any number of shards, callers
\* and lifetimes: lazy removal in Get and Sweep never changes what callers can
\* see, also when a Set comes between Get's look and its removal, and every
\* answer of Get was right at some moment of the call.
THEOREM MemoryImplementsStore == Spec => ImplementsStore
  <1>1. Init => Abstract!Init
    BY DEF Init, Abstract!Init, Live
  <1>2. ASSUME IInv, [Next]_vars PROVE [Abstract!Next]_Abstract!storeVars
    <2>1. CASE UNCHANGED vars
      BY <2>1 DEF vars, Live, Abstract!storeVars
    <2>2. ASSUME History, NEW c \in Callers, Step(c) PROVE [Abstract!Next]_Abstract!storeVars
      BY <1>2, <2>2, WritersRefine, CallGetRefines, CheckRefines, DropRefines,
         HousekeepingStutters DEF Step
    <2>3. ASSUME History, (\E p \in Procs : SweepShard(p)) \/ JanitorSweep \/ JanitorExit
          PROVE  [Abstract!Next]_Abstract!storeVars
      BY <1>2, <2>3, HousekeepingStutters
    <2>4. ASSUME History, Advance PROVE [Abstract!Next]_Abstract!storeVars
      BY <1>2, <2>4, AdvanceIsPass DEF Abstract!Next
    <2>. QED BY <1>2, <2>1, <2>2, <2>3, <2>4 DEF Next
  <1>. QED BY <1>1, <1>2, Inductive, PTL DEF Spec, ImplementsStore, Abstract!Spec

=============================================================================
