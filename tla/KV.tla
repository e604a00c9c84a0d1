--------------------------------- MODULE KV ---------------------------------
(* internal/kv: the sharded in-memory store with expiry.  Every critical     *)
(* section is one step; Get, GetOrSet, Sweep and Len are cut where the shard *)
(* lock is free.  The clock never goes back (Go's times are monotonic).      *)
EXTENDS Integers, FiniteSets

CONSTANTS Keys, Vals,
          Callers,         \* goroutines that use the store
          Janitor,         \* the goroutine NewMemory starts
          Missing, NoAsk,
          Hash,            \* key -> its fnv hash
          Shards,          \* Config.Shards
          TTLs,            \* lifetimes callers ask for, 0 for none
          MaxTime,         \* bound of the clock
          MaxCalls         \* bound of the calls made

ASSUME KVAssumption == /\ Hash \in [Keys -> Nat]
                       /\ Shards \in Int /\ MaxTime \in Nat \ {0} /\ MaxCalls \in Nat
                       /\ TTLs \subseteq Nat /\ IsFiniteSet(Keys)
                       /\ Missing \notin Vals /\ Janitor \notin Callers

VARIABLES now,      \* clock.Now()
          entries,  \* key -> entry, or Missing
          proc,     \* goroutine -> where it is in its call, and its locals
          stop,     \* m.stop is closed
          stopped,  \* m.stopped is closed
          calls,    \* calls made so far
          event,    \* the last completed operation, as callers see it
          ask,      \* history of the Gets in progress
          span      \* history of the Lens in progress

vars == <<now, entries, proc, stop, stopped, calls, event, ask, span>>

Procs == Callers \union {Janitor}

\* 1 doubled until it is at least n, for n > 0.
NextPow2(n) == LET doubled[p \in 1..(2 * n)] == IF p < n THEN doubled[2 * p] ELSE p
               IN doubled[1]

NumShards == NextPow2(IF Shards <= 0 THEN 16 ELSE Shards)

\* hash & mask, for a number of shards that is a power of 2.
ShardFor(k) == Hash[k] % NumShards

Expired(e, t) == e.expiresAt # 0 /\ t >= e.expiresAt

Entry(v, ttl, t) == [value |-> v, expiresAt |-> IF ttl = 0 THEN 0 ELSE t + ttl]

\* The store as callers know it: what is expired but not yet removed is absent.
Live == [k \in Keys |-> IF entries[k] # Missing /\ Expired(entries[k], now)
                        THEN Missing ELSE entries[k]]

Idle == [at |-> "idle"]
At(p, l) == proc[p].at = l

-----------------------------------------------------------------------------
\* NewMemory: with JanitorInterval > 0 the janitor runs, otherwise stopped is
\* closed at once.
Init == /\ now = 1
        /\ entries = [k \in Keys |-> Missing]
        /\ \E j \in {"idle", "gone"} :
             proc = [p \in Procs |-> IF p = Janitor THEN [at |-> j] ELSE Idle]
        /\ stop = FALSE
        /\ stopped = At(Janitor, "gone")
        /\ calls = 0
        /\ event = [op |-> "New"]
        /\ ask = [c \in Callers |-> NoAsk]
        /\ span = [c \in Callers |-> NoAsk]

\* A caller makes its next call.
Begin(c) == At(c, "idle") /\ calls < MaxCalls /\ calls' = calls + 1

\* The entry is stored under the shard's lock, with the time read there.
Store(k, v, ttl) == /\ entries' = [entries EXCEPT ![k] = Entry(v, ttl, now)]
                    /\ event' = [op |-> "Set", key |-> k, val |-> v]

\* Set, and SetWithTTL, which is Set when ttl is 0.
Set(c) == /\ Begin(c)
          /\ \E k \in Keys, v \in Vals, ttl \in TTLs : Store(k, v, ttl)
          /\ UNCHANGED <<now, proc, stop, stopped>>

Delete(c) == /\ Begin(c)
             /\ \E k \in Keys :
                  /\ entries' = [entries EXCEPT ![k] = Missing]
                  /\ event' = [op |-> "Delete", key |-> k]
             /\ UNCHANGED <<now, proc, stop, stopped>>

\* Where a Get with the answer r leaves its caller: GetOrSet, whose ttl is
\* fill, goes on to compute when it missed.
AfterGet(k, fill, r) == IF fill = NoAsk \/ r # Missing THEN Idle
                        ELSE [at |-> "compute", key |-> k, fill |-> fill]

\* The answer r of c's Get.
Answered(c, k, fill, r) ==
  /\ proc' = [proc EXCEPT ![c] = AfterGet(k, fill, r)]
  /\ event' = [op |-> "Get", by |-> c, key |-> k, val |-> r]

\* Get, and the Get at the start of GetOrSet: the entry is copied under the
\* read lock, and a missing one answers at once.
CallGet(c) == /\ Begin(c)
              /\ \E k \in Keys, fill \in TTLs \union {NoAsk} :
                   IF entries[k] = Missing
                   THEN Answered(c, k, fill, Missing)
                   ELSE /\ proc' = [proc EXCEPT ![c] =
                             [at |-> "check", key |-> k, copy |-> entries[k], fill |-> fill]]
                        /\ UNCHANGED event
              /\ UNCHANGED <<now, entries, stop, stopped>>

\* The copy is held against the clock, with no lock held.
Check(c) == /\ At(c, "check")
            /\ IF Expired(proc[c].copy, now)
               THEN /\ proc' = [proc EXCEPT ![c].at = "drop"]
                    /\ UNCHANGED event
               ELSE Answered(c, proc[c].key, proc[c].fill, proc[c].copy.value)
            /\ UNCHANGED <<now, entries, stop, stopped, calls>>

\* Mutant: the entry is dropped without another look at it.
DropUnchecked(c) == /\ At(c, "drop")
                    /\ entries' = [entries EXCEPT ![proc[c].key] = Missing]
                    /\ Answered(c, proc[c].key, proc[c].fill, Missing)
                    /\ UNCHANGED <<now, stop, stopped, calls>>

\* The expired entry is dropped under the lock, unless the key's entry has
\* another expiry by now.
Drop(c) ==
  /\ At(c, "drop")
  /\ LET k == proc[c].key
         same == entries[k] # Missing /\ entries[k].expiresAt = proc[c].copy.expiresAt
     IN entries' = IF same THEN [entries EXCEPT ![k] = Missing] ELSE entries
  /\ Answered(c, proc[c].key, proc[c].fill, Missing)
  /\ UNCHANGED <<now, stop, stopped, calls>>

\* GetOrSet after a miss: compute fails, or its value is stored, whatever has
\* been stored meanwhile.
Compute(c) == /\ At(c, "compute")
              /\ proc' = [proc EXCEPT ![c] = Idle]
              /\ \/ UNCHANGED <<entries, event>>
                 \/ \E v \in Vals : Store(proc[c].key, v, proc[c].fill)
              /\ UNCHANGED <<now, stop, stopped, calls>>

\* Len counts one shard after the other, each under its own read lock.
CallLen(c) == /\ Begin(c)
              /\ proc' = [proc EXCEPT ![c] = [at |-> "len", shard |-> 0, n |-> 0]]
              /\ UNCHANGED <<now, entries, stop, stopped, event>>

Held(s) == {k \in Keys : entries[k] # Missing /\ ShardFor(k) = s}

\* Mutant: the last shard is left out.
LenShardShort(c) ==
  /\ At(c, "len") /\ proc[c].shard < NumShards
  /\ proc' = [proc EXCEPT ![c].shard = @ + 1,
                          ![c].n = @ + IF proc[c].shard + 1 = NumShards THEN 0
                                       ELSE Cardinality(Held(proc[c].shard))]
  /\ UNCHANGED <<now, entries, stop, stopped, calls, event>>

LenShard(c) ==
  /\ At(c, "len") /\ proc[c].shard < NumShards
  /\ proc' = [proc EXCEPT ![c].shard = @ + 1,
                          ![c].n = @ + Cardinality(Held(proc[c].shard))]
  /\ UNCHANGED <<now, entries, stop, stopped, calls, event>>

LenReturn(c) == /\ At(c, "len") /\ proc[c].shard = NumShards
                /\ proc' = [proc EXCEPT ![c] = Idle]
                /\ UNCHANGED <<now, entries, stop, stopped, calls, event>>

\* Sweep reads the clock once, then takes the shards in turn.
SweepFrom(p) == proc' = [proc EXCEPT ![p] = [at |-> "sweep", now |-> now, shard |-> 0]]

CallSweep(c) == /\ Begin(c)
                /\ SweepFrom(c)
                /\ UNCHANGED <<now, entries, stop, stopped, event>>

\* Mutant: the sweep ends before the last shard.
SweepShardShort(p) ==
  /\ At(p, "sweep")
  /\ entries' = [k \in Keys |-> IF k \in Held(proc[p].shard) /\ Expired(entries[k], proc[p].now)
                               THEN Missing ELSE entries[k]]
  /\ proc' = [proc EXCEPT ![p] = Idle]
  /\ UNCHANGED <<now, stop, stopped, calls, event>>

\* One shard loses what was expired when the sweep began.
SweepShard(p) ==
  /\ At(p, "sweep")
  /\ entries' = [k \in Keys |-> IF k \in Held(proc[p].shard) /\ Expired(entries[k], proc[p].now)
                               THEN Missing ELSE entries[k]]
  /\ proc' = [proc EXCEPT ![p] = IF @.shard + 1 = NumShards THEN Idle
                                 ELSE [@ EXCEPT !.shard = proc[p].shard + 1]]
  /\ UNCHANGED <<now, stop, stopped, calls, event>>

-----------------------------------------------------------------------------
\* runJanitor's select: a tick of its ticker may be there at any time, and with
\* stop closed as well it takes either.
JanitorSweep == /\ At(Janitor, "idle")
                /\ SweepFrom(Janitor)
                /\ UNCHANGED <<now, entries, stop, stopped, calls, event>>

JanitorExit == /\ At(Janitor, "idle") /\ stop
               /\ proc' = [proc EXCEPT ![Janitor] = [at |-> "gone"]]
               /\ stopped' = TRUE
               /\ UNCHANGED <<now, entries, stop, calls, event>>

\* Close closes stop, the first time, and waits for stopped.
CallClose(c) == /\ Begin(c)
                /\ stop' = TRUE
                /\ proc' = [proc EXCEPT ![c] = [at |-> "closing"]]
                /\ UNCHANGED <<now, entries, stopped, event>>

CloseReturn(c) == /\ At(c, "closing") /\ stopped
                  /\ proc' = [proc EXCEPT ![c] = Idle]
                  /\ UNCHANGED <<now, entries, stop, stopped, calls, event>>

Advance == /\ now < MaxTime /\ now' = now + 1
           /\ UNCHANGED <<entries, proc, stop, stopped, calls, event>>

-----------------------------------------------------------------------------
(* History.  ask: for a Get in progress, its key and the entries that key   *)
(* has shown since the call.  span: for a Len in progress, the keys present *)
(* throughout and at some time since the call.                              *)
InGet(p) == p.at \in {"check", "drop"}
Present == {k \in Keys : entries[k] # Missing}

History ==
  /\ ask' = [c \in Callers |->
       IF ~InGet(proc'[c]) THEN NoAsk
       ELSE [key |-> proc'[c].key,
             seen |-> {Live'[proc'[c].key]} \union IF InGet(proc[c]) THEN ask[c].seen ELSE {}]]
  /\ span' = [c \in Callers |->
       CASE proc'[c].at # "len" -> NoAsk
         [] proc[c].at # "len" -> [all |-> Present', ever |-> Present']
         [] OTHER -> [all |-> span[c].all \intersect Present',
                      ever |-> span[c].ever \union Present']]

Step(c) == \/ Set(c) \/ Delete(c)
           \/ CallGet(c) \/ Check(c) \/ Drop(c) \/ Compute(c)
           \/ CallLen(c) \/ LenShard(c) \/ LenReturn(c)
           \/ CallSweep(c) \/ CallClose(c) \/ CloseReturn(c)

Next == /\ \/ \E c \in Callers : Step(c)
           \/ \E p \in Procs : SweepShard(p)
           \/ JanitorSweep \/ JanitorExit
           \/ Advance
        /\ History

\* Started calls go on and the ticker ticks.  The select of the janitor picks
\* among ready cases at random, so a stop is not passed over for ever.
Continue(c) == \/ Check(c) \/ Drop(c) \/ Compute(c) \/ LenShard(c) \/ LenReturn(c)
               \/ SweepShard(c) \/ CloseReturn(c)

Fairness == /\ \A c \in Callers : WF_vars(Continue(c) /\ History)
            /\ WF_vars((JanitorSweep \/ SweepShard(Janitor)) /\ History)
            /\ SF_vars(JanitorExit /\ History)

Spec == Init /\ [][Next]_vars /\ Fairness

-----------------------------------------------------------------------------
Entries == [value : Vals, expiresAt : Nat \ {1}]

\* The two constants are told apart from what they stand beside.
ASSUME NoneAssumption == /\ NoAsk \notin [key : Keys, seen : SUBSET (Entries \union {Missing})]
                         /\ Missing \notin Entries

Locals == {Idle, [at |-> "closing"], [at |-> "gone"]}
          \union [at : {"check", "drop"}, key : Keys, copy : Entries, fill : TTLs \union {NoAsk}]
          \union [at : {"compute"}, key : Keys, fill : TTLs]
          \union [at : {"len"}, shard : 0..NumShards, n : 0..Cardinality(Keys)]
          \union [at : {"sweep"}, now : 1..MaxTime, shard : 0..(NumShards - 1)]

\* Types: no loop over the shards leaves the table, and Len never counts more
\* than there are keys.
TypeOK == /\ now \in 1..MaxTime
          /\ entries \in [Keys -> Entries \union {Missing}]
          /\ \A p \in Procs : proc[p] \in Locals
          /\ stop \in BOOLEAN /\ stopped \in BOOLEAN
          /\ calls \in 0..MaxCalls

\* A Len that counts shard by shard while others store and remove misses no key
\* that was there throughout and counts none that was never there (kv.go:166).
LenCounts == \A c \in Callers :
  At(c, "len") /\ proc[c].shard = NumShards =>
    /\ Cardinality(span[c].all) <= proc[c].n
    /\ proc[c].n <= Cardinality(span[c].ever)

\* The abstract store: expired entries are absent from it.
Abstract == INSTANCE KVStore WITH map <- Live

\* Memory implements the interface's promise: removing expired entries lazily,
\* in Get (kv.go:126) and in Sweep (kv.go:184), never changes what callers can
\* see, not even when a Set comes between Get's look and its removal, and every
\* answer of Get was right at some moment of the call.
ImplementsStore == Abstract!Spec

\* With a janitor that is not stopped an expired entry is removed or replaced
\* (kv.go:220).
ExpiredGoes == \A k \in Keys :
  (entries[k] # Live[k] /\ ~At(Janitor, "gone") /\ ~stop) ~> (stop \/ entries[k] = Live[k])

\* Close returns, with and without a janitor, from any number of callers
\* (kv.go:107).
CloseReturns == \A c \in Callers : At(c, "closing") ~> ~At(c, "closing")

\* Loops over the shards stay within the table (types), and a Len during other
\* calls counts what was there (kv.go:166).
LenSound == TypeOK /\ LenCounts

\* The janitor removes what is expired while it runs (kv.go:220), and Close ends
\* it (kv.go:107).
JanitorServes == ExpiredGoes /\ CloseReturns

=============================================================================
