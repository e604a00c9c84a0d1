------------------------------ MODULE KVStore ------------------------------
(* What kv.Store promises, with no shards, no locks and no clean-up: a map   *)
(* from keys to entries that vanish when their time comes.  A Get may take a *)
(* while; its answer has to be right at some moment between its call and its *)
(* return.  event is the last operation a caller can see.                    *)
EXTENDS Integers

CONSTANTS Keys, Vals, Callers, TTLs, Missing, NoAsk

VARIABLES now,    \* the clock
          map,    \* key -> live entry, or Missing
          ask,    \* caller -> the key it asks for and what that key has held since
          event   \* the last completed operation

storeVars == <<now, map, ask, event>>

\* An entry is expired from the instant expiresAt on; expiresAt 0 is the zero
\* time, no expiration.
Expired(e, t) == e.expiresAt # 0 /\ t >= e.expiresAt

\* What Set and SetWithTTL store at time t: ttl 0 is no expiration.
Entry(v, ttl, t) == [value |-> v, expiresAt |-> IF ttl = 0 THEN 0 ELSE t + ttl]

\* Every call of Get in progress sees the entry its key has now.
Witness == ask' = [c \in Callers |->
             IF ask[c] = NoAsk THEN NoAsk
             ELSE [ask[c] EXCEPT !.seen = @ \union {map'[ask[c].key]}]]

Init == /\ now = 1
        /\ map = [k \in Keys |-> Missing]
        /\ ask = [c \in Callers |-> NoAsk]
        /\ event = [op |-> "New"]

Put(k, v, ttl) == /\ map' = [map EXCEPT ![k] = Entry(v, ttl, now)]
                  /\ event' = [op |-> "Set", key |-> k, val |-> v]
                  /\ Witness
                  /\ UNCHANGED now

Remove(k) == /\ map' = [map EXCEPT ![k] = Missing]
             /\ event' = [op |-> "Delete", key |-> k]
             /\ Witness
             /\ UNCHANGED now

\* A Get of a key that is absent is answered at once; otherwise it takes time.
Ask(c, k) == /\ ask[c] = NoAsk
             /\ \/ /\ map[k] = Missing
                   /\ event' = [op |-> "Get", by |-> c, key |-> k, val |-> Missing]
                   /\ UNCHANGED ask
                \/ /\ ask' = [ask EXCEPT ![c] = [key |-> k, seen |-> {map[k]}]]
                   /\ UNCHANGED event
             /\ UNCHANGED <<now, map>>

\* A hit is a value the key has held since the call.  A miss needs a moment at
\* which the key was absent, or an entry of that time that is expired by now,
\* even if it was replaced before.
MayAnswer(c, r) ==
  \/ \E e \in ask[c].seen \ {Missing} : r = e.value
  \/ r = Missing /\ \E e \in ask[c].seen : e = Missing \/ Expired(e, now)

Answer(c, r) == /\ ask[c] # NoAsk
                /\ MayAnswer(c, r)
                /\ event' = [op |-> "Get", by |-> c, key |-> ask[c].key, val |-> r]
                /\ ask' = [ask EXCEPT ![c] = NoAsk]
                /\ UNCHANGED <<now, map>>

Pass == /\ now' = now + 1
        /\ map' = [k \in Keys |-> IF map[k] # Missing /\ Expired(map[k], now')
                                  THEN Missing ELSE map[k]]
        /\ Witness
        /\ UNCHANGED event

Next == \/ Pass
        \/ \E k \in Keys : \/ Remove(k)
                           \/ \E v \in Vals, ttl \in TTLs : Put(k, v, ttl)
        \/ \E c \in Callers : \/ \E k \in Keys : Ask(c, k)
                              \/ \E r \in Vals \union {Missing} : Answer(c, r)

Spec == Init /\ [][Next]_storeVars
=============================================================================
