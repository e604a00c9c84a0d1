----------------------------- MODULE Semaphore ------------------------------
(***************************************************************************)
(* The counting semaphore of internal/limiter: AcquireN blocks on a        *)
(* condition variable, TryAcquireN does not, ReleaseN broadcasts after     *)
(* unlocking.  Every blocking call has a watcher goroutine that broadcasts *)
(* when the caller's context is cancelled.                                 *)
(*                                                                         *)
(* Steps are cut where another goroutine can get in between: before the    *)
(* lock, between the check of the context and the entry into the condition *)
(* variable's wait list (the watcher takes no lock), and between the       *)
(* unlock and the broadcast of ReleaseN.                                   *)
(***************************************************************************)
EXTENDS Naturals, FiniteSets

CONSTANTS
    Callers,    \* the goroutines, each with a context of its own
    Capacity,   \* the semaphore's capacity
    MaxCalls    \* bound on the calls each goroutine makes

ASSUME CallersAssumption == IsFiniteSet(Callers)
ASSUME CapacityAssumption == Capacity \in Nat /\ Capacity >= 1
ASSUME CallsAssumption == MaxCalls \in Nat

Free == "free"          \* nobody holds the mutex

ASSUME FreeAssumption == Free \notin Callers

VARIABLES
    pc,         \* where each goroutine is
    want,       \* the n of its current call
    held,       \* the permits it has been granted and has not returned
    inFlight,   \* Semaphore.inFlight
    mu,         \* who holds Semaphore.mu
    cancelled,  \* the goroutines whose context is cancelled
    watcher,    \* the goroutines whose watcher has not fired or ended
    panicked,   \* ReleaseN panicked
    calls       \* calls made so far

vars == <<pc, want, held, inFlight, mu, cancelled, watcher, panicked, calls>>

PCs == {"idle", "lock", "check", "enlist", "blocked", "holding", "broadcast"}

(* Every variable keeps its type.                                          *)
TypeOK ==
    /\ pc \in [Callers -> PCs]
    /\ want \in [Callers -> 0..Capacity]
    /\ held \in [Callers -> 0..Capacity]
    /\ inFlight \in Nat
    /\ mu \in Callers \cup {Free}
    /\ cancelled \in SUBSET Callers
    /\ watcher \in SUBSET Callers
    /\ panicked \in BOOLEAN
    /\ calls \in [Callers -> Nat]

Init ==
    /\ pc = [c \in Callers |-> "idle"]
    /\ want = [c \in Callers |-> 0]
    /\ held = [c \in Callers |-> 0]
    /\ inFlight = 0
    /\ mu = Free
    /\ cancelled = {}
    /\ watcher = {}
    /\ panicked = FALSE
    /\ calls = [c \in Callers |-> 0]

Room(n) == inFlight + n <= Capacity

-----------------------------------------------------------------------------
(* AcquireN.  The requests the code answers without touching the semaphore *)
(* (n <= 0, n > capacity, a context cancelled already) change nothing      *)
(* here; any other starts the watcher and goes for the lock.               *)

CallAcquire(c, n) ==
    /\ pc[c] = "idle" /\ calls[c] < MaxCalls
    /\ 0 < n /\ n <= Capacity
    /\ c \notin cancelled
    /\ pc' = [pc EXCEPT ![c] = "lock"]
    /\ want' = [want EXCEPT ![c] = n]
    /\ watcher' = watcher \cup {c}
    /\ calls' = [calls EXCEPT ![c] = @ + 1]
    /\ UNCHANGED <<held, inFlight, mu, cancelled, panicked>>

Lock(c) ==
    /\ pc[c] = "lock" /\ mu = Free
    /\ mu' = c
    /\ pc' = [pc EXCEPT ![c] = "check"]
    /\ UNCHANGED <<want, held, inFlight, cancelled, watcher, panicked, calls>>

Return(c) ==
    /\ pc' = [pc EXCEPT ![c] = "idle"]
    /\ want' = [want EXCEPT ![c] = 0]

(* inFlight += n, then the deferred unlock and close(done) *)
Grant(c) ==
    /\ inFlight' = inFlight + want[c]
    /\ held' = [held EXCEPT ![c] = want[c]]
    /\ pc' = [pc EXCEPT ![c] = "holding"]

(* mutant: the loop's condition is off by one *)
CheckOffByOne(c) ==
    /\ pc[c] = "check"
    /\ IF inFlight + want[c] <= Capacity + 1
         THEN Grant(c) /\ mu' = Free /\ UNCHANGED want
         ELSE /\ IF c \in cancelled
                   THEN Return(c) /\ mu' = Free
                   ELSE pc' = [pc EXCEPT ![c] = "enlist"] /\ UNCHANGED <<want, mu>>
              /\ UNCHANGED <<inFlight, held>>
    /\ UNCHANGED <<cancelled, watcher, panicked, calls>>

(* One turn of the loop, under the lock: enough room, or the context's     *)
(* error, or into cond.Wait.                                               *)
Check(c) ==
    /\ pc[c] = "check"
    /\ IF Room(want[c])
         THEN Grant(c) /\ mu' = Free /\ UNCHANGED want
         ELSE /\ IF c \in cancelled
                   THEN Return(c) /\ mu' = Free
                   ELSE pc' = [pc EXCEPT ![c] = "enlist"] /\ UNCHANGED <<want, mu>>
              /\ UNCHANGED <<inFlight, held>>
    /\ UNCHANGED <<cancelled, watcher, panicked, calls>>

(* cond.Wait joins the wait list and unlocks; a broadcast before this step *)
(* does not reach c.                                                       *)
Enlist(c) ==
    /\ pc[c] = "enlist"
    /\ pc' = [pc EXCEPT ![c] = "blocked"]
    /\ mu' = Free
    /\ UNCHANGED <<want, held, inFlight, cancelled, watcher, panicked, calls>>

(* cond.Broadcast: everyone on the wait list goes for the lock again *)
Awake(f) == [c \in Callers |-> IF f[c] = "blocked" THEN "lock" ELSE f[c]]

(* The watcher: it broadcasts when the context is cancelled, or ends when  *)
(* the call has returned; when both are so, either.                        *)
InCall(c) == pc[c] \in {"lock", "check", "enlist", "blocked"}

WatcherFires(c) ==
    /\ c \in watcher /\ c \in cancelled
    /\ watcher' = watcher \ {c}
    /\ pc' = Awake(pc)
    /\ UNCHANGED <<want, held, inFlight, mu, cancelled, panicked, calls>>

WatcherEnds(c) ==
    /\ c \in watcher /\ ~InCall(c)
    /\ watcher' = watcher \ {c}
    /\ UNCHANGED <<pc, want, held, inFlight, mu, cancelled, panicked, calls>>

Cancel(c) ==
    /\ c \notin cancelled
    /\ cancelled' = cancelled \cup {c}
    /\ UNCHANGED <<pc, want, held, inFlight, mu, watcher, panicked, calls>>

-----------------------------------------------------------------------------
(* TryAcquireN: locks, looks once, unlocks.  A refusal changes nothing.    *)

TryAcquire(c, n) ==
    /\ pc[c] = "idle" /\ calls[c] < MaxCalls
    /\ 0 < n /\ n <= Capacity
    /\ mu = Free
    /\ Room(n)
    /\ inFlight' = inFlight + n
    /\ held' = [held EXCEPT ![c] = n]
    /\ want' = [want EXCEPT ![c] = n]
    /\ pc' = [pc EXCEPT ![c] = "holding"]
    /\ calls' = [calls EXCEPT ![c] = @ + 1]
    /\ UNCHANGED <<mu, cancelled, watcher, panicked>>

-----------------------------------------------------------------------------
(* ReleaseN of what the call was granted: first under the lock, then the   *)
(* broadcast.                                                              *)

Release(c) ==
    /\ pc[c] = "holding" /\ mu = Free
    /\ IF inFlight < held[c]
         THEN panicked' = TRUE /\ UNCHANGED <<pc, want, held, inFlight>>
         ELSE /\ inFlight' = inFlight - held[c]
              /\ held' = [held EXCEPT ![c] = 0]
              /\ pc' = [pc EXCEPT ![c] = "broadcast"]
              /\ want' = [want EXCEPT ![c] = 0]
              /\ UNCHANGED panicked
    /\ UNCHANGED <<mu, cancelled, watcher, calls>>

(* mutant: Signal in place of Broadcast *)
BroadcastOne(c) ==
    /\ pc[c] = "broadcast"
    /\ LET blocked == {d \in Callers : pc[d] = "blocked"}
           idle == [pc EXCEPT ![c] = "idle"]
       IN IF blocked = {} THEN pc' = idle
          ELSE \E d \in blocked : pc' = [idle EXCEPT ![d] = "lock"]
    /\ UNCHANGED <<want, held, inFlight, mu, cancelled, watcher, panicked,
                   calls>>

(* mutant: the broadcast is forgotten *)
BroadcastNone(c) ==
    /\ pc[c] = "broadcast"
    /\ pc' = [pc EXCEPT ![c] = "idle"]
    /\ UNCHANGED <<want, held, inFlight, mu, cancelled, watcher, panicked,
                   calls>>

Broadcast(c) ==
    /\ pc[c] = "broadcast"
    /\ pc' = Awake([pc EXCEPT ![c] = "idle"])
    /\ UNCHANGED <<want, held, inFlight, mu, cancelled, watcher, panicked,
                   calls>>

-----------------------------------------------------------------------------

AcquireStep(c) == Lock(c) \/ Check(c) \/ Enlist(c)
WatcherStep(c) == WatcherFires(c) \/ WatcherEnds(c)
ReleaseStep(c) == Release(c) \/ Broadcast(c)

Next ==
    \E c \in Callers :
       \/ \E n \in 0..(Capacity + 1) : CallAcquire(c, n) \/ TryAcquire(c, n)
       \/ AcquireStep(c)
       \/ WatcherStep(c)
       \/ ReleaseStep(c)
       \/ Cancel(c)

(* Goroutines that can run do run: weak fairness is enough, as every       *)
(* goroutine makes finitely many calls and the mutex comes free.  Whoever  *)
(* was granted permits returns them.                                       *)
Running(c) == WF_vars(AcquireStep(c)) /\ WF_vars(WatcherStep(c))

Spec ==
    /\ Init /\ [][Next]_vars
    /\ \A c \in Callers : Running(c) /\ WF_vars(ReleaseStep(c))

-----------------------------------------------------------------------------
(* Properties *)

(* The permits out when each goroutine c holds h[c], one element each *)
Permits(h) == {g \in Callers \X (1..Capacity) : g[2] <= h[g[1]]}

(* inFlight counts exactly the permits out, never more than the capacity,  *)
(* and so ReleaseN never panics on a caller that returns what it was       *)
(* granted, whatever blocking, failed and cancelled calls came in between. *)
PermitsConserved ==
    /\ inFlight = Cardinality(Permits(held))
    /\ inFlight <= Capacity
    /\ ~panicked

(* No wakeup by ReleaseN is lost: a goroutine on the wait list whose       *)
(* request would fit is one that a broadcast still to come will wake.      *)
NoLostWakeup ==
    \A c \in Callers :
       pc[c] = "blocked" /\ Room(want[c]) =>
         \E d \in Callers : pc[d] = "broadcast"

(* As long as granted permits come back, and with finitely many calls, no  *)
(* AcquireN blocks forever.                                                *)
AcquireReturns == \A c \in Callers : InCall(c) ~> ~InCall(c)

(* The Limiter's view of each goroutine: in a call of AcquireN it asks,    *)
(* from the grant to its ReleaseN it holds.                                *)
Calls ==
    [c \in Callers |->
       CASE InCall(c) -> [st |-> "asks", n |-> want[c]]
         [] pc[c] = "holding" -> [st |-> "holds", n |-> held[c]]
         [] OTHER -> [st |-> "out", n |-> 0]]

Interface == INSTANCE Limiter WITH Clients <- Callers, call <- Calls

(* The Semaphore implements the Limiter interface: with the mutex, the     *)
(* condition variable and the watchers hidden, a grant is one step that    *)
(* finds room for all of n, no call is turned away unless its context is   *)
(* cancelled, and nothing but its own ReleaseN takes permits from anyone.  *)
ImplementsLimiter == Interface!Spec

=============================================================================
