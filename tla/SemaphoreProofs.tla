-------------------------- MODULE SemaphoreProofs ---------------------------
(***************************************************************************)
(* Proofs about Semaphore, for every finite set of goroutines and every    *)
(* capacity: types, conservation of the permits, that no wakeup by         *)
(* ReleaseN is lost, and that it implements Limiter; and about the groups  *)
(* of ErrGroup that use a Limiter.                                         *)
(***************************************************************************)
EXTENDS Semaphore, ErrGroup, FiniteSetTheorems, TLAPS

(* Whoever is between the lock and the unlock of AcquireN holds the mutex, *)
(* and only they do: TryAcquireN and ReleaseN take it and give it back     *)
(* within one step.                                                        *)
MutexHeld ==
    \A c \in Callers : mu = c <=> pc[c] \in {"check", "enlist"}

(* A goroutine about to enter the wait list has no room, and keeps having  *)
(* none: whoever could make some needs the mutex.                          *)
EnlistsWithoutRoom == \A c \in Callers : pc[c] = "enlist" => ~Room(want[c])

(* Permits are held between the grant and the release, and only then.      *)
HeldWhileHolding == \A c \in Callers : pc[c] # "holding" => held[c] = 0

IInv ==
    /\ TypeOK
    /\ MutexHeld
    /\ EnlistsWithoutRoom
    /\ HeldWhileHolding
    /\ PermitsConserved
    /\ NoLostWakeup

-----------------------------------------------------------------------------
(* Counting permits *)

(* The set of permits out is finite, and empty when nobody holds any.      *)
LEMMA PermitsFinite ==
    ASSUME NEW h \in [Callers -> 0..Capacity]
    PROVE  /\ IsFiniteSet(Permits(h))
           /\ Cardinality(Permits(h)) \in Nat
           /\ (\A c \in Callers : h[c] = 0) => Cardinality(Permits(h)) = 0
<1>1. IsFiniteSet(1..Capacity)
  BY FS_Interval, CapacityAssumption
<1>2. IsFiniteSet(Callers \X (1..Capacity))
  BY <1>1, FS_Product, CallersAssumption
<1>3. Permits(h) \in SUBSET (Callers \X (1..Capacity))
  BY DEF Permits
<1>4. IsFiniteSet(Permits(h))
  BY <1>2, <1>3, FS_Subset
<1>5. Cardinality(Permits(h)) \in Nat
  BY <1>4, FS_CardinalityType
<1>6. ASSUME \A c \in Callers : h[c] = 0
      PROVE  Cardinality(Permits(h)) = 0
  <2>1. Permits(h) = {}
    BY <1>6, CapacityAssumption DEF Permits
  <2>. QED
    BY <2>1, FS_EmptySet
<1>. QED
  BY <1>4, <1>5, <1>6

(* Granting k permits to a goroutine that holds none adds k to the count.  *)
LEMMA GrantCounts ==
    ASSUME NEW h \in [Callers -> 0..Capacity],
           NEW c \in Callers, h[c] = 0,
           NEW k \in 0..Capacity
    PROVE  Cardinality(Permits([h EXCEPT ![c] = k]))
             = Cardinality(Permits(h)) + k
<1> DEFINE T == {c} \X (1..k)
           g == [h EXCEPT ![c] = k]
<1>1. k \in Nat /\ k <= Capacity /\ 1..k \subseteq 1..Capacity
  BY CapacityAssumption
<1>2. IsFiniteSet(T) /\ Cardinality(T) = k
  <2>1. IsFiniteSet(1..k) /\ Cardinality(1..k) = k
    <3>1. IsFiniteSet(1..k) /\ Cardinality(1..k) = IF 1 > k THEN 0 ELSE k - 1 + 1
      BY <1>1, FS_Interval
    <3>. QED
      BY <3>1, <1>1
  <2>2. IsFiniteSet({c}) /\ Cardinality({c}) = 1
    BY FS_Singleton
  <2>3. IsFiniteSet(T) /\ Cardinality(T) = Cardinality({c}) * Cardinality(1..k)
    BY <2>1, <2>2, FS_Product
  <2>. QED
    BY <2>1, <2>2, <2>3, <1>1
<1>3. Permits(h) \cap T = {}
  BY <1>1, CapacityAssumption DEF Permits
<1>4. Permits(g) = Permits(h) \cup T
  <2>1. ASSUME NEW p \in Permits(g) PROVE p \in Permits(h) \cup T
    <3>1. PICK d \in Callers, i \in 1..Capacity : p = <<d, i>> /\ i <= g[d]
      BY DEF Permits
    <3>2. CASE d = c
      BY <3>1, <3>2, <1>1
    <3>3. CASE d # c
      BY <3>1, <3>3 DEF Permits
    <3>. QED
      BY <3>2, <3>3
  <2>2. ASSUME NEW p \in Permits(h) PROVE p \in Permits(g)
    <3>1. PICK d \in Callers, i \in 1..Capacity : p = <<d, i>> /\ i <= h[d]
      BY DEF Permits
    <3>2. d # c
      BY <3>1, CapacityAssumption
    <3>. QED
      BY <3>1, <3>2 DEF Permits
  <2>3. ASSUME NEW p \in T PROVE p \in Permits(g)
    BY <1>1 DEF Permits
  <2>. QED
    BY <2>1, <2>2, <2>3
<1>5. IsFiniteSet(Permits(h)) /\ Cardinality(Permits(h)) \in Nat
  BY PermitsFinite
<1>6. Cardinality(Permits(g))
        = Cardinality(Permits(h)) + Cardinality(T) - Cardinality(Permits(h) \cap T)
  BY <1>2, <1>4, <1>5, FS_Union
<1>7. Cardinality(Permits(h) \cap T) = 0
  BY <1>3, FS_EmptySet
<1>. QED
  BY <1>1, <1>2, <1>5, <1>6, <1>7

(* Returning them takes the same k away.                                   *)
LEMMA ReleaseCounts ==
    ASSUME NEW h \in [Callers -> 0..Capacity], NEW c \in Callers
    PROVE  /\ Cardinality(Permits(h)) \in Nat
           /\ h[c] \in Nat
           /\ Cardinality(Permits([h EXCEPT ![c] = 0])) \in Nat
           /\ Cardinality(Permits(h))
                = Cardinality(Permits([h EXCEPT ![c] = 0])) + h[c]
<1> DEFINE z == [h EXCEPT ![c] = 0]
<1>1. z \in [Callers -> 0..Capacity] /\ z[c] = 0
  BY CapacityAssumption
<1>2. h = [z EXCEPT ![c] = h[c]]
  OBVIOUS
<1>3. h[c] \in 0..Capacity /\ h[c] \in Nat
  BY CapacityAssumption
<1>4. Cardinality(Permits([z EXCEPT ![c] = h[c]])) = Cardinality(Permits(z)) + h[c]
  <2> HIDE DEF z
  <2>. QED
    BY <1>1, <1>3, GrantCounts
<1>. QED
  BY <1>1, <1>2, <1>3, <1>4, PermitsFinite

-----------------------------------------------------------------------------
(* The inductive invariant *)

LEMMA InitIInv == Init => IInv
<1> SUFFICES ASSUME Init PROVE IInv
  OBVIOUS
<1> USE DEF Init
<1>1. TypeOK
  <2>1. panicked \in BOOLEAN
    OBVIOUS
  <2>2. /\ 0 \in 0..Capacity
        /\ want \in [Callers -> 0..Capacity] /\ held \in [Callers -> 0..Capacity]
        /\ pc \in [Callers -> PCs] /\ calls \in [Callers -> Nat]
    BY CapacityAssumption DEF PCs
  <2>. QED
    BY <2>1, <2>2 DEF TypeOK
<1>2. MutexHeld /\ EnlistsWithoutRoom /\ HeldWhileHolding /\ NoLostWakeup
  BY FreeAssumption DEF MutexHeld, EnlistsWithoutRoom, HeldWhileHolding,
     NoLostWakeup
<1>3. PermitsConserved
  <2>1. Cardinality(Permits(held)) = 0
    BY <1>1, PermitsFinite DEF TypeOK
  <2>. QED
    BY <2>1, CapacityAssumption DEF PermitsConserved
<1>. QED
  BY <1>1, <1>2, <1>3 DEF IInv

(* Waking changes nothing but the place of the goroutines on the wait list. *)
LEMMA AwakeType ==
    ASSUME NEW f \in [Callers -> PCs]
    PROVE  /\ Awake(f) \in [Callers -> PCs]
           /\ \A c \in Callers : Awake(f)[c] # "blocked"
           /\ \A c \in Callers : \A p \in PCs \ {"lock", "blocked"} :
                 Awake(f)[c] = p <=> f[c] = p
BY DEF Awake, PCs

(* Steps that leave the permits and inFlight alone keep them conserved.    *)
LEMMA PermitsUntouched ==
    ASSUME PermitsConserved, UNCHANGED <<held, inFlight, panicked>>
    PROVE  PermitsConserved'
BY DEF PermitsConserved, Permits

LEMMA CallAcquireStep ==
    ASSUME IInv, NEW c \in Callers, NEW n \in 0..(Capacity + 1), CallAcquire(c, n)
    PROVE  IInv'
<1> USE CapacityAssumption, FreeAssumption DEF IInv, CallAcquire
<1>1. TypeOK'
  BY DEF TypeOK, PCs
<1>2. MutexHeld' /\ HeldWhileHolding'
  BY DEF TypeOK, MutexHeld, HeldWhileHolding
<1>3. EnlistsWithoutRoom'
  BY DEF TypeOK, EnlistsWithoutRoom, Room
<1>4. NoLostWakeup'
  BY DEF TypeOK, NoLostWakeup, Room
<1>5. PermitsConserved'
  BY PermitsUntouched
<1>. QED
  BY <1>1, <1>2, <1>3, <1>4, <1>5

LEMMA LockStep ==
    ASSUME IInv, NEW c \in Callers, Lock(c)
    PROVE  IInv'
<1> USE CapacityAssumption, FreeAssumption DEF IInv, Lock
<1>1. TypeOK'
  BY DEF TypeOK, PCs
<1>2. MutexHeld' /\ HeldWhileHolding'
  BY DEF TypeOK, MutexHeld, HeldWhileHolding
<1>3. EnlistsWithoutRoom'
  BY DEF TypeOK, EnlistsWithoutRoom, Room
<1>4. NoLostWakeup'
  BY DEF TypeOK, NoLostWakeup, Room
<1>5. PermitsConserved'
  BY PermitsUntouched
<1>. QED
  BY <1>1, <1>2, <1>3, <1>4, <1>5

(* A grant leaves less room to everyone, so nobody on the wait list gains   *)
(* any; a goroutine sent to the wait list has just found none.              *)
LEMMA CheckStep ==
    ASSUME IInv, NEW c \in Callers, Check(c)
    PROVE  IInv'
<1> USE CapacityAssumption, FreeAssumption DEF IInv
<1>0. mu = c /\ held[c] = 0 /\ want[c] \in 0..Capacity /\ inFlight \in Nat
  BY DEF Check, TypeOK, MutexHeld, HeldWhileHolding
<1>1. CASE Room(want[c])
  <2> USE <1>1 DEF Check, Grant
  <2>1. TypeOK'
    BY <1>0 DEF TypeOK, PCs
  <2>2. MutexHeld' /\ HeldWhileHolding'
    BY <1>0 DEF TypeOK, MutexHeld, HeldWhileHolding
  <2>3. EnlistsWithoutRoom'
    BY <1>0 DEF TypeOK, EnlistsWithoutRoom, Room
  <2>4. NoLostWakeup'
    BY <1>0 DEF TypeOK, NoLostWakeup, Room
  <2>5. PermitsConserved'
    <3>0. held \in [Callers -> 0..Capacity]
      BY DEF TypeOK
    <3>1. Cardinality(Permits([held EXCEPT ![c] = want[c]]))
            = Cardinality(Permits(held)) + want[c]
      BY ONLY <3>0, <1>0, GrantCounts
    <3>2. Cardinality(Permits(held')) = inFlight'
      BY <3>1 DEF PermitsConserved
    <3>. QED
      BY <3>2 DEF PermitsConserved, Room, Permits
  <2>. QED
    BY <2>1, <2>2, <2>3, <2>4, <2>5
<1>2. CASE ~Room(want[c]) /\ c \in cancelled
  <2> USE <1>2 DEF Check, Return
  <2>1. TypeOK'
    BY <1>0 DEF TypeOK, PCs
  <2>2. MutexHeld' /\ HeldWhileHolding'
    BY <1>0 DEF TypeOK, MutexHeld, HeldWhileHolding
  <2>3. EnlistsWithoutRoom'
    BY <1>0 DEF TypeOK, EnlistsWithoutRoom, Room
  <2>4. NoLostWakeup'
    BY <1>0 DEF TypeOK, NoLostWakeup, Room
  <2>5. PermitsConserved'
    BY PermitsUntouched
  <2>. QED
    BY <2>1, <2>2, <2>3, <2>4, <2>5
<1>3. CASE ~Room(want[c]) /\ c \notin cancelled
  <2> USE <1>3 DEF Check
  <2>1. TypeOK'
    BY <1>0 DEF TypeOK, PCs
  <2>2. MutexHeld' /\ HeldWhileHolding'
    BY <1>0 DEF TypeOK, MutexHeld, HeldWhileHolding
  <2>3. EnlistsWithoutRoom'
    BY <1>0 DEF TypeOK, EnlistsWithoutRoom, Room
  <2>4. NoLostWakeup'
    BY <1>0 DEF TypeOK, NoLostWakeup, Room
  <2>5. PermitsConserved'
    BY PermitsUntouched
  <2>. QED
    BY <2>1, <2>2, <2>3, <2>4, <2>5
<1>. QED
  BY <1>1, <1>2, <1>3

(* The only step onto the wait list: there is no room, by the invariant.     *)
LEMMA EnlistStep ==
    ASSUME IInv, NEW c \in Callers, Enlist(c)
    PROVE  IInv'
<1> USE CapacityAssumption, FreeAssumption DEF IInv, Enlist
<1>0. mu = c /\ ~Room(want[c])
  BY DEF TypeOK, MutexHeld, EnlistsWithoutRoom
<1>1. TypeOK'
  BY DEF TypeOK, PCs
<1>2. MutexHeld' /\ HeldWhileHolding'
  BY <1>0 DEF TypeOK, MutexHeld, HeldWhileHolding
<1>3. EnlistsWithoutRoom'
  BY DEF TypeOK, EnlistsWithoutRoom, Room
<1>4. NoLostWakeup'
  <2> SUFFICES ASSUME NEW d \in Callers, pc'[d] = "blocked", Room(want[d])'
               PROVE  \E e \in Callers : pc'[e] = "broadcast"
    BY DEF NoLostWakeup
  <2>1. d # c
    BY <1>0 DEF Room
  <2>2. pc[d] = "blocked" /\ Room(want[d])
    BY <2>1 DEF TypeOK, Room
  <2>3. PICK e \in Callers : pc[e] = "broadcast"
    BY <2>2 DEF NoLostWakeup
  <2>. QED
    BY <2>3 DEF TypeOK
<1>5. PermitsConserved'
  BY PermitsUntouched
<1>. QED
  BY <1>1, <1>2, <1>3, <1>4, <1>5

(* A broadcast by a watcher empties the wait list.                           *)
LEMMA WatcherFiresStep ==
    ASSUME IInv, NEW c \in Callers, WatcherFires(c)
    PROVE  IInv'
<1> USE CapacityAssumption, FreeAssumption DEF IInv, WatcherFires
<1>0. /\ pc' \in [Callers -> PCs]
      /\ \A d \in Callers : pc'[d] # "blocked"
      /\ \A d \in Callers : \A p \in PCs \ {"lock", "blocked"} :
            pc'[d] = p <=> pc[d] = p
  BY AwakeType DEF TypeOK
<1>1. TypeOK'
  BY <1>0 DEF TypeOK
<1>2. MutexHeld' /\ HeldWhileHolding'
  BY <1>0 DEF TypeOK, MutexHeld, HeldWhileHolding, PCs
<1>3. EnlistsWithoutRoom'
  BY <1>0 DEF EnlistsWithoutRoom, Room, PCs
<1>4. NoLostWakeup'
  BY <1>0 DEF NoLostWakeup
<1>5. PermitsConserved'
  BY PermitsUntouched
<1>. QED
  BY <1>1, <1>2, <1>3, <1>4, <1>5

LEMMA WatcherEndsStep ==
    ASSUME IInv, NEW c \in Callers, WatcherEnds(c)
    PROVE  IInv'
<1> USE CapacityAssumption, FreeAssumption DEF IInv, WatcherEnds
<1>1. TypeOK'
  BY DEF TypeOK, PCs
<1>2. MutexHeld' /\ HeldWhileHolding'
  BY DEF TypeOK, MutexHeld, HeldWhileHolding
<1>3. EnlistsWithoutRoom'
  BY DEF TypeOK, EnlistsWithoutRoom, Room
<1>4. NoLostWakeup'
  BY DEF TypeOK, NoLostWakeup, Room
<1>5. PermitsConserved'
  BY PermitsUntouched
<1>. QED
  BY <1>1, <1>2, <1>3, <1>4, <1>5

LEMMA CancelStep ==
    ASSUME IInv, NEW c \in Callers, Cancel(c)
    PROVE  IInv'
<1> USE CapacityAssumption, FreeAssumption DEF IInv, Cancel
<1>1. TypeOK'
  BY DEF TypeOK, PCs
<1>2. MutexHeld' /\ HeldWhileHolding'
  BY DEF TypeOK, MutexHeld, HeldWhileHolding
<1>3. EnlistsWithoutRoom'
  BY DEF TypeOK, EnlistsWithoutRoom, Room
<1>4. NoLostWakeup'
  BY DEF TypeOK, NoLostWakeup, Room
<1>5. PermitsConserved'
  BY PermitsUntouched
<1>. QED
  BY <1>1, <1>2, <1>3, <1>4, <1>5

LEMMA TryAcquireStep ==
    ASSUME IInv, NEW c \in Callers, NEW n \in 0..(Capacity + 1), TryAcquire(c, n)
    PROVE  IInv'
<1> USE CapacityAssumption, FreeAssumption DEF IInv, TryAcquire
<1>0. held[c] = 0 /\ n \in 0..Capacity
  BY DEF HeldWhileHolding
<1>1. TypeOK'
  BY DEF TypeOK, PCs
<1>2. MutexHeld' /\ HeldWhileHolding'
  BY DEF TypeOK, MutexHeld, HeldWhileHolding
<1>3. EnlistsWithoutRoom'
  BY DEF TypeOK, EnlistsWithoutRoom, Room
<1>4. NoLostWakeup'
  BY DEF TypeOK, NoLostWakeup, Room
<1>5. PermitsConserved'
  <2>1. held \in [Callers -> 0..Capacity]
    BY DEF TypeOK
  <2>2. Cardinality(Permits([held EXCEPT ![c] = n]))
          = Cardinality(Permits(held)) + n
    BY ONLY <2>1, <1>0, GrantCounts
  <2>. QED
    BY <2>2 DEF PermitsConserved, Room, Permits
<1>. QED
  BY <1>1, <1>2, <1>3, <1>4, <1>5

(* What a goroutine holds is part of inFlight, so ReleaseN does not panic;   *)
(* the goroutine goes on to broadcast, which is the wakeup owed to those on  *)
(* the wait list that now have room.                                         *)
LEMMA ReleaseStepInv ==
    ASSUME IInv, NEW c \in Callers, Release(c)
    PROVE  IInv'
<1> USE CapacityAssumption, FreeAssumption DEF IInv
<1>0. held \in [Callers -> 0..Capacity]
  BY DEF TypeOK
<1>1. /\ Cardinality(Permits(held)) \in Nat
      /\ held[c] \in Nat
      /\ Cardinality(Permits([held EXCEPT ![c] = 0])) \in Nat
      /\ Cardinality(Permits(held))
           = Cardinality(Permits([held EXCEPT ![c] = 0])) + held[c]
  BY ONLY <1>0, ReleaseCounts
<1>2. /\ ~(inFlight < held[c])
      /\ inFlight - held[c] = Cardinality(Permits([held EXCEPT ![c] = 0]))
      /\ inFlight - held[c] \in Nat /\ inFlight - held[c] <= Capacity
  BY <1>1 DEF PermitsConserved
<1>3. /\ pc[c] = "holding" /\ mu = Free
      /\ inFlight' = inFlight - held[c]
      /\ held' = [held EXCEPT ![c] = 0]
      /\ pc' = [pc EXCEPT ![c] = "broadcast"]
      /\ want' = [want EXCEPT ![c] = 0]
      /\ UNCHANGED <<panicked, mu, cancelled, watcher, calls>>
  BY <1>2 DEF Release
<1>4. TypeOK'
  BY <1>2, <1>3 DEF TypeOK, PCs
<1>5. MutexHeld' /\ HeldWhileHolding'
  BY <1>3 DEF TypeOK, MutexHeld, HeldWhileHolding
<1>6. EnlistsWithoutRoom'
  BY <1>3 DEF TypeOK, MutexHeld, EnlistsWithoutRoom
<1>7. NoLostWakeup'
  BY <1>3 DEF TypeOK, NoLostWakeup
<1>8. PermitsConserved'
  BY <1>2, <1>3 DEF PermitsConserved, Permits
<1>. QED
  BY <1>4, <1>5, <1>6, <1>7, <1>8

LEMMA BroadcastStep ==
    ASSUME IInv, NEW c \in Callers, Broadcast(c)
    PROVE  IInv'
<1> USE CapacityAssumption, FreeAssumption DEF IInv, Broadcast
<1> DEFINE f == [pc EXCEPT ![c] = "idle"]
<1>0. f \in [Callers -> PCs]
  BY DEF TypeOK, PCs
<1>1. /\ pc' \in [Callers -> PCs]
      /\ \A d \in Callers : pc'[d] # "blocked"
      /\ \A d \in Callers : \A p \in PCs \ {"lock", "blocked"} :
            pc'[d] = p <=> f[d] = p
  BY <1>0, AwakeType
<1>2. TypeOK'
  BY <1>1 DEF TypeOK
<1>3. MutexHeld' /\ HeldWhileHolding'
  <2>1. ASSUME NEW d \in Callers, NEW p \in {"check", "enlist", "holding"}
        PROVE  pc'[d] = p <=> pc[d] = p
    BY <1>1 DEF TypeOK, PCs
  <2>2. UNCHANGED <<mu, held>>
    OBVIOUS
  <2>3. \A d \in Callers : pc'[d] \in {"check", "enlist"}
                             <=> pc[d] \in {"check", "enlist"}
    BY <2>1
  <2>4. \A d \in Callers : pc'[d] = "holding" <=> pc[d] = "holding"
    BY <2>1
  <2>. QED
    BY <2>2, <2>3, <2>4 DEF MutexHeld, HeldWhileHolding
<1>4. EnlistsWithoutRoom'
  BY <1>1 DEF TypeOK, EnlistsWithoutRoom, Room, PCs
<1>5. NoLostWakeup'
  BY <1>1 DEF NoLostWakeup
<1>6. PermitsConserved'
  BY PermitsUntouched
<1>. QED
  BY <1>2, <1>3, <1>4, <1>5, <1>6

LEMMA StutterStep ==
    ASSUME IInv, UNCHANGED vars
    PROVE  IInv'
BY DEF IInv, vars, TypeOK, MutexHeld, EnlistsWithoutRoom, HeldWhileHolding,
   PermitsConserved, Permits, NoLostWakeup, Room

(* IInv is inductive: one case per action.                                   *)
LEMMA NextIInv == IInv /\ [Next]_vars => IInv'
<1> SUFFICES ASSUME IInv, [Next]_vars PROVE IInv'
  OBVIOUS
<1>1. CASE UNCHANGED vars
  BY <1>1, StutterStep
<1>2. ASSUME NEW c \in Callers, NEW n \in 0..(Capacity + 1),
             CallAcquire(c, n) \/ TryAcquire(c, n)
      PROVE  IInv'
  BY <1>2, CallAcquireStep, TryAcquireStep
<1>3. ASSUME NEW c \in Callers, AcquireStep(c) PROVE IInv'
  BY <1>3, LockStep, CheckStep, EnlistStep DEF AcquireStep
<1>4. ASSUME NEW c \in Callers, WatcherStep(c) PROVE IInv'
  BY <1>4, WatcherFiresStep, WatcherEndsStep DEF WatcherStep
<1>5. ASSUME NEW c \in Callers, ReleaseStep(c) PROVE IInv'
  BY <1>5, ReleaseStepInv, BroadcastStep DEF ReleaseStep
<1>6. ASSUME NEW c \in Callers, Cancel(c) PROVE IInv'
  BY <1>6, CancelStep
<1>. QED
  BY <1>1, <1>2, <1>3, <1>4, <1>5, <1>6 DEF Next

-----------------------------------------------------------------------------
(* The theorems.  They hold of the behaviours with and without fairness.     *)

LEMMA Inductive == Init /\ [][Next]_vars => []IInv
BY InitIInv, NextIInv, PTL

(* Every variable of the semaphore keeps its type.                           *)
THEOREM SemaphoreTypes == Spec => []TypeOK
<1>1. IInv => TypeOK
  BY DEF IInv
<1>. QED
  BY <1>1, Inductive, PTL DEF Spec

(* inFlight counts the permits out and stays within the capacity, and        *)
(* ReleaseN never panics on a caller that returns what AcquireN or           *)
(* TryAcquireN granted.                                                      *)
THEOREM SemaphoreConserves == Spec => []PermitsConserved
<1>1. IInv => PermitsConserved
  BY DEF IInv
<1>. QED
  BY <1>1, Inductive, PTL DEF Spec

(* Whenever a goroutine on the condition variable's wait list could be       *)
(* served, a ReleaseN has yet to broadcast.                                  *)
THEOREM SemaphoreWakes == Spec => []NoLostWakeup
<1>1. IInv => NoLostWakeup
  BY DEF IInv
<1>. QED
  BY <1>1, Inductive, PTL DEF Spec

-----------------------------------------------------------------------------
(* The Semaphore implements the Limiter.  One lemma per action says which    *)
(* step of the interface it is, if any.                                      *)

(* A step after which c alone has another call, with state st and n permits. *)
Becomes(c, st, n) == Calls' = [Calls EXCEPT ![c] = [st |-> st, n |-> n]]

(* The interface's view, without CASE.                                       *)
LEMMA View ==
    /\ Calls = [d \in Callers |->
                  IF InCall(d) THEN [st |-> "asks", n |-> want[d]]
                  ELSE IF pc[d] = "holding" THEN [st |-> "holds", n |-> held[d]]
                  ELSE [st |-> "out", n |-> 0]]
    /\ Calls' = [d \in Callers |->
                  IF InCall(d)' THEN [st |-> "asks", n |-> want'[d]]
                  ELSE IF pc'[d] = "holding" THEN [st |-> "holds", n |-> held'[d]]
                  ELSE [st |-> "out", n |-> 0]]
BY DEF Calls, InCall

(* A step that leaves alone where everyone is in the interface's eyes, and   *)
(* the permits, leaves the interface's state alone.                          *)
LEMMA SameView ==
    ASSUME \A d \in Callers : /\ InCall(d)' = InCall(d)
                              /\ (pc'[d] = "holding") = (pc[d] = "holding"),
           UNCHANGED <<want, held>>
    PROVE  Calls' = Calls
BY View

(* The permits the interface counts are those inFlight counts.               *)
LEMMA FitsIsRoom ==
    ASSUME IInv
    PROVE  /\ Interface!PermitsOut = Permits(held)
           /\ \A n \in Nat : Room(n) => Interface!Fits(n)
<1>1. Interface!PermitsOut = Permits(held)
  <2>1. ASSUME NEW g \in Callers \X (1..Capacity)
        PROVE  (Calls[g[1]].st = "holds" /\ g[2] <= Calls[g[1]].n) <=> g[2] <= held[g[1]]
    <3>1. g[1] \in Callers /\ g[2] \in Nat /\ g[2] > 0
      BY CapacityAssumption
    <3>2. CASE pc[g[1]] = "holding"
      <4>1. Calls[g[1]] = [st |-> "holds", n |-> held[g[1]]]
        BY <3>1, <3>2, View DEF InCall
      <4>. QED
        BY <4>1
    <3>3. CASE pc[g[1]] # "holding"
      <4>1. Calls[g[1]].st # "holds"
        BY <3>1, <3>3, View DEF InCall
      <4>2. held[g[1]] = 0
        BY <3>1, <3>3 DEF IInv, HeldWhileHolding
      <4>. QED
        BY <3>1, <4>1, <4>2
    <3>. QED
      BY <3>2, <3>3
  <2>. QED
    BY <2>1 DEF Interface!PermitsOut, Permits
<1>2. Interface!Cardinality(Permits(held)) = Cardinality(Permits(held))
  BY DEF Interface!Cardinality, Cardinality
<1>. QED
  BY <1>1, <1>2 DEF IInv, PermitsConserved, Room, Interface!Fits

LEMMA CallAcquireIsAsk ==
    ASSUME IInv, NEW c \in Callers, NEW n \in 0..(Capacity + 1), CallAcquire(c, n)
    PROVE  Interface!Next
<1>1. n \in 1..Capacity
  BY CapacityAssumption DEF CallAcquire
<1>2. Calls[c] = [st |-> "out", n |-> 0]
  BY View DEF CallAcquire, InCall
<1>3. Becomes(c, "asks", n)
  BY View DEF CallAcquire, InCall, Becomes, IInv, TypeOK
<1>4. Interface!Ask(c, n)
  BY <1>1, <1>2, <1>3 DEF CallAcquire, Becomes, Interface!Ask, Interface!Out, Interface!Become
<1>. QED
  BY <1>1, <1>4 DEF CallAcquire, Interface!Use, Interface!Next

LEMMA TryAcquireIsTake ==
    ASSUME IInv, NEW c \in Callers, NEW n \in 0..(Capacity + 1), TryAcquire(c, n)
    PROVE  Interface!Next
<1>1. n \in 1..Capacity
  BY CapacityAssumption DEF TryAcquire
<1>2. Calls[c] = [st |-> "out", n |-> 0]
  BY View DEF TryAcquire, InCall
<1>3. Becomes(c, "holds", n)
  BY View DEF TryAcquire, InCall, Becomes, IInv, TypeOK
<1>4. Interface!Fits(n)
  BY <1>1, FitsIsRoom, CapacityAssumption DEF TryAcquire
<1>5. Interface!Take(c, n)
  BY <1>1, <1>2, <1>3, <1>4 DEF Becomes, Interface!Take, Interface!Out, Interface!Become
<1>. QED
  BY <1>1, <1>5 DEF TryAcquire, Interface!Use, Interface!Next

(* The turn of the loop grants, refuses, or is hidden.                       *)
LEMMA CheckIsGrant ==
    ASSUME IInv, NEW c \in Callers, Check(c)
    PROVE  Interface!Next \/ (Calls' = Calls /\ cancelled' = cancelled)
<1>. DEFINE asks == [st |-> "asks", n |-> want[c]]
<1>1. Calls[c] = asks /\ want[c] \in Nat /\ pc \in [Callers -> PCs]
  BY View DEF Check, InCall, IInv, TypeOK
<1>2. cancelled' = cancelled
  BY DEF Check
<1>3. CASE Room(want[c])
  <2>1. Becomes(c, "holds", want[c])
    BY <1>1, <1>3, View DEF Check, Grant, InCall, Becomes, IInv, TypeOK
  <2>2. Interface!Fits(want[c])
    BY <1>1, <1>3, FitsIsRoom
  <2>3. Interface!Grant(c)
    BY <1>1, <2>1, <2>2 DEF Becomes, Interface!Grant, Interface!Become
  <2>. QED
    BY <1>2, <2>3 DEF Interface!Use, Interface!Next
<1>4. CASE ~Room(want[c]) /\ c \in cancelled
  <2>1. Becomes(c, "out", 0)
    BY <1>1, <1>4, View DEF Check, Return, InCall, Becomes, IInv, TypeOK
  <2>2. Interface!Refuse(c)
    BY <1>1, <1>4, <2>1 DEF Becomes, Interface!Refuse, Interface!Become
  <2>. QED
    BY <1>2, <2>2 DEF Interface!Use, Interface!Next
<1>5. CASE ~Room(want[c]) /\ c \notin cancelled
  BY <1>1, <1>2, <1>5, SameView DEF Check, InCall
<1>. QED
  BY <1>3, <1>4, <1>5

LEMMA ReleaseIsGiveBack ==
    ASSUME IInv, NEW c \in Callers, Release(c)
    PROVE  Interface!Next \/ (Calls' = Calls /\ cancelled' = cancelled)
<1>1. pc \in [Callers -> PCs] /\ cancelled' = cancelled
  BY DEF Release, IInv, TypeOK
<1>2. CASE inFlight < held[c]
  BY <1>1, <1>2, SameView DEF Release, InCall
<1>3. CASE ~(inFlight < held[c])
  <2>1. Calls[c].st = "holds"
    BY View DEF Release, InCall
  <2>2. Becomes(c, "out", 0)
    BY <1>3, View DEF Release, InCall, Becomes, IInv, TypeOK
  <2>3. Interface!GiveBack(c)
    BY <2>1, <2>2 DEF Becomes, Interface!GiveBack, Interface!Become
  <2>. QED
    BY <1>1, <2>3 DEF Interface!Use, Interface!Next
<1>. QED
  BY <1>2, <1>3

(* The lock, the wait list, the watchers and the broadcasts are hidden.      *)
LEMMA HiddenSteps ==
    ASSUME IInv, NEW c \in Callers,
           Lock(c) \/ Enlist(c) \/ WatcherFires(c) \/ WatcherEnds(c) \/ Broadcast(c)
    PROVE  Calls' = Calls /\ cancelled' = cancelled
<1>1. pc \in [Callers -> PCs]
  BY DEF IInv, TypeOK
<1>2. UNCHANGED <<want, held, cancelled>>
  BY DEF Lock, Enlist, WatcherFires, WatcherEnds, Broadcast
<1>3. \A d \in Callers : /\ InCall(d)' = InCall(d)
                         /\ (pc'[d] = "holding") = (pc[d] = "holding")
  <2>1. CASE Lock(c)
    BY <1>1, <2>1 DEF Lock, InCall
  <2>2. CASE Enlist(c)
    BY <1>1, <2>2 DEF Enlist, InCall
  <2>3. CASE WatcherFires(c)
    BY <1>1, <2>3 DEF WatcherFires, Awake, InCall
  <2>4. CASE WatcherEnds(c)
    BY <1>1, <2>4 DEF WatcherEnds, InCall
  <2>5. CASE Broadcast(c)
    BY <1>1, <2>5 DEF Broadcast, Awake, InCall
  <2>. QED
    BY <2>1, <2>2, <2>3, <2>4, <2>5
<1>. QED
  BY <1>2, <1>3, SameView

LEMMA CancelIsCancel ==
    ASSUME IInv, NEW c \in Callers, Cancel(c)
    PROVE  Interface!Next
<1>1. Calls' = Calls
  BY SameView DEF Cancel, InCall
<1>. QED
  BY <1>1 DEF Cancel, Interface!Cancel, Interface!Next

(* The counting semaphore with its mutex, condition variable and watchers    *)
(* implements the Limiter interface, for any number of goroutines and any    *)
(* capacity: a grant is one atomic step that finds room for all of n, only a *)
(* cancelled call is turned away, and only its own ReleaseN takes a          *)
(* goroutine's permits.                                                      *)
THEOREM SemaphoreImplementsLimiter == Spec => ImplementsLimiter
<1>1. Init => Interface!Init
  <2> SUFFICES ASSUME Init PROVE Interface!Init
    OBVIOUS
  <2>. QED
    BY View DEF Init, InCall, Interface!Init, Interface!Out
<1>2. IInv /\ [Next]_vars => [Interface!Next]_(Interface!limiterVars)
  <2> SUFFICES ASSUME IInv, [Next]_vars
               PROVE  Interface!Next \/ (Calls' = Calls /\ cancelled' = cancelled)
    BY DEF Interface!limiterVars
  <2>1. CASE UNCHANGED vars
    BY <2>1, SameView DEF vars, InCall
  <2>2. ASSUME NEW c \in Callers, NEW n \in 0..(Capacity + 1),
               CallAcquire(c, n) \/ TryAcquire(c, n)
        PROVE  Interface!Next
    BY <2>2, CallAcquireIsAsk, TryAcquireIsTake
  <2>3. ASSUME NEW c \in Callers, AcquireStep(c) \/ WatcherStep(c) \/ ReleaseStep(c)
        PROVE  Interface!Next \/ (Calls' = Calls /\ cancelled' = cancelled)
    BY <2>3, HiddenSteps, CheckIsGrant, ReleaseIsGiveBack
       DEF AcquireStep, WatcherStep, ReleaseStep
  <2>4. ASSUME NEW c \in Callers, Cancel(c) PROVE Interface!Next
    BY <2>4, CancelIsCancel
  <2>. QED
    BY <2>1, <2>2, <2>3, <2>4 DEF Next
<1>. QED
  BY <1>1, <1>2, Inductive, PTL DEF Spec, ImplementsLimiter, Interface!Spec

-----------------------------------------------------------------------------
(* The limiter's client: groups of goroutines *)

Holders == {t \in Tasks : GroupOf[t] \in limited /\ at[t] \in {"running", "returned"}}

(* The limiter's account of a task follows from where the task is.         *)
CallFollows ==
    call = [t \in Tasks |-> IF at[t] = "asking" THEN [st |-> "asks", n |-> 1]
                            ELSE IF t \in Holders THEN [st |-> "holds", n |-> 1]
                            ELSE L!Out]

(* Whoever is blocked in Go has not gone on: the caller has not come to    *)
(* Wait, a task is still running in the same group.                        *)
AskedBy ==
    \A u \in Tasks :
       /\ at[u] # "asking" => by[u] = None
       /\ at[u] = "asking" =>
            /\ GroupOf[u] \in limited
            /\ \/ by[u] = Main /\ main[GroupOf[u]] = "go"
               \/ by[u] \in Tasks /\ at[by[u]] = "running" /\ GroupOf[by[u]] = GroupOf[u]

GroupIInv ==
    /\ GroupTypes
    /\ wg \in [Groups -> Nat]
    /\ CallFollows
    /\ AskedBy
    /\ Cardinality(Holders) <= Limit
    /\ WaitCovers
    /\ RefusedIsTold

(* Counting means the same in the limiter's module and here.               *)
LEMMA SameCounting == \A S : L!Cardinality(S) = Cardinality(S)
BY DEF L!Cardinality, Cardinality

(* The tasks of a group, the running ones and the holders are finite sets. *)
LEMMA TasksFinite ==
    /\ \A g : IsFiniteSet(Goroutines(g)) /\ Cardinality(Goroutines(g)) \in Nat
    /\ IsFiniteSet(Holders) /\ Cardinality(Holders) \in Nat
<1>1. Holders \in SUBSET Tasks /\ \A g : Goroutines(g) \in SUBSET Tasks
  BY DEF Holders, Goroutines
<1>. QED
  BY <1>1, FS_Subset, FS_CardinalityType, ErrGroupAssumption

(* A task that changes its place without entering or leaving the running   *)
(* ones leaves the counts alone.                                           *)
LEMMA CountKept ==
    ASSUME GroupTypes, NEW t \in Tasks, NEW s,
           Set(t, s), UNCHANGED wg,
           at[t] \in {"running", "returned", "released"} <=>
             s \in {"running", "returned", "released"}
    PROVE  \A g \in Groups : wg'[g] = Cardinality(Goroutines(g)')
<1>1. \A g \in Groups : Goroutines(g)' = Goroutines(g)
  BY DEF Goroutines, Set, GroupTypes, States
<1>. QED
  BY <1>1 DEF GroupTypes

(* wg.Add(1) with a new goroutine keeps the count exact.                   *)
LEMMA CountSpawned ==
    ASSUME GroupTypes, wg \in [Groups -> Nat], NEW t \in Tasks,
           Spawn(t), at[t] \in {"new", "asking"}
    PROVE  /\ wg' \in [Groups -> Nat]
           /\ \A g \in Groups : wg'[g] = Cardinality(Goroutines(g)')
<1>1. GroupOf[t] \in Groups
  BY ErrGroupAssumption
<1>2. wg' \in [Groups -> Nat]
  BY <1>1 DEF Spawn
<1>3. ASSUME NEW g \in Groups
      PROVE  wg'[g] = Cardinality(Goroutines(g)')
  <2>1. CASE g = GroupOf[t]
    <3>1. Goroutines(g)' = Goroutines(g) \cup {t}
      BY <2>1 DEF Goroutines, Spawn, Set, GroupTypes
    <3>2. t \notin Goroutines(g)
      BY DEF Goroutines
    <3>3. Cardinality(Goroutines(g)') = Cardinality(Goroutines(g)) + 1
      BY <3>1, <3>2, TasksFinite, FS_AddElement
    <3>. QED
      BY <2>1, <3>3 DEF GroupTypes, Spawn
  <2>2. CASE g # GroupOf[t]
    <3>1. Goroutines(g)' = Goroutines(g)
      BY <2>2 DEF Goroutines, Spawn, Set, GroupTypes
    <3>. QED
      BY <2>2, <3>1 DEF GroupTypes, Spawn
  <2>. QED
    BY <2>1, <2>2
<1>. QED
  BY <1>2, <1>3

(* So does wg.Done, which never takes the count below zero.                *)
LEMMA CountDone ==
    ASSUME GroupTypes, wg \in [Groups -> Nat], NEW t \in Tasks,
           Done(t)
    PROVE  /\ wg' \in [Groups -> Nat]
           /\ \A g \in Groups : wg'[g] = Cardinality(Goroutines(g)')
<1>1. GroupOf[t] \in Groups
  BY ErrGroupAssumption
<1>2. ASSUME NEW g \in Groups
      PROVE  wg'[g] = Cardinality(Goroutines(g)') /\ Cardinality(Goroutines(g)') \in Nat
  <2>1. CASE g = GroupOf[t]
    <3>1. Goroutines(g)' = Goroutines(g) \ {t}
      BY <2>1 DEF Goroutines, Done, Set, GroupTypes
    <3>2. t \in Goroutines(g)
      BY <2>1 DEF Goroutines, Done
    <3>3. /\ Cardinality(Goroutines(g)') = Cardinality(Goroutines(g)) - 1
          /\ IsFiniteSet(Goroutines(g)')
      BY <3>1, <3>2, TasksFinite, FS_RemoveElement
    <3>4. Cardinality(Goroutines(g)') \in Nat
      BY <3>3, FS_CardinalityType
    <3>. QED
      BY <2>1, <3>3, <3>4 DEF GroupTypes, Done
  <2>2. CASE g # GroupOf[t]
    <3>1. Goroutines(g)' = Goroutines(g)
      BY <2>2 DEF Goroutines, Done, Set, GroupTypes
    <3>. QED
      BY <2>2, <3>1, TasksFinite DEF GroupTypes, Done
  <2>. QED
    BY <2>1, <2>2
<1>3. DOMAIN wg' = Groups /\ wg' = [g \in Groups |-> wg'[g]]
  BY DEF Done
<1>. QED
  BY <1>2, <1>3

(* Each holder has one permit, so there is room for one more exactly when  *)
(* the holders are fewer than the permits.                                 *)
LEMMA FitsCounts ==
    ASSUME CallFollows
    PROVE  L!Fits(1) <=> Cardinality(Holders) + 1 <= Limit
<1>1. L!PermitsOut = Holders \X {1}
  <2>1. 1 \in 1..Limit
    BY ErrGroupAssumption
  <2>2. ASSUME NEW p \in Tasks \X (1..Limit)
        PROVE  call[p[1]].st = "holds" /\ p[2] <= call[p[1]].n <=> p \in Holders \X {1}
    <3>1. p[1] \in Tasks /\ p[2] \in 1..Limit /\ p = <<p[1], p[2]>>
      OBVIOUS
    <3>2. CASE p[1] \in Holders
      <4>1. call[p[1]] = [st |-> "holds", n |-> 1]
        BY <3>1, <3>2 DEF CallFollows, Holders
      <4>. QED
        BY <3>1, <3>2, <4>1, ErrGroupAssumption
    <3>3. CASE p[1] \notin Holders
      <4>1. call[p[1]].st # "holds"
        BY <3>1, <3>3 DEF CallFollows, L!Out
      <4>. QED
        BY <3>1, <3>3, <4>1
    <3>. QED
      BY <3>2, <3>3
  <2>3. Holders \X {1} \subseteq Tasks \X (1..Limit)
    BY <2>1 DEF Holders
  <2>. QED
    BY <2>2, <2>3 DEF L!PermitsOut
<1>2. Cardinality(Holders \X {1}) = Cardinality(Holders) * 1
  <2>1. IsFiniteSet({1}) /\ Cardinality({1}) = 1
    BY FS_Singleton
  <2>2. Cardinality(Holders \X {1}) = Cardinality(Holders) * Cardinality({1})
    BY <2>1, TasksFinite, FS_Product
  <2>. QED
    BY <2>1, <2>2
<1>. QED
  BY <1>1, <1>2, SameCounting, TasksFinite, ErrGroupAssumption DEF L!Fits

(* A task that moves with its call to match keeps the accounts matched.    *)
LEMMA CallMoves ==
    ASSUME GroupTypes, CallFollows, NEW t \in Tasks, NEW s \in States,
           Set(t, s), UNCHANGED limited,
           DOMAIN call' = Tasks, call' = [u \in Tasks |-> call'[u]],
           \A u \in Tasks \ {t} : call'[u] = call[u],
           s = "asking" => call'[t] = [st |-> "asks", n |-> 1],
           s \in {"running", "returned"} /\ GroupOf[t] \in limited =>
             call'[t] = [st |-> "holds", n |-> 1],
           s # "asking" /\ ~(s \in {"running", "returned"} /\ GroupOf[t] \in limited) =>
             call'[t] = L!Out
    PROVE  CallFollows'
<1> DEFINE Of(a, u) == IF a[u] = "asking" THEN [st |-> "asks", n |-> 1]
                       ELSE IF GroupOf[u] \in limited /\ a[u] \in {"running", "returned"}
                       THEN [st |-> "holds", n |-> 1] ELSE L!Out
<1>1. at' = [at EXCEPT ![t] = s] /\ at \in [Tasks -> States]
  BY DEF Set, GroupTypes
<1>2. \A u \in Tasks : call[u] = Of(at, u)
  BY DEF CallFollows, Holders
<1>3. \A u \in Tasks : call'[u] = Of(at', u)
  <2>1. call'[t] = Of(at', t)
    BY <1>1
  <2>2. ASSUME NEW u \in Tasks \ {t} PROVE call'[u] = Of(at', u)
    BY <1>1, <1>2
  <2>. QED
    BY <2>1, <2>2
<1>4. CallFollows' <=> call' = [u \in Tasks |-> Of(at', u)]
  BY DEF CallFollows, Holders, L!Out
<1>. QED
  BY <1>3, <1>4

(* What the limiter says of a task, by where the task is.                  *)
LEMMA CallOf ==
    ASSUME CallFollows, NEW t \in Tasks
    PROVE  /\ call = [u \in Tasks |-> call[u]] /\ DOMAIN call = Tasks
           /\ at[t] = "asking" => call[t] = [st |-> "asks", n |-> 1]
           /\ t \in Holders => call[t] = [st |-> "holds", n |-> 1]
           /\ at[t] # "asking" /\ t \notin Holders => call[t] = L!Out
           /\ call[t].st = "holds" <=> t \in Holders
BY DEF CallFollows, Holders, L!Out

(* The invariant gives both properties.                                    *)
LEMMA GroupIInvImplies == GroupIInv => LimitKept /\ WaitTells
<1>1. ASSUME GroupIInv PROVE WithinLimit
  <2>1. \A t \in Tasks : call[t].st = "holds" <=> t \in Holders
    BY <1>1, CallOf DEF GroupIInv
  <2>2. Cardinality(Holders) <= Limit
    BY <1>1 DEF GroupIInv
  <2>. QED
    BY <2>1, <2>2 DEF WithinLimit, Holders
<1>. QED
  BY <1>1 DEF GroupIInv, LimitKept, WaitTells

LEMMA GroupInitIInv ==
    ASSUME GroupInit
    PROVE  GroupIInv
<1>. USE ErrGroupAssumption DEF GroupInit
<1>1. \A g : Goroutines(g) = {}
  BY DEF Goroutines
<1>2. Holders = {}
  BY DEF Holders
<1>3. GroupTypes /\ wg \in [Groups -> Nat]
  BY <1>1, FS_EmptySet DEF GroupTypes, States
<1>4. CallFollows
  BY <1>2 DEF CallFollows
<1>5. AskedBy
  BY DEF AskedBy
<1>6. Cardinality(Holders) <= Limit
  BY <1>2, FS_EmptySet
<1>7. WaitCovers /\ RefusedIsTold
  BY DEF WaitCovers, RefusedIsTold
<1>. QED
  BY <1>3, <1>4, <1>5, <1>6, <1>7 DEF GroupIInv

(* A start by Go or TryGo comes from a caller that is not blocked, before  *)
(* the group's Wait.                                                       *)
LEMMA StartsBeforeWait ==
    ASSUME GroupIInv, NEW t \in Tasks, NEW c \in Tasks \cup {Main},
           Starts(c, t)
    PROVE  main[GroupOf[t]] # "waited"
BY ErrGroupAssumption DEF GroupIInv, Starts, WaitCovers, GroupTypes

(* A new goroutine: the counts, the accounts and the rest.                 *)
LEMMA SpawnStep ==
    ASSUME GroupIInv, NEW t \in Tasks,
           Spawn(t), at[t] \in {"new", "asking"}, main[GroupOf[t]] # "waited",
           \/ GroupOf[t] \notin limited /\ UNCHANGED call
           \/ /\ GroupOf[t] \in limited /\ L!Fits(1)
              /\ call' = [call EXCEPT ![t] = [st |-> "holds", n |-> 1]],
           \/ at[t] = "new" /\ UNCHANGED by
           \/ Caller(None, t),
           UNCHANGED <<limited, err, ctx, main>>
    PROVE  GroupIInv'
<1>. USE ErrGroupAssumption
<1>0. /\ GroupOf[t] \in Groups
      /\ at' = [at EXCEPT ![t] = "running"] /\ at \in [Tasks -> States]
      /\ at' \in [Tasks -> States]
      /\ t \notin Holders
      /\ UNCHANGED <<limited, err, ctx, main>>
  BY DEF GroupIInv, GroupTypes, Spawn, Set, States, Holders
<1>1. wg' \in [Groups -> Nat] /\ \A g \in Groups : wg'[g] = Cardinality(Goroutines(g)')
  BY CountSpawned DEF GroupIInv
<1>2. by' \in [Tasks -> Tasks \cup {Main, None}]
      /\ by'[t] = None /\ \A u \in Tasks \ {t} : by'[u] = by[u]
  BY DEF Caller, GroupIInv, GroupTypes, AskedBy
<1>3. GroupTypes'
  BY <1>0, <1>1, <1>2 DEF GroupIInv, GroupTypes
<1>4. CallFollows'
  <2>1. GroupOf[t] \notin limited => at[t] # "asking"
    BY DEF GroupIInv, AskedBy
  <2>2. DOMAIN call = Tasks /\ call = [u \in Tasks |-> call[u]]
    BY CallOf DEF GroupIInv
  <2>3. GroupOf[t] \notin limited => call[t] = L!Out
    BY <2>1, <1>0, CallOf DEF GroupIInv
  <2>. QED
    BY <1>0, <2>2, <2>3, CallMoves DEF GroupIInv, States, Spawn
<1>5. AskedBy'
  BY <1>0, <1>2 DEF GroupIInv, AskedBy, States
<1>6. Cardinality(Holders') <= Limit
  <2>1. CASE GroupOf[t] \notin limited
    <3>1. Holders' = Holders
      BY <2>1, <1>0 DEF Holders
    <3>. QED
      BY <3>1 DEF GroupIInv
  <2>2. CASE L!Fits(1)
    <3>1. Holders' \subseteq Holders \cup {t}
      BY <1>0 DEF Holders
    <3>2. /\ Cardinality(Holders \cup {t}) = Cardinality(Holders) + 1
          /\ IsFiniteSet(Holders \cup {t})
      BY <1>0, TasksFinite, FS_AddElement
    <3>3. Cardinality(Holders') <= Cardinality(Holders \cup {t}) /\ Cardinality(Holders') \in Nat
      BY <3>1, <3>2, FS_Subset, FS_CardinalityType
    <3>. QED
      BY <2>2, <3>2, <3>3, FitsCounts, TasksFinite DEF GroupIInv
  <2>. QED
    BY <2>1, <2>2
<1>7. WaitCovers'
  BY <1>0 DEF GroupIInv, WaitCovers
<1>8. RefusedIsTold'
  BY <1>0 DEF GroupIInv, RefusedIsTold
<1>. QED
  BY <1>1, <1>3, <1>4, <1>5, <1>6, <1>7, <1>8 DEF GroupIInv

(* errOnce: the group has an error afterwards, t's or an earlier one.      *)
LEMMA RecordErrKeeps ==
    ASSUME GroupTypes, NEW t \in Tasks, RecordErr(t)
    PROVE  /\ err' \in [Groups -> Tasks \cup {None}] /\ ctx' \subseteq Groups
           /\ err'[GroupOf[t]] # None
           /\ \A g \in Groups : err'[g] = err[g] \/ (g = GroupOf[t] /\ err'[g] = t)
           /\ \A g \in Groups : err[g] # None => err'[g] = err[g]
BY ErrGroupAssumption DEF GroupTypes, RecordErr

(* A task that is turned away, at once or after it has waited.             *)
LEMMA RefusedStep ==
    ASSUME GroupIInv, NEW t \in Tasks, at[t] \in {"new", "asking"},
           RecordErr(t), Set(t, "refused"),
           by' = [by EXCEPT ![t] = None],
           DOMAIN call' = Tasks, call' = [u \in Tasks |-> call'[u]],
           \A u \in Tasks \ {t} : call'[u] = call[u], call'[t] = L!Out,
           UNCHANGED <<limited, wg, main>>
    PROVE  GroupIInv'
<1>. USE ErrGroupAssumption
<1>1. /\ at' = [at EXCEPT ![t] = "refused"] /\ at \in [Tasks -> States]
      /\ at' \in [Tasks -> States]
      /\ by' \in [Tasks -> Tasks \cup {Main, None}]
  BY DEF GroupIInv, GroupTypes, Set, States
<1>2. GroupTypes'
  <2>1. \A g \in Groups : wg'[g] = Cardinality(Goroutines(g)')
    BY CountKept DEF GroupIInv
  <2>. QED
    BY <1>1, <2>1, RecordErrKeeps DEF GroupIInv, GroupTypes
<1>3. CallFollows'
  <2>1. "refused" \in States
    BY DEF States
  <2>. QED
    BY <2>1, CallMoves DEF GroupIInv
<1>4. AskedBy'
  BY <1>1 DEF GroupIInv, AskedBy, GroupTypes
<1>5. Holders' = Holders
  BY <1>1 DEF Holders
<1>6. WaitCovers'
  BY <1>1 DEF GroupIInv, WaitCovers
<1>7. RefusedIsTold'
  <2>1. \A u \in Tasks : GroupOf[u] \in Groups
    OBVIOUS
  <2>2. ASSUME NEW u \in Tasks
        PROVE  /\ at'[u] = "refused" => err'[GroupOf[u]] # None
               /\ err'[GroupOf[u]] = u => at'[u] \in {"returned", "released", "done", "refused"}
    BY <1>1, <2>1, RecordErrKeeps DEF GroupIInv, RefusedIsTold
  <2>. QED
    BY <2>2 DEF RefusedIsTold
<1>. QED
  BY <1>2, <1>3, <1>4, <1>5, <1>6, <1>7 DEF GroupIInv

(* Go blocks in the limiter, or is turned away and tells.                  *)
LEMMA GoAskStep ==
    ASSUME GroupIInv, NEW t \in Tasks, NEW c \in Tasks \cup {Main},
           GoAsk(c, t)
    PROVE  GroupIInv'
<1>. USE ErrGroupAssumption
<1>0. /\ GroupOf[t] \in Groups /\ at[t] = "new" /\ GroupOf[t] \in limited
      /\ at \in [Tasks -> States] /\ err \in [Groups -> Tasks \cup {None}]
      /\ by \in [Tasks -> Tasks \cup {Main, None}]
      /\ UNCHANGED <<limited, wg, main>>
  BY DEF GroupIInv, GroupTypes, GoAsk
<1>1. DOMAIN call = Tasks /\ call = [u \in Tasks |-> call[u]] /\ call[t] = L!Out
  BY <1>0, CallOf DEF GroupIInv, Holders
<1>2. CASE L!Ask(t, 1) /\ Set(t, "asking") /\ Caller(c, t) /\ UNCHANGED <<err, ctx>>
  <2>1. at' = [at EXCEPT ![t] = "asking"] /\ at' \in [Tasks -> States]
    BY <1>0, <1>2 DEF Set, States
  <2>2. by' = [by EXCEPT ![t] = c] /\ by' \in [Tasks -> Tasks \cup {Main, None}]
    BY <1>0, <1>2 DEF Caller
  <2>3. GroupTypes'
    <3>1. \A g \in Groups : wg'[g] = Cardinality(Goroutines(g)')
      BY <1>0, <1>2, CountKept DEF GroupIInv
    <3>. QED
      BY <1>0, <1>2, <2>1, <2>2, <3>1 DEF GroupIInv, GroupTypes
  <2>4. CallFollows'
    <3>1. call' = [call EXCEPT ![t] = [st |-> "asks", n |-> 1]]
      BY <1>2 DEF L!Ask, L!Become
    <3>2. "asking" \in States
      BY DEF States
    <3>. QED
      BY <1>0, <1>1, <1>2, <3>1, <3>2, CallMoves DEF GroupIInv
  <2>5. AskedBy'
    <3>1. \A u \in Tasks : at[u] = "asking" => u # t
      BY <1>0
    <3>2. Starts(c, t)
      BY DEF GoAsk
    <3>3. \/ c = Main /\ main[GroupOf[t]] = "go"
          \/ c \in Tasks /\ at[c] = "running" /\ GroupOf[c] = GroupOf[t]
      BY <3>2 DEF Starts
    <3>4. ASSUME NEW u \in Tasks, at'[u] = "asking"
          PROVE  /\ GroupOf[u] \in limited'
                 /\ \/ by'[u] = Main /\ main'[GroupOf[u]] = "go"
                    \/ by'[u] \in Tasks /\ at'[by'[u]] = "running" /\ GroupOf[by'[u]] = GroupOf[u]
      <4>1. CASE u = t
        BY <4>1, <1>0, <2>1, <2>2, <3>3
      <4>2. CASE u # t
        BY <3>4, <4>2, <1>0, <2>1, <2>2 DEF GroupIInv, AskedBy
      <4>. QED
        BY <4>1, <4>2
    <3>. QED
      BY <3>4, <1>0, <2>1, <2>2 DEF GroupIInv, AskedBy
  <2>6. Holders' = Holders
    BY <1>0, <2>1 DEF Holders
  <2>7. WaitCovers'
    BY <1>0, <2>1, StartsBeforeWait DEF GroupIInv, WaitCovers, GoAsk
  <2>8. RefusedIsTold'
    BY <1>0, <1>2, <2>1 DEF GroupIInv, RefusedIsTold
  <2>. QED
    BY <1>0, <2>3, <2>4, <2>5, <2>6, <2>7, <2>8 DEF GroupIInv
<1>3. CASE /\ GroupOf[t] \in ctx /\ RecordErr(t) /\ Set(t, "refused")
           /\ UNCHANGED <<call, by>>
  BY <1>0, <1>1, <1>3, RefusedStep DEF GroupIInv, AskedBy
<1>. QED
  BY <1>2, <1>3 DEF GoAsk

(* The function ends; the goroutine holds its permit still.                *)
LEMMA ReturnStep ==
    ASSUME GroupIInv, NEW t \in Tasks, FnReturns(t)
    PROVE  GroupIInv'
<1>. USE ErrGroupAssumption
<1>1. /\ at[t] = "running" /\ at' = [at EXCEPT ![t] = "returned"]
      /\ at \in [Tasks -> States] /\ at' \in [Tasks -> States]
      /\ UNCHANGED <<limited, by, wg, main, call>>
      /\ Set(t, "returned")
  BY DEF GroupIInv, GroupTypes, FnReturns, Set, States
<1>2. /\ err' \in [Groups -> Tasks \cup {None}] /\ ctx' \subseteq Groups
      /\ \A g \in Groups : err'[g] = err[g] \/ (g = GroupOf[t] /\ err'[g] = t)
      /\ \A g \in Groups : err[g] # None => err'[g] = err[g]
  BY RecordErrKeeps DEF FnReturns, GroupIInv, GroupTypes
<1>3. GroupTypes'
  <2>1. \A g \in Groups : wg'[g] = Cardinality(Goroutines(g)')
    BY <1>1, CountKept DEF GroupIInv
  <2>. QED
    BY <1>1, <1>2, <2>1 DEF GroupIInv, GroupTypes
<1>4. CallFollows' /\ Holders' = Holders
  <2>1. "returned" \in States /\ Holders' = Holders
    BY <1>1 DEF States, Holders
  <2>2. DOMAIN call = Tasks /\ call = [u \in Tasks |-> call[u]]
    BY CallOf DEF GroupIInv
  <2>3. /\ GroupOf[t] \in limited => call[t] = [st |-> "holds", n |-> 1]
        /\ GroupOf[t] \notin limited => call[t] = L!Out
    BY <1>1, CallOf DEF GroupIInv, Holders
  <2>. QED
    BY <1>1, <2>1, <2>2, <2>3, CallMoves DEF GroupIInv
<1>5. AskedBy'
  <2>1. \A u \in Tasks : by[u] # t
    BY DEF FnReturns, Blocked
  <2>. QED
    BY <1>1, <2>1 DEF GroupIInv, AskedBy
<1>6. WaitCovers'
  BY <1>1 DEF GroupIInv, WaitCovers
<1>7. RefusedIsTold'
  <2>1. ASSUME NEW u \in Tasks
        PROVE  /\ at'[u] = "refused" => err'[GroupOf[u]] # None
               /\ err'[GroupOf[u]] = u => at'[u] \in {"returned", "released", "done", "refused"}
    BY <1>1, <1>2 DEF GroupIInv, RefusedIsTold
  <2>. QED
    BY <2>1 DEF RefusedIsTold
<1>. QED
  BY <1>1, <1>3, <1>4, <1>5, <1>6, <1>7 DEF GroupIInv

(* The deferred release gives the permit back, if there is a limiter.      *)
LEMMA ReleaseGroupStep ==
    ASSUME GroupIInv, NEW t \in Tasks, ReleasePermit(t)
    PROVE  GroupIInv'
<1>. USE ErrGroupAssumption
<1>1. /\ at[t] = "returned" /\ at' = [at EXCEPT ![t] = "released"]
      /\ at \in [Tasks -> States] /\ at' \in [Tasks -> States]
      /\ UNCHANGED <<limited, by, wg, err, ctx, main>>
      /\ Set(t, "released")
  BY DEF GroupIInv, GroupTypes, ReleasePermit, Set, States
<1>2. GroupTypes'
  <2>1. \A g \in Groups : wg'[g] = Cardinality(Goroutines(g)')
    BY <1>1, CountKept DEF GroupIInv
  <2>. QED
    BY <1>1, <2>1 DEF GroupIInv, GroupTypes
<1>3. CallFollows'
  <2>1. DOMAIN call = Tasks /\ call = [u \in Tasks |-> call[u]]
        /\ (GroupOf[t] \notin limited => call[t] = L!Out)
    BY <1>1, CallOf DEF GroupIInv, Holders
  <2>2. IF GroupOf[t] \in limited THEN call' = [call EXCEPT ![t] = L!Out]
        ELSE call' = call
    BY DEF ReleasePermit, L!GiveBack, L!Become, L!Out
  <2>3. "released" \in States
    BY DEF States
  <2>. QED
    BY <1>1, <2>1, <2>2, <2>3, CallMoves DEF GroupIInv
<1>4. Cardinality(Holders') <= Limit
  <2>1. Holders' \in SUBSET Holders
    BY <1>1 DEF Holders
  <2>2. IsFiniteSet(Holders') /\ Cardinality(Holders') <= Cardinality(Holders)
    BY <2>1, TasksFinite, FS_Subset
  <2>. QED
    BY <2>2, TasksFinite, FS_CardinalityType DEF GroupIInv
<1>5. AskedBy'
  BY <1>1 DEF GroupIInv, AskedBy
<1>6. WaitCovers' /\ RefusedIsTold'
  BY <1>1 DEF GroupIInv, WaitCovers, RefusedIsTold
<1>. QED
  BY <1>1, <1>2, <1>3, <1>4, <1>5, <1>6 DEF GroupIInv

(* The deferred Done.                                                      *)
LEMMA DoneStep ==
    ASSUME GroupIInv, NEW t \in Tasks, Done(t)
    PROVE  GroupIInv'
<1>. USE ErrGroupAssumption
<1>1. /\ at[t] = "released" /\ at' = [at EXCEPT ![t] = "done"]
      /\ at \in [Tasks -> States] /\ at' \in [Tasks -> States]
      /\ UNCHANGED <<limited, by, err, ctx, main, call>>
      /\ Set(t, "done")
  BY DEF GroupIInv, GroupTypes, Done, Set, States
<1>2. wg' \in [Groups -> Nat] /\ \A g \in Groups : wg'[g] = Cardinality(Goroutines(g)')
  BY CountDone DEF GroupIInv
<1>3. GroupTypes'
  BY <1>1, <1>2 DEF GroupIInv, GroupTypes
<1>4. CallFollows' /\ Holders' = Holders
  <2>1. DOMAIN call = Tasks /\ call = [u \in Tasks |-> call[u]] /\ call[t] = L!Out
    BY <1>1, CallOf DEF GroupIInv, Holders
  <2>2. "done" \in States /\ Holders' = Holders
    BY <1>1 DEF States, Holders
  <2>. QED
    BY <1>1, <2>1, <2>2, CallMoves DEF GroupIInv
<1>5. AskedBy'
  BY <1>1 DEF GroupIInv, AskedBy
<1>6. WaitCovers' /\ RefusedIsTold'
  BY <1>1 DEF GroupIInv, WaitCovers, RefusedIsTold
<1>. QED
  BY <1>2, <1>3, <1>4, <1>5, <1>6 DEF GroupIInv

(* Wait returns when the count is zero: then no task of the group runs and *)
(* none is being asked for, as whoever asks is itself running.             *)
LEMMA WaitReturnStep ==
    ASSUME GroupIInv, NEW g \in Groups, WaitReturn(g)
    PROVE  GroupIInv'
<1>. USE ErrGroupAssumption
<1>1. /\ main[g] = "wait" /\ wg[g] = 0 /\ main' = [main EXCEPT ![g] = "waited"]
      /\ ctx' = ctx \cup {g}
      /\ UNCHANGED <<limited, at, by, wg, err, call>>
  BY DEF WaitReturn
<1>2. Goroutines(g) = {}
  BY <1>1, TasksFinite, FS_EmptySet DEF GroupTypes, GroupIInv
<1>3. \A t \in Tasks : GroupOf[t] = g => at[t] \in {"new", "done", "refused"}
  <2>1. \A t \in Tasks : GroupOf[t] = g => at[t] \notin {"running", "returned", "released"}
    BY <1>2 DEF Goroutines
  <2>2. \A t \in Tasks : GroupOf[t] = g => at[t] # "asking"
    BY <1>1, <2>1 DEF GroupIInv, AskedBy
  <2>. QED
    BY <2>1, <2>2 DEF GroupIInv, GroupTypes, States
<1>4. WaitCovers'
  BY <1>1, <1>3 DEF GroupIInv, WaitCovers, GroupTypes
<1>5. GroupTypes' /\ Holders' = Holders /\ CallFollows'
  BY <1>1 DEF GroupIInv, GroupTypes, Goroutines, Holders, CallFollows, L!Out
<1>6. AskedBy'
  BY <1>1, <1>3 DEF GroupIInv, AskedBy, GroupTypes
<1>7. RefusedIsTold'
  BY <1>1 DEF GroupIInv, RefusedIsTold
<1>. QED
  BY <1>1, <1>4, <1>5, <1>6, <1>7 DEF GroupIInv

(* Calling Wait and the end of a context touch no task.                    *)
LEMMA GroupControlStep ==
    ASSUME GroupIInv, NEW g \in Groups,
           CallWait(g) \/ CancelParent(g)
    PROVE  GroupIInv'
<1>. USE ErrGroupAssumption
<1>1. /\ UNCHANGED <<limited, at, by, wg, err, call>>
      /\ ctx' \subseteq Groups
      /\ \/ UNCHANGED main
         \/ ~MainBlocked(g) /\ main[g] = "go" /\ main' = [main EXCEPT ![g] = "wait"]
  BY DEF GroupIInv, GroupTypes, CallWait, CancelParent
<1>2. GroupTypes' /\ Holders' = Holders /\ CallFollows'
  BY <1>1 DEF GroupIInv, GroupTypes, Goroutines, Holders, CallFollows, L!Out
<1>3. AskedBy' /\ WaitCovers'
  BY <1>1 DEF GroupIInv, AskedBy, MainBlocked, GroupTypes, WaitCovers
<1>4. RefusedIsTold'
  BY <1>1 DEF GroupIInv, RefusedIsTold
<1>. QED
  BY <1>1, <1>2, <1>3, <1>4 DEF GroupIInv

(* Every step of every task, caller and context keeps the invariant.       *)
LEMMA GroupNextIInv ==
    ASSUME GroupIInv, [GroupNext]_groupVars
    PROVE  GroupIInv'
<1>1. ASSUME NEW t \in Tasks, NEW c \in Tasks \cup {Main}, GoUnlimited(c, t)
      PROVE  GroupIInv'
  BY <1>1, StartsBeforeWait, SpawnStep DEF GoUnlimited
<1>2. ASSUME NEW t \in Tasks, NEW c \in Tasks \cup {Main}, GoAsk(c, t)
      PROVE  GroupIInv'
  BY <1>2, GoAskStep
<1>3. ASSUME NEW t \in Tasks, NEW c \in Tasks \cup {Main}, TryGo(c, t)
      PROVE  GroupIInv'
  <2>1. main[GroupOf[t]] # "waited"
    BY <1>3, StartsBeforeWait DEF TryGo
  <2>2. \/ GroupOf[t] \notin limited /\ UNCHANGED call
        \/ /\ GroupOf[t] \in limited /\ L!Fits(1)
           /\ call' = [call EXCEPT ![t] = [st |-> "holds", n |-> 1]]
    BY <1>3 DEF TryGo, L!Take, L!Become
  <2>. QED
    BY <1>3, <2>1, <2>2, SpawnStep DEF TryGo
<1>4. ASSUME NEW t \in Tasks, GoGranted(t)
      PROVE  GroupIInv'
  <2>1. /\ at[t] = "asking" /\ GroupOf[t] \in limited
        /\ call[t] = [st |-> "asks", n |-> 1]
    BY <1>4, CallOf DEF GroupIInv, AskedBy, GoGranted
  <2>2. L!Fits(1) /\ call' = [call EXCEPT ![t] = [st |-> "holds", n |-> 1]]
    BY <1>4, <2>1 DEF GoGranted, L!Grant, L!Become
  <2>3. main[GroupOf[t]] # "waited"
    BY <2>1, ErrGroupAssumption DEF GroupIInv, WaitCovers
  <2>. QED
    BY <1>4, <2>1, <2>2, <2>3, SpawnStep DEF GoGranted
<1>5. ASSUME NEW t \in Tasks, GoRefused(t)
      PROVE  GroupIInv'
  <2>1. DOMAIN call = Tasks /\ call = [u \in Tasks |-> call[u]]
    BY CallOf DEF GroupIInv
  <2>2. call' = [call EXCEPT ![t] = L!Out]
    BY <1>5 DEF GoRefused, L!Refuse, L!Become, L!Out
  <2>. QED
    BY <1>5, <2>1, <2>2, RefusedStep DEF GoRefused, Caller
<1>6. ASSUME NEW t \in Tasks, FnReturns(t) \/ ReleasePermit(t) \/ Done(t)
      PROVE  GroupIInv'
  BY <1>6, ReturnStep, ReleaseGroupStep, DoneStep
<1>7. ASSUME NEW g \in Groups, CallWait(g) \/ WaitReturn(g) \/ CancelParent(g)
      PROVE  GroupIInv'
  BY <1>7, GroupControlStep, WaitReturnStep
<1>8. CASE UNCHANGED groupVars
  BY <1>8 DEF GroupIInv, GroupTypes, Goroutines, Holders, CallFollows, AskedBy,
              WaitCovers, RefusedIsTold, L!Out, groupVars
<1>. QED
  BY <1>1, <1>2, <1>3, <1>4, <1>5, <1>6, <1>7, <1>8 DEF GroupNext, TaskStep

(* In every behaviour of any number of groups, nested tasks, refusals and  *)
(* cancellations, the WaitGroups count exactly, the functions running at   *)
(* once in all limited groups together stay within the limiter's capacity, *)
(* and a permit is out exactly while such a function has not given it back *)
(* (errgroup.go:143).                                                      *)
THEOREM ErrGroupKeepsLimit ==
    GroupSpec => []LimitKept
<1>1. GroupInit => GroupIInv
  BY GroupInitIInv
<1>2. GroupIInv /\ [GroupNext]_groupVars => GroupIInv'
  BY GroupNextIInv
<1>3. GroupIInv => LimitKept
  BY GroupIInvImplies
<1>. QED
  BY <1>1, <1>2, <1>3, PTL DEF GroupSpec

(* When Wait has returned nothing of the group runs or will run, also when *)
(* tasks start tasks, and every refusal is behind an error of the group    *)
(* that comes from a task that failed or was refused (errgroup.go:137,     *)
(* 169).                                                                   *)
THEOREM ErrGroupWaitTells ==
    GroupSpec => []WaitTells
<1>1. GroupInit => GroupIInv
  BY GroupInitIInv
<1>2. GroupIInv /\ [GroupNext]_groupVars => GroupIInv'
  BY GroupNextIInv
<1>3. GroupIInv => WaitTells
  BY GroupIInvImplies
<1>. QED
  BY <1>1, <1>2, <1>3, PTL DEF GroupSpec

=============================================================================
