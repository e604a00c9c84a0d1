--------------------------- MODULE CircuitBreaker ---------------------------
(***************************************************************************)
(* internal/circuitbreaker.  Do asks allow(), runs the operation without   *)
(* the lock, and hands its result to recordResult().  transition() drops   *)
(* the lock around the OnStateChange callback, so allow() and              *)
(* recordResult() are cut there; where nothing follows the callback the    *)
(* cut changes nothing and is left out.                                    *)
(***************************************************************************)
EXTENDS Integers

CONSTANTS
    Goroutines,     \* the goroutines that call Do
    Threshold,   \* Config.Threshold
    Cooldown,    \* Config.Cooldown, in ticks of the clock
    MaxTime      \* bound on the clock

ASSUME ThresholdAssumption == Threshold \in Nat /\ Threshold >= 1
ASSUME CooldownAssumption == Cooldown \in Nat /\ Cooldown >= 1
ASSUME TimeAssumption == MaxTime \in Nat

VARIABLES
    state,      \* Breaker.state
    failures,   \* Breaker.failures
    openedAt,   \* Breaker.openedAt
    now,        \* the clock
    pc,         \* where each goroutine is
    probe,      \* the goroutines whose call was admitted as a probe
    streak,     \* consecutive failures recorded since the breaker closed
    stale,      \* a half-open breaker took the result of another call than
                \* its probe, or Reset was called
    late,       \* a closed breaker got the failure count of an earlier probe
    lost        \* an operation panicked: its result is never recorded

breakerVars == <<state, failures, openedAt, now, pc, probe, streak, stale, late, lost>>

States == {"closed", "open", "halfOpen"}

(* "notifyProbe" and "notifyReopen": in OnStateChange, with the lock dropped *)
PCs == {"idle", "notifyProbe", "op", "notifyReopen"}

(* Every variable keeps its type; the failure count passes the threshold   *)
(* by one at most.                                                         *)
BreakerTypeOK ==
    /\ state \in States
    /\ failures \in 0..(Threshold + 1)
    /\ openedAt \in Nat
    /\ now \in Nat
    /\ pc \in [Goroutines -> PCs]
    /\ probe \in SUBSET Goroutines
    /\ streak \in Nat
    /\ stale \in BOOLEAN /\ late \in BOOLEAN /\ lost \in BOOLEAN

BreakerInit ==
    /\ state = "closed"
    /\ failures = 0 /\ openedAt = 0 /\ now = 0
    /\ pc = [c \in Goroutines |-> "idle"]
    /\ probe = {}
    /\ streak = 0
    /\ stale = FALSE /\ late = FALSE /\ lost = FALSE

InFlight(c) == pc[c] \in {"notifyProbe", "op"}

-----------------------------------------------------------------------------
(* allow().  A refused call gets ErrOpen and changes nothing but counters. *)

CooledDown == now - openedAt >= Cooldown

AllowClosed(c) ==
    /\ pc[c] = "idle" /\ state = "closed"
    /\ pc' = [pc EXCEPT ![c] = "op"]
    /\ UNCHANGED <<state, failures, openedAt, now, probe, streak, stale, late,
                   lost>>

(* mutant: a half-open breaker admits every caller *)
AllowProbeAnytime(c) ==
    /\ pc[c] = "idle" /\ \/ state = "open" /\ CooledDown
                         \/ state = "halfOpen"
    /\ state' = "halfOpen"
    /\ pc' = [pc EXCEPT ![c] = "notifyProbe"]
    /\ probe' = probe \cup {c}
    /\ UNCHANGED <<failures, openedAt, now, streak, stale, late, lost>>

AllowProbe(c) ==
    /\ pc[c] = "idle" /\ state = "open" /\ CooledDown
    /\ state' = "halfOpen"
    /\ pc' = [pc EXCEPT ![c] = "notifyProbe"]
    /\ probe' = probe \cup {c}
    /\ UNCHANGED <<failures, openedAt, now, streak, stale, late, lost>>

ProbeNotified(c) ==
    /\ pc[c] = "notifyProbe"
    /\ pc' = [pc EXCEPT ![c] = "op"]
    /\ UNCHANGED <<state, failures, openedAt, now, probe, streak, stale, late,
                   lost>>

-----------------------------------------------------------------------------
(* recordResult(), by the state the breaker is in when the result arrives  *)

Returns(c) ==
    /\ pc' = [pc EXCEPT ![c] = "idle"]
    /\ probe' = probe \ {c}

(* mutant: a success does not end the run of failures *)
RecordClosedKeepsCount(c, failed) ==
    /\ pc[c] = "op" /\ state = "closed"
    /\ IF failed
         THEN /\ failures' = failures + 1 /\ streak' = streak + 1
              /\ IF failures' >= Threshold
                   THEN state' = "open" /\ openedAt' = now
                   ELSE UNCHANGED <<state, openedAt>>
         ELSE streak' = 0 /\ UNCHANGED <<failures, state, openedAt>>
    /\ Returns(c)
    /\ UNCHANGED <<now, stale, late, lost>>

RecordClosed(c, failed) ==
    /\ pc[c] = "op" /\ state = "closed"
    /\ IF failed
         THEN /\ failures' = failures + 1 /\ streak' = streak + 1
              /\ IF failures' >= Threshold
                   THEN state' = "open" /\ openedAt' = now
                   ELSE UNCHANGED <<state, openedAt>>
         ELSE failures' = 0 /\ streak' = 0 /\ UNCHANGED <<state, openedAt>>
    /\ Returns(c)
    /\ UNCHANGED <<now, stale, late, lost>>

(* mutant: a successful probe leaves the breaker half-open *)
RecordHalfOpenStays(c, failed) ==
    /\ pc[c] = "op" /\ state = "halfOpen"
    /\ stale' = (stale \/ c \notin probe)
    /\ IF failed
         THEN /\ state' = "open" /\ openedAt' = now
              /\ pc' = [pc EXCEPT ![c] = "notifyReopen"]
              /\ probe' = probe \ {c}
              /\ UNCHANGED <<failures, streak>>
         ELSE /\ failures' = 0 /\ streak' = 0
              /\ Returns(c)
              /\ UNCHANGED <<state, openedAt>>
    /\ UNCHANGED <<now, late, lost>>

RecordHalfOpen(c, failed) ==
    /\ pc[c] = "op" /\ state = "halfOpen"
    /\ stale' = (stale \/ c \notin probe)
    /\ IF failed
         THEN /\ state' = "open" /\ openedAt' = now
              /\ pc' = [pc EXCEPT ![c] = "notifyReopen"]
              /\ probe' = probe \ {c}
              /\ UNCHANGED <<failures, streak>>
         ELSE /\ state' = "closed"
              /\ failures' = 0 /\ streak' = 0
              /\ Returns(c)
              /\ UNCHANGED openedAt
    /\ UNCHANGED <<now, late, lost>>

(* "Shouldn't reach here": a result that arrives when the breaker is open  *)
RecordOpen(c) ==
    /\ pc[c] = "op" /\ state = "open"
    /\ Returns(c)
    /\ UNCHANGED <<state, failures, openedAt, now, streak, stale, late, lost>>

(* failures = Threshold, written after the callback of a failed probe      *)
ReopenNotified(c) ==
    /\ pc[c] = "notifyReopen"
    /\ failures' = Threshold
    /\ late' = (late \/ state = "closed")
    /\ pc' = [pc EXCEPT ![c] = "idle"]
    /\ UNCHANGED <<state, openedAt, now, probe, streak, stale, lost>>

-----------------------------------------------------------------------------

(* The operation panics: Do unwinds without recordResult *)
OpPanics(c) ==
    /\ pc[c] = "op"
    /\ Returns(c)
    /\ lost' = TRUE
    /\ UNCHANGED <<state, failures, openedAt, now, streak, stale, late>>

(* openedAt = time.Time{}, the start of time *)
Reset ==
    /\ state' = "closed"
    /\ failures' = 0 /\ openedAt' = 0 /\ streak' = 0
    /\ stale' = TRUE
    /\ UNCHANGED <<now, pc, probe, late, lost>>

ClockTick ==
    /\ now < MaxTime
    /\ now' = now + 1
    /\ UNCHANGED <<state, failures, openedAt, pc, probe, streak, stale, late,
                   lost>>

RecordResult(c) ==
    \/ \E failed \in BOOLEAN : RecordClosed(c, failed) \/ RecordHalfOpen(c, failed)
    \/ RecordOpen(c)

Notified(c) == ProbeNotified(c) \/ ReopenNotified(c)

BreakerNext ==
    \/ \E c \in Goroutines : \/ AllowClosed(c) \/ AllowProbe(c)
                             \/ Notified(c) \/ RecordResult(c) \/ OpPanics(c)
    \/ Reset
    \/ ClockTick

(* Callbacks return and operations end; calls, time and Reset may stop.    *)
BreakerFairness ==
    \A c \in Goroutines :
       /\ WF_breakerVars(Notified(c))
       /\ WF_breakerVars(RecordResult(c) \/ OpPanics(c))

BreakerSpec == BreakerInit /\ [][BreakerNext]_breakerVars /\ BreakerFairness

-----------------------------------------------------------------------------
(* Properties *)

(* A half-open breaker refuses every call, so it leaves that state only    *)
(* through the result of a call in flight: there always is one, as long as *)
(* no operation panicked.                                                  *)
HalfOpenHasCall == state = "halfOpen" /\ ~lost => \E c \in Goroutines : InFlight(c)

(* The doc of Do: half-open lets exactly one probe through, and others see *)
(* ErrOpen until it finishes.                                              *)
SingleProbe ==
    \A c, d \in Goroutines : c \in probe /\ d \in probe => c = d

(* That is so as long as no call admitted earlier, when the breaker was    *)
(* closed, ends while it is half-open, and nobody calls Reset.             *)
SingleProbeUnlessStale == ~stale => SingleProbe

(* The breaker trips only after Threshold consecutive failures since it    *)
(* closed, unless the delayed write of a failed probe's recordResult hit a *)
(* breaker that was closed again.                                          *)
TripsOnStreak ==
    [][state = "closed" /\ state' = "open" /\ ~late =>
         streak' >= Threshold]_breakerVars

(* A half-open breaker does not stay so, unless an operation panicked.     *)
HalfOpenEnds == state = "halfOpen" ~> (state # "halfOpen" \/ lost)

=============================================================================
