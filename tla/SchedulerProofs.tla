--------------------------- MODULE SchedulerProofs ---------------------------
(* The scheduler's guards, for any set of jobs, any intervals and any limit:   *)
(* one invocation of an entry at a time, a Stop that waits for what was in     *)
(* flight, and launches an interval apart.                                     *)
EXTENDS Scheduler, FiniteSetTheorems, TLAPS

\* A goroutine between its compare-and-swap and its launch has set the flag of an
\* entry that nobody else has in hand and that has no invocation.
Holding(r) == rpc[r] \in {"advance", "add"}
Held == \A r \in Runners : Holding(r) =>
          /\ cur[r] \in Entries /\ cur[r] \in running /\ cur[r] \notin InFlight
          /\ cur[r] \notin due[r] /\ spc[cur[r]] # "new"
          /\ \A q \in Runners \ {r} : Holding(q) => cur[q] # cur[r]

\* An invocation is the only one of its entry, and the flag is set.
Guarded == NoOverlap /\ InFlight \subseteq running

\* The WaitGroup counts the invocations and the goroutines that have yet to leave.
Grouped == IsFiniteSet(InFlight) /\ wg = Cardinality(InFlight) + leaving

\* What Stop waits for is in flight, and gone when it has returned.
Awaited == awaited \subseteq InFlight /\ StopAwaitsInFlight

\* An entry that Schedule has not stamped yet is due for nobody.
Fresh == \A e \in Entries : spc[e] = "new" =>
           /\ nextDue[e] = Zero /\ lastAt[e] = Never
           /\ \A r \in Runners : e \notin due[r]

\* After a launch the entry is due an interval after the time that RunDue read,
\* or never again.
Advanced == \A e \in Entries : lastAt[e] # Never =>
              nextDue[e] = IF Interval[e] > 0 THEN lastAt[e] + Interval[e] ELSE Zero

\* Two calls of RunDue at work at a time have overlapped.
Noticed == \A r, q \in Runners : r # q /\ InRunDue(r) /\ InRunDue(q) => r \in overlapped

\* What a call that nobody overlaps has collected is due still when it launches.
Ripe == \A r \in Runners : rpc[r] \in {"launch", "advance", "add"} /\ r \notin overlapped =>
          \A e \in due[r] : nextDue[e] # Zero /\ nextDue[e] <= at[r]

Counts == Guarded /\ Grouped /\ Awaited
Paces == Fresh /\ Advanced /\ Noticed /\ Ripe
IInv == TypeOK /\ Counts /\ Held /\ Paces

-----------------------------------------------------------------------------
(* Types *)

Flags == {wake, cancelSet, stopped} \subseteq BOOLEAN
Clocks == /\ now \in 0..MaxTime
          /\ nextDue \in [Entries -> Nat]
          /\ at \in [Runners -> 0..MaxTime]
          /\ sleepUntil \in Nat
          /\ lastAt \in [Entries -> Nat \cup {Never}]
Places == /\ jobs \in [Names -> Entries \cup {NoEntry}]
          /\ spc \in [Entries -> {"new", "insert", "signal", "done"}]
          /\ rpc \in [Runners -> {"idle", "collect", "launch", "advance", "add",
                                  "sleep", "asleep", "exited"}]
          /\ due \in [Runners -> SUBSET Entries]
          /\ cur \in [Runners -> Entries \cup {NoEntry}]
          /\ cancelled \in SUBSET Runners
          /\ stopPC \in {"idle", "cancel", "wait", "parked", "woken", "returned", "panicked"}
          /\ calls \in SUBSET Callable
          /\ overlapped \in SUBSET Runners
Flights == /\ running \in SUBSET Entries
           /\ waiting \in [Entries -> Nat] /\ executing \in [Entries -> Nat]
           /\ leaving \in Nat
           /\ by \in [Entries -> Runners]
           /\ wg \in Nat
           /\ awaited \in SUBSET Entries

LEMMA TypeParts == TypeOK <=> Flags /\ Clocks /\ Places /\ Flights
  BY Zenon DEF TypeOK, Flags, Clocks, Places, Flights

LEMMA NextFlags == ASSUME Flags, [Next]_vars PROVE Flags'
  <1>. USE DEF regVars, runDueVars, loopVars, stopVars, runVars, ghosts
  <1>1. wake \in BOOLEAN /\ cancelSet \in BOOLEAN /\ stopped \in BOOLEAN
    BY Zenon DEF Flags
  <1>2. /\ wake' = wake \/ wake' = TRUE \/ wake' = FALSE
        /\ cancelSet' = cancelSet \/ cancelSet' = TRUE
        /\ stopped' = stopped \/ stopped' = TRUE
    <2>1. CASE UNCHANGED vars
      BY <2>1 DEF vars
    <2>2. CASE \E e \in Entries : ScheduleStep(e)
      BY <2>2, Zenon DEF ScheduleStep, ScheduleCheck, ScheduleInsert, ScheduleSignal
    <2>3. CASE WGDone \/ \E e \in Entries : JobStep(e)
      BY <2>3, Zenon DEF WGDone, JobStep, BeginJob, AcquireFails, EndJob, Ended
    <2>4. CASE (\E n \in Names : Unschedule(n)) \/ \E r \in Runners : ContextEnds(r)
      BY <2>4, Zenon DEF Unschedule, ContextEnds
    <2>5. CASE NextSleep \/ LoopExits
      BY <2>5, Zenon DEF NextSleep, LoopExits
    <2>6. CASE LoopWakes
      BY <2>6, Zenon DEF LoopWakes
    <2>7. CASE \E r \in Runners : RunDueStep(r)
      BY <2>7, Zenon DEF RunDueStep, Collect, Skip, Claim, Advance, Launch, GoRun, RunDueReturns
    <2>8. CASE StartLoop \/ CallRunDue
      BY <2>8, Zenon DEF StartLoop, CallRunDue
    <2>9. CASE StopMark \/ StopStep \/ Tick
      BY <2>9, Zenon DEF StopMark, StopStep, StopCancel, WaitInflight, WaitWakes, Tick
    <2>10. "loop" \in Runners /\ "manual" \in Runners
      BY DEF Runners
    <2>. QED
      BY <2>1, <2>2, <2>3, <2>4, <2>5, <2>6, <2>7, <2>8, <2>9, <2>10, Zenon DEF Next, LoopStep
  <1>. QED
    BY <1>1, <1>2, Zenon DEF Flags

-----------------------------------------------------------------------------
(* One lemma per operation: what it leaves alone is kept by the frame lemmas. *)

Core == Clocks /\ Places /\ Flights /\ Counts /\ Held /\ Paces

paceVars == <<spc, nextDue, lastAt, due, rpc, at, overlapped>>

LEMMA FlightFrame ==
  ASSUME Flights, Counts, UNCHANGED <<running, runVars, awaited, stopPC>>
  PROVE  Flights' /\ Counts'
  BY DEF Flights, Counts, Guarded, NoOverlap, InFlight, Grouped, Awaited, StopAwaitsInFlight,
         runVars

LEMMA HeldFrame ==
  ASSUME Held, Places, UNCHANGED <<cur, running, waiting, executing>>,
         \A r \in Runners : Holding(r)' => Holding(r) /\ due'[r] \subseteq due[r],
         \A e \in Entries : spc'[e] = "new" => spc[e] = "new"
  PROVE  Held'
  <1>1. InFlight' = InFlight
    BY DEF InFlight
  <1>. QED BY <1>1 DEF Held

LEMMA PaceFrame == ASSUME Paces, UNCHANGED paceVars PROVE Paces'
  BY DEF Paces, Fresh, Advanced, Noticed, InRunDue, Ripe, paceVars

LEMMA RunnersAre == "loop" \in Runners /\ "manual" \in Runners
  BY DEF Runners

\* What is not timed and not launched: Insert, Signal, Unschedule, a context that
\* ends, and the clock.
LEMMA PlainSteps ==
  ASSUME Core,
         \/ \E e \in Entries : ScheduleInsert(e) \/ ScheduleSignal(e)
         \/ \E n \in Names : Unschedule(n)
         \/ \E r \in Runners : ContextEnds(r)
         \/ NextSleep \/ LoopExits \/ Tick
  PROVE  Core'
  <1>. USE DEF Core, regVars, runDueVars, loopVars, stopVars, ghosts
  <1>1. ASSUME NEW e \in Entries, ScheduleInsert(e) \/ ScheduleSignal(e) PROVE Core'
    <2>1. Flights' /\ Counts'
      BY <1>1, FlightFrame DEF ScheduleInsert, ScheduleSignal
    <2>2. Clocks' /\ Places'
      BY <1>1, JobAssumption DEF Clocks, Places, ScheduleInsert, ScheduleSignal
    <2>3. /\ UNCHANGED <<nextDue, lastAt, due, rpc, at, overlapped, cur, running>>
          /\ \A f \in Entries : spc'[f] = "new" => spc[f] = "new"
      BY <1>1 DEF Places, ScheduleInsert, ScheduleSignal
    <2>4. Paces'
      BY <2>3 DEF Paces, Fresh, Advanced, Noticed, InRunDue, Ripe
    <2>5. UNCHANGED <<waiting, executing>>
      BY <1>1 DEF ScheduleInsert, ScheduleSignal, runVars
    <2>6. Held'
      BY <2>3, <2>5, HeldFrame DEF Holding
    <2>. QED BY <2>1, <2>2, <2>4, <2>6
  <1>2. ASSUME \/ \E n \in Names : Unschedule(n)
               \/ \E r \in Runners : ContextEnds(r)
               \/ Tick
        PROVE  Core'
    <2>1. UNCHANGED <<spc, nextDue, running, rpc, due, cur, at, sleepUntil, stopPC, runVars,
                      lastAt, overlapped, awaited>>
      BY <1>2 DEF Unschedule, ContextEnds, Tick
    <2>2. Flights' /\ Counts' /\ Paces'
      BY <2>1, FlightFrame, PaceFrame DEF paceVars
    <2>3. UNCHANGED <<waiting, executing>>
      BY <2>1 DEF runVars
    <2>4. Held'
      BY <2>1, <2>3, HeldFrame DEF Holding
    <2>5. /\ now' \in 0..MaxTime /\ jobs' \in [Names -> Entries \cup {NoEntry}]
          /\ cancelled' \subseteq Runners /\ calls' \subseteq Callable
      <3>1. now' = now \/ (now < MaxTime /\ now' = now + 1)
        BY <1>2 DEF Unschedule, ContextEnds, Tick
      <3>2. jobs' = jobs \/ \E n \in Names : jobs' = [jobs EXCEPT ![n] = NoEntry]
        BY <1>2 DEF Unschedule, ContextEnds, Tick
      <3>3. /\ cancelled' = cancelled \/ \E r \in Runners : cancelled' = cancelled \cup {r}
            /\ \/ calls' = calls
               \/ \E c \in {"Unschedule", "cancel"} : calls' = calls \cup {c}
        BY <1>2 DEF Unschedule, ContextEnds, Tick, MayCall
      <3>4. now' \in 0..MaxTime
        BY <3>1, BoundAssumption DEF Clocks
      <3>5. jobs' \in [Names -> Entries \cup {NoEntry}]
        BY <3>2 DEF Places
      <3>6. cancelled' \subseteq Runners /\ calls' \subseteq Callable
        BY <3>3 DEF Places, Callable
      <3>. QED BY <3>4, <3>5, <3>6
    <2>6. Clocks' /\ Places'
      BY <2>1, <2>5 DEF Clocks, Places
    <2>. QED BY <2>2, <2>4, <2>6
  <1>3. CASE NextSleep \/ LoopExits
    <2>1. Flights' /\ Counts'
      BY <1>3, FlightFrame DEF NextSleep, LoopExits
    <2>2. sleepUntil' \in Nat
      BY <1>3, BoundAssumption DEF NextSleep, LoopExits, NextDue, Clocks
    <2>3. Clocks' /\ Places'
      BY <1>3, <2>2, RunnersAre DEF Clocks, Places, NextSleep, LoopExits
    <2>4. /\ UNCHANGED <<spc, nextDue, lastAt, due, at, overlapped, cur, running>>
          /\ \A r \in Runners : rpc'[r] \in {"collect", "launch", "advance", "add"} =>
                                  rpc'[r] = rpc[r]
      BY <1>3 DEF Places, NextSleep, LoopExits
    <2>5. Paces'
      BY <2>4 DEF Paces, Fresh, Advanced, Noticed, InRunDue, Ripe
    <2>6. UNCHANGED <<waiting, executing>>
      BY <1>3 DEF NextSleep, LoopExits, runVars
    <2>7. Held'
      BY <2>4, <2>6, HeldFrame DEF Holding
    <2>. QED BY <2>1, <2>3, <2>5, <2>7
  <1>. QED BY <1>1, <1>2, <1>3

\* Schedule stamps an entry that nobody has collected.
LEMMA StampSteps == ASSUME Core, NEW e \in Entries, ScheduleCheck(e) PROVE Core'
  <1>. USE DEF Core, regVars, runDueVars, loopVars, stopVars, ghosts
  <1>1. Flights' /\ Counts'
    BY FlightFrame DEF ScheduleCheck
  <1>2. PICK t \in Nat : nextDue' = [nextDue EXCEPT ![e] = t]
    <2>1. At[e] \in Nat /\ now + Interval[e] \in Nat
      BY JobAssumption DEF Clocks
    <2>2. (IF At[e] = Zero THEN now + Interval[e] ELSE At[e]) \in Nat
      BY <2>1
    <2>. QED BY <2>2 DEF ScheduleCheck
  <1>2a. /\ spc[e] = "new" /\ spc' = [spc EXCEPT ![e] = "insert"]
         /\ UNCHANGED <<now, jobs, lastAt, due, rpc, at, overlapped, sleepUntil, stopPC, calls,
                        cur, running, cancelled>>
    BY DEF ScheduleCheck
  <1>3. Clocks' /\ Places'
    BY <1>2, <1>2a DEF Clocks, Places
  <1>4. lastAt[e] = Never /\ \A r \in Runners : e \notin due[r]
    BY <1>2a DEF Paces, Fresh
  <1>5. Fresh' /\ Noticed'
    BY <1>2, <1>2a DEF Paces, Fresh, Noticed, InRunDue, Places, Clocks
  <1>6. Advanced'
    BY <1>2, <1>2a, <1>4 DEF Paces, Advanced, Clocks
  <1>7. Ripe'
    BY <1>2, <1>2a, <1>4 DEF Paces, Ripe, Places, Clocks
  <1>8. UNCHANGED <<waiting, executing>>
    BY DEF ScheduleCheck, runVars
  <1>9. \A f \in Entries : spc'[f] = "new" => spc[f] = "new"
    BY <1>2a DEF Places
  <1>10. Held'
    BY <1>2a, <1>8, <1>9, HeldFrame DEF Holding
  <1>. QED BY <1>1, <1>3, <1>5, <1>6, <1>7, <1>10 DEF Paces

\* A goroutine enters RunDue: whom it overlaps it marks.
LEMMA EnterKeeps ==
  ASSUME Core, NEW r \in Runners, Enter(r), ~InRunDue(r),
         UNCHANGED <<now, jobs, spc, nextDue, running, due, cur, cancelled, stopPC, waiting,
                     executing, lastAt>>,
         sleepUntil' \in Nat, calls' \subseteq Callable
  PROVE  Clocks' /\ Places' /\ Held' /\ Paces'
  <1>. USE DEF Core
  <1>1. /\ rpc' = [rpc EXCEPT ![r] = "collect"] /\ at' = [at EXCEPT ![r] = now]
        /\ overlapped' = IF \E q \in Runners \ {r} : InRunDue(q) THEN Runners ELSE overlapped
    BY DEF Enter, InRunDue
  <1>2. Clocks' /\ Places'
    BY <1>1 DEF Clocks, Places
  <1>2a. Held'
    <2>1. \A q \in Runners : Holding(q)' => Holding(q)
      BY <1>1 DEF Holding, Places
    <2>. QED BY <2>1, HeldFrame
  <1>3. Fresh' /\ Advanced'
    BY DEF Paces, Fresh, Advanced
  <1>4. \A q \in Runners : /\ q # r => rpc'[q] = rpc[q] /\ at'[q] = at[q]
                           /\ rpc'[r] = "collect"
    BY <1>1 DEF Places, Clocks
  <1>5. CASE \E q \in Runners \ {r} : InRunDue(q)
    BY <1>1, <1>3, <1>2, <1>2a, <1>5 DEF Paces, Noticed, Ripe
  <1>6. CASE ~\E q \in Runners \ {r} : InRunDue(q)
    <2>1. \A q \in Runners : q # r => ~InRunDue(q) /\ ~InRunDue(q)'
      BY <1>4, <1>6 DEF InRunDue
    <2>2. Noticed'
      BY <2>1 DEF Noticed
    <2>3. Ripe'
      BY <2>1, <1>4 DEF Ripe, InRunDue
    <2>. QED BY <1>3, <2>2, <2>3, <1>2, <1>2a DEF Paces
  <1>. QED BY <1>5, <1>6, <1>2, <1>2a

LEMMA EnterSteps == ASSUME Core, StartLoop \/ CallRunDue \/ LoopWakes PROVE Core'
  <1>. USE DEF regVars, runDueVars, loopVars, stopVars, ghosts
  <1>1. Flights' /\ Counts'
    BY FlightFrame DEF Core, StartLoop, CallRunDue, LoopWakes
  <1>2. PICK r \in Runners : ~InRunDue(r) /\ Enter(r)
    BY RunnersAre DEF InRunDue, StartLoop, CallRunDue, LoopWakes
  <1>3. UNCHANGED <<now, jobs, spc, nextDue, running, due, cur, cancelled, stopPC, waiting,
                    executing, lastAt>>
    BY DEF StartLoop, CallRunDue, LoopWakes, runVars
  <1>4. sleepUntil' \in Nat /\ calls' \subseteq Callable
    <2>1. sleepUntil' \in Nat
      BY DEF Core, Clocks, StartLoop, CallRunDue, LoopWakes
    <2>2. calls' = calls \/ calls' = calls \cup {"RunDue"}
      BY DEF StartLoop, CallRunDue, LoopWakes, MayCall
    <2>3. calls \subseteq Callable /\ "RunDue" \in Callable
      BY DEF Core, Places, Callable
    <2>. QED BY <2>1, <2>2, <2>3
  <1>5. Clocks' /\ Places' /\ Held' /\ Paces'
    BY <1>2, <1>3, <1>4, EnterKeeps
  <1>. QED BY <1>1, <1>5 DEF Core

LEMMA CollectKeeps == ASSUME Core, NEW r \in Runners, Collect(r) PROVE Core'
  <1>. USE DEF regVars, loopVars, stopVars, ghosts
  <1>. DEFINE D == {e \in Entries : DueBy(e, at[r]) /\ e \notin running}
  <1>1. /\ due' = [due EXCEPT ![r] = D] /\ rpc' = [rpc EXCEPT ![r] = "launch"]
        /\ rpc[r] = "collect"
        /\ UNCHANGED <<now, jobs, spc, nextDue, at, overlapped, sleepUntil, stopPC, calls, lastAt,
                       cur, running, cancelled>>
    BY DEF Collect
  <1>2. \A e \in D : nextDue[e] # Zero /\ nextDue[e] <= at[r]
    BY DEF DueBy
  <1>3. D \subseteq Entries
    OBVIOUS
  <1>. HIDE DEF D
  <1>4. Flights' /\ Counts'
    BY FlightFrame DEF Core, Collect
  <1>5. Clocks' /\ Places'
    BY <1>1, <1>3 DEF Core, Clocks, Places
  <1>6. \A e \in Entries : spc[e] = "new" => e \notin D
    BY <1>2 DEF Core, Paces, Fresh
  <1>7. Fresh' /\ Advanced'
    BY <1>1, <1>6 DEF Core, Paces, Fresh, Advanced, Places
  <1>8. Noticed'
    BY <1>1 DEF Core, Paces, Noticed, InRunDue, Places
  <1>9. Ripe'
    BY <1>1, <1>2 DEF Core, Paces, Ripe, Places
  <1>10. UNCHANGED <<waiting, executing>>
    BY DEF Collect, runVars
  <1>11. \A q \in Runners : Holding(q)' => Holding(q) /\ due'[q] \subseteq due[q]
    BY <1>1 DEF Holding, Core, Places
  <1>12. Held'
    BY <1>1, <1>10, <1>11, HeldFrame DEF Core
  <1>. QED BY <1>4, <1>5, <1>7, <1>8, <1>9, <1>12 DEF Core, Paces

\* A goroutine goes past an entry, or leaves RunDue with nothing collected.
LEMMA PassSteps ==
  ASSUME Core, NEW r \in Runners, RunDueReturns(r) \/ \E e \in Entries : Skip(r, e)
  PROVE  Core'
  <1>. USE DEF regVars, loopVars, stopVars, ghosts
  <1>1. Flights' /\ Counts'
    BY FlightFrame DEF Core, RunDueReturns, Skip
  <1>1a. UNCHANGED <<waiting, executing, running, cur, spc>>
    BY DEF RunDueReturns, Skip, runVars
  <1>2. ASSUME NEW e \in Entries, Skip(r, e) PROVE Core'
    <2>1. /\ due' = [due EXCEPT ![r] = @ \ {e}]
          /\ UNCHANGED <<now, jobs, spc, nextDue, rpc, cur, at, overlapped, sleepUntil, stopPC,
                         cancelled, calls, lastAt>>
      BY <1>2 DEF Skip
    <2>2. Clocks' /\ Places'
      BY <2>1 DEF Core, Clocks, Places
    <2>3. \A q \in Runners : due'[q] \subseteq due[q]
      BY <2>1 DEF Core, Places
    <2>4. Paces'
      BY <2>1, <2>3 DEF Core, Paces, Fresh, Advanced, Noticed, InRunDue, Ripe
    <2>5. Held'
      BY <1>1a, <2>1, <2>3, HeldFrame DEF Core, Holding
    <2>. QED BY <1>1, <2>2, <2>4, <2>5 DEF Core
  <1>3. CASE RunDueReturns(r)
    <2>1. /\ rpc' = [rpc EXCEPT ![r] = IF r = "loop" THEN "sleep" ELSE "idle"]
          /\ at' = [at EXCEPT ![r] = 0] /\ overlapped' = overlapped \ {r}
          /\ UNCHANGED <<now, jobs, spc, nextDue, due, cur, sleepUntil, stopPC, cancelled,
                         calls, lastAt>>
      BY <1>3 DEF RunDueReturns
    <2>2. Clocks' /\ Places'
      BY <2>1, BoundAssumption DEF Core, Clocks, Places
    <2>3. /\ ~(rpc'[r] \in {"collect", "launch", "advance", "add"})
          /\ \A q \in Runners : q # r => rpc'[q] = rpc[q] /\ at'[q] = at[q]
                                         /\ (q \in overlapped' <=> q \in overlapped)
      BY <2>1 DEF Core, Places, Clocks
    <2>4. Paces'
      BY <2>1, <2>3 DEF Core, Paces, Fresh, Advanced, Noticed, InRunDue, Ripe
    <2>5. Held'
      <3>1. \A q \in Runners : Holding(q)' => Holding(q)
        BY <2>3 DEF Holding
      <3>. QED BY <1>1a, <2>1, <3>1, HeldFrame DEF Core
    <2>. QED BY <1>1, <2>2, <2>4, <2>5 DEF Core
  <1>. QED BY <1>2, <1>3

\* The compare-and-swap: the entry had no invocation and nobody had it in hand.
LEMMA ClaimKeeps ==
  ASSUME Core, NEW r \in Runners, NEW e \in Entries, Claim(r, e)
  PROVE  Core'
  <1>. USE DEF regVars, loopVars, stopVars, ghosts
  <1>1. /\ rpc[r] = "launch" /\ e \in due[r] /\ e \notin running
        /\ due' = [due EXCEPT ![r] = @ \ {e}]
        /\ running' = running \cup {e}
        /\ cur' = [cur EXCEPT ![r] = e]
        /\ rpc' = [rpc EXCEPT ![r] = "advance"]
        /\ UNCHANGED <<now, jobs, spc, nextDue, at, sleepUntil, cancelled, stopPC, calls,
                       lastAt, overlapped, awaited>>
    BY DEF Claim
  <1>2. UNCHANGED <<waiting, executing, leaving, by, wg>>
    BY DEF Claim, runVars
  <1>3. InFlight' = InFlight
    BY <1>2 DEF InFlight
  <1>4. Clocks' /\ Places' /\ Flights'
    BY <1>1, <1>2 DEF Core, Clocks, Places, Flights
  <1>5. Counts'
    BY <1>1, <1>2, <1>3
       DEF Core, Counts, Guarded, NoOverlap, Grouped, Awaited, StopAwaitsInFlight
  <1>6. /\ Holding(r)' /\ cur'[r] = e /\ e \notin due'[r] /\ rpc'[r] = "advance"
        /\ \A q \in Runners \ {r} : /\ rpc'[q] = rpc[q] /\ cur'[q] = cur[q] /\ due'[q] = due[q]
                                    /\ Holding(q)' <=> Holding(q)
    BY <1>1 DEF Core, Places, Holding
  <1>7. Held'
    <2>1. e \notin InFlight /\ spc[e] # "new"
      BY <1>1 DEF Core, Counts, Guarded, Paces, Fresh
    <2>2. \A q \in Runners \ {r} : Holding(q) => cur[q] # e
      BY <1>1 DEF Core, Held
    <2>3. UNCHANGED spc
      BY <1>1
    <2>. QED BY <1>1, <1>3, <1>6, <2>1, <2>2, <2>3 DEF Core, Held
  <1>8. Paces'
    <2>1. /\ \A q \in Runners : due'[q] \subseteq due[q]
          /\ \A q \in Runners : InRunDue(q)' <=> InRunDue(q)
      BY <1>1 DEF Core, Places, InRunDue
    <2>2. \A q \in Runners : rpc'[q] \in {"launch", "advance", "add"} =>
                               rpc[q] \in {"launch", "advance", "add"}
      BY <1>1, <1>6
    <2>. QED BY <1>1, <2>1, <2>2 DEF Core, Paces, Fresh, Advanced, Noticed, Ripe
  <1>. QED BY <1>4, <1>5, <1>7, <1>8 DEF Core

\* advanceNext: the next launch is an interval away from the time RunDue read.
LEMMA AdvanceKeeps ==
  ASSUME Core, NEW r \in Runners, Advance(r)
  PROVE  Core'
  <1>. USE DEF regVars, loopVars, stopVars, ghosts
  <1>. DEFINE e == cur[r]
  <1>1. /\ rpc[r] = "advance"
        /\ nextDue' = [nextDue EXCEPT ![e] = AdvanceNext(r, e)]
        /\ lastAt' = [lastAt EXCEPT ![e] = at[r]]
        /\ rpc' = [rpc EXCEPT ![r] = "add"]
        /\ UNCHANGED <<now, jobs, spc, running, due, cur, at, sleepUntil, cancelled, stopPC,
                       runVars, calls, overlapped, awaited>>
    BY DEF Advance
  <1>2. e \in Entries /\ e \notin due[r] /\ spc[e] # "new"
    BY <1>1 DEF Core, Held, Holding
  <1>. HIDE DEF e
  <1>3. AdvanceNext(r, e) \in Nat /\ at[r] \in Nat /\ at[r] # Never
    BY <1>2, JobAssumption, BoundAssumption DEF AdvanceNext, Core, Clocks, Never, Zero
  <1>4. Clocks' /\ Places'
    BY <1>1, <1>2, <1>3 DEF Core, Clocks, Places
  <1>5. Flights' /\ Counts'
    BY <1>1, FlightFrame DEF Core
  <1>6. Held'
    <2>1. UNCHANGED <<waiting, executing>>
      BY <1>1 DEF runVars
    <2>2. \A q \in Runners : Holding(q)' => Holding(q)
      BY <1>1 DEF Core, Places, Holding
    <2>. QED BY <1>1, <2>1, <2>2, HeldFrame DEF Core
  <1>7. Fresh'
    BY <1>1, <1>2 DEF Core, Paces, Fresh, Clocks, Places
  <1>8. Advanced'
    BY <1>1, <1>2, <1>3 DEF Core, Paces, Advanced, AdvanceNext, Clocks
  <1>9. Noticed'
    BY <1>1 DEF Core, Paces, Noticed, InRunDue, Places
  <1>10. Ripe'
    <2>1. ASSUME NEW q \in Runners, rpc'[q] \in {"launch", "advance", "add"}, q \notin overlapped
          PROVE  q = r
      BY <1>1, <2>1 DEF Core, Paces, Noticed, InRunDue, Places
    <2>2. \A f \in due[r] : nextDue'[f] = nextDue[f]
      BY <1>1, <1>2 DEF Core, Places, Clocks
    <2>. QED BY <1>1, <2>1, <2>2 DEF Core, Paces, Ripe
  <1>. QED BY <1>4, <1>5, <1>6, <1>7, <1>8, <1>9, <1>10 DEF Core, Paces

\* wg.Add and go: the entry in hand becomes an invocation, and is counted.
LEMMA LaunchKeeps ==
  ASSUME Core, NEW r \in Runners, Launch(r)
  PROVE  Core'
  <1>. USE DEF regVars, loopVars, stopVars, ghosts
  <1>. DEFINE e == cur[r]
  <1>1. /\ rpc[r] = "add" /\ wg' = wg + 1
        /\ waiting' = [waiting EXCEPT ![e] = @ + 1]
        /\ by' = [by EXCEPT ![e] = r]
        /\ cur' = [cur EXCEPT ![r] = NoEntry]
        /\ rpc' = [rpc EXCEPT ![r] = "launch"]
        /\ UNCHANGED <<now, jobs, spc, nextDue, running, due, at, sleepUntil, cancelled, stopPC,
                       executing, leaving, calls, lastAt, overlapped, awaited>>
    BY DEF Launch, GoRun
  <1>2. /\ e \in Entries /\ e \in running /\ e \notin InFlight
        /\ \A q \in Runners \ {r} : Holding(q) => cur[q] # e
    BY <1>1 DEF Core, Held, Holding
  <1>. HIDE DEF e
  <1>3. Clocks' /\ Places'
    BY <1>1 DEF Core, Clocks, Places
  <1>4. Flights'
    <2>1. /\ running' \in SUBSET Entries /\ awaited' \in SUBSET Entries
          /\ leaving' \in Nat /\ wg' \in Nat /\ executing' \in [Entries -> Nat]
      BY <1>1 DEF Core, Flights
    <2>2. waiting' \in [Entries -> Nat]
      BY <1>1, <1>2 DEF Core, Flights
    <2>3. by' \in [Entries -> Runners]
      BY <1>1 DEF Core, Flights
    <2>. QED BY <2>1, <2>2, <2>3 DEF Flights
  <1>5. waiting[e] = 0 /\ executing[e] = 0
    BY <1>2 DEF InFlight, Core, Flights
  <1>6. /\ waiting'[e] = 1
        /\ \A f \in Entries \ {e} : waiting'[f] = waiting[f]
    BY <1>1, <1>2, <1>5 DEF Core, Flights
  <1>7. InFlight' = InFlight \cup {e}
    BY <1>1, <1>2, <1>5, <1>6 DEF InFlight, Core, Flights
  <1>8. Guarded'
    BY <1>1, <1>2, <1>5, <1>6, <1>7 DEF Core, Counts, Guarded, NoOverlap
  <1>9. Grouped'
    <2>1. IsFiniteSet(InFlight') /\ Cardinality(InFlight') = Cardinality(InFlight) + 1
      BY <1>2, <1>7, FS_AddElement DEF Core, Counts, Grouped
    <2>2. Cardinality(InFlight) \in Nat /\ leaving \in Nat
      BY FS_CardinalityType DEF Core, Counts, Grouped, Flights
    <2>. QED BY <1>1, <2>1, <2>2 DEF Core, Counts, Grouped
  <1>10. Awaited'
    BY <1>1, <1>7 DEF Core, Counts, Awaited, StopAwaitsInFlight
  <1>11. Held'
    <2>1. /\ ~Holding(r)'
          /\ \A q \in Runners \ {r} : cur'[q] = cur[q] /\ (Holding(q)' <=> Holding(q))
      BY <1>1 DEF Core, Places, Holding
    <2>. QED BY <1>1, <1>2, <1>7, <2>1 DEF Core, Held
  <1>12. Paces'
    <2>1. \A q \in Runners : /\ InRunDue(q)' <=> InRunDue(q)
                             /\ rpc'[q] \in {"launch", "advance", "add"} =>
                                  rpc[q] \in {"launch", "advance", "add"}
      BY <1>1 DEF Core, Places, InRunDue
    <2>. QED BY <1>1, <2>1 DEF Core, Paces, Fresh, Advanced, Noticed, Ripe
  <1>. QED BY <1>3, <1>4, <1>8, <1>9, <1>10, <1>11, <1>12 DEF Core, Counts

\* An invocation that ends clears the flag; its goroutine has yet to leave.
LEMMA JobKeeps == ASSUME Core, NEW e \in Entries, JobStep(e) PROVE Core'
  <1>. USE DEF regVars, runDueVars, loopVars, stopVars, ghosts
  <1>1. Clocks' /\ Places' /\ Paces' /\ UNCHANGED <<stopPC, cur, rpc, due, spc, wg>>
    <2>1. UNCHANGED <<now, jobs, spc, nextDue, rpc, due, cur, at, overlapped, sleepUntil,
                      cancelled, stopPC, calls, lastAt, wg>>
      BY DEF JobStep, BeginJob, AcquireFails, EndJob, Ended
    <2>. QED BY <2>1, PaceFrame DEF Core, Clocks, Places, paceVars
  <1>2. CASE BeginJob(e)
    <2>1. /\ waiting[e] > 0 /\ waiting' = [waiting EXCEPT ![e] = @ - 1]
          /\ executing' = [executing EXCEPT ![e] = @ + 1]
          /\ UNCHANGED <<running, leaving, by, wg, awaited>>
      BY <1>2 DEF BeginJob
    <2>2. Flights'
      BY <2>1 DEF Core, Flights
    <2>3. \A f \in Entries : waiting'[f] + executing'[f] = waiting[f] + executing[f]
      BY <2>1 DEF Core, Flights
    <2>4. InFlight' = InFlight
      BY <2>3 DEF InFlight
    <2>5. Counts'
      BY <1>1, <2>1, <2>3, <2>4
         DEF Core, Counts, Guarded, NoOverlap, Grouped, Awaited, StopAwaitsInFlight
    <2>6. Held'
      BY <1>1, <2>1, <2>4 DEF Core, Held, Holding
    <2>. QED BY <1>1, <2>2, <2>5, <2>6 DEF Core
  <1>3. CASE AcquireFails(e) \/ EndJob(e)
    <2>1. /\ running' = running \ {e} /\ leaving' = leaving + 1 /\ awaited' = awaited \ {e}
          /\ by' = [by EXCEPT ![e] = "loop"]
      BY <1>3 DEF AcquireFails, EndJob, Ended
    <2>2. /\ waiting' \in [Entries -> Nat] /\ executing' \in [Entries -> Nat]
          /\ waiting[e] + executing[e] = waiting'[e] + executing'[e] + 1
          /\ \A f \in Entries \ {e} : waiting'[f] = waiting[f] /\ executing'[f] = executing[f]
      BY <1>3 DEF AcquireFails, EndJob, Core, Flights
    <2>3. e \in InFlight /\ waiting'[e] + executing'[e] = 0
      <3>1. waiting'[e] \in Nat /\ executing'[e] \in Nat
        BY <2>2
      <3>2. waiting[e] + executing[e] <= 1
        BY DEF Core, Counts, Guarded, NoOverlap
      <3>. QED BY <2>2, <3>1, <3>2 DEF InFlight
    <2>4. InFlight' = InFlight \ {e}
      BY <2>2, <2>3 DEF InFlight
    <2>5. Guarded'
      <3>1. \A f \in Entries : waiting'[f] + executing'[f] <= 1
        BY <2>2, <2>3 DEF Core, Counts, Guarded, NoOverlap
      <3>. QED BY <2>1, <2>4, <3>1 DEF Core, Counts, Guarded, NoOverlap
    <2>6. Grouped'
      <3>1. IsFiniteSet(InFlight') /\ Cardinality(InFlight') = Cardinality(InFlight) - 1
        BY <2>3, <2>4, FS_RemoveElement DEF Core, Counts, Grouped
      <3>2. Cardinality(InFlight) \in Nat /\ leaving \in Nat
        BY FS_CardinalityType DEF Core, Counts, Grouped, Flights
      <3>. QED BY <1>1, <2>1, <3>1, <3>2 DEF Core, Counts, Grouped
    <2>7. Awaited'
      BY <1>1, <2>1, <2>4 DEF Core, Counts, Awaited, StopAwaitsInFlight
    <2>8. Flights'
      <3>1. /\ running' \in SUBSET Entries /\ awaited' \in SUBSET Entries
            /\ leaving' \in Nat /\ wg' \in Nat
        BY <1>1, <2>1 DEF Core, Flights
      <3>2. by' \in [Entries -> Runners]
        BY <2>1, RunnersAre DEF Core, Flights
      <3>. QED BY <2>2, <3>1, <3>2 DEF Flights
    <2>9. Held'
      BY <1>1, <2>1, <2>3, <2>4 DEF Core, Held, Holding
    <2>. QED BY <1>1, <2>5, <2>6, <2>7, <2>8, <2>9 DEF Core, Counts
  <1>. QED BY <1>2, <1>3 DEF JobStep

\* wg.Done takes a goroutine that leaves out of the count.
LEMMA DoneKeeps == ASSUME Core, WGDone PROVE Core'
  <1>. USE DEF regVars, runDueVars, loopVars, ghosts
  <1>1. /\ leaving > 0 /\ leaving' = leaving - 1 /\ wg' = wg - 1
        /\ stopPC' = stopPC \/ stopPC' = "woken"
        /\ UNCHANGED <<now, jobs, spc, nextDue, running, rpc, due, cur, at, sleepUntil, cancelled,
                       waiting, executing, by, calls, lastAt, overlapped, awaited>>
    BY DEF WGDone
  <1>2. Paces' /\ Held'
    BY <1>1, PaceFrame, HeldFrame DEF Core, paceVars, Holding
  <1>3. InFlight' = InFlight
    BY <1>1 DEF InFlight
  <1>4. Cardinality(InFlight) \in Nat /\ leaving \in Nat
    BY FS_CardinalityType DEF Core, Counts, Grouped, Flights
  <1>5. Grouped' /\ wg' \in Nat /\ leaving' \in Nat
    BY <1>1, <1>3, <1>4 DEF Core, Counts, Grouped
  <1>6. Clocks' /\ Places' /\ Flights'
    BY <1>1, <1>5 DEF Core, Clocks, Places, Flights
  <1>7. Guarded' /\ Awaited'
    BY <1>1, <1>3 DEF Core, Counts, Guarded, NoOverlap, Awaited, StopAwaitsInFlight
  <1>. QED BY <1>2, <1>5, <1>6, <1>7 DEF Core, Counts

\* Stop waits for the invocations there are, and returns when there are none.
LEMMA StopKeeps == ASSUME Core, StopMark \/ StopStep PROVE Core'
  <1>. USE DEF regVars, runDueVars, loopVars, ghosts
  <1>1. /\ UNCHANGED <<now, jobs, spc, nextDue, running, rpc, due, cur, at, sleepUntil, runVars,
                       lastAt, overlapped>>
        /\ cancelled' \subseteq Runners /\ calls' \subseteq Callable
        /\ \/ awaited' = InFlight /\ stopPC' = "cancel"
           \/ awaited' = awaited /\ stopPC' \in {"wait", "parked", "panicked"}
           \/ awaited' = awaited /\ stopPC' = "returned" /\ wg = 0
    BY RunnersAre DEF Core, Places, StopMark, StopStep, StopCancel, WaitInflight, WaitWakes,
                      MayCall, Callable
  <1>2. UNCHANGED <<waiting, executing, leaving, by, wg>>
    BY <1>1 DEF runVars
  <1>3. InFlight' = InFlight /\ InFlight \subseteq Entries
    BY <1>2 DEF InFlight
  <1>4. Paces' /\ Held'
    BY <1>1, <1>2, PaceFrame, HeldFrame DEF Core, paceVars, Holding
  <1>5. Clocks' /\ Places'
    BY <1>1 DEF Core, Clocks, Places
  <1>6. Flights'
    BY <1>1, <1>2, <1>3 DEF Core, Flights
  <1>7. Guarded' /\ Grouped'
    BY <1>1, <1>2, <1>3 DEF Core, Counts, Guarded, NoOverlap, Grouped
  <1>8. Awaited'
    <2>1. ASSUME wg = 0 PROVE InFlight = {}
      <3>1. Cardinality(InFlight) \in Nat /\ leaving \in Nat
        BY FS_CardinalityType DEF Core, Counts, Grouped, Flights
      <3>2. Cardinality(InFlight) = 0
        BY <2>1, <3>1 DEF Core, Counts, Grouped
      <3>. QED BY <3>2, FS_EmptySet DEF Core, Counts, Grouped
    <2>. QED BY <1>1, <1>3, <2>1 DEF Core, Counts, Awaited, StopAwaitsInFlight
  <1>. QED BY <1>4, <1>5, <1>6, <1>7, <1>8 DEF Core, Counts

LEMMA CoreKept == ASSUME Core, [Next]_vars PROVE Core'
  <1>1. CASE UNCHANGED vars
    <2>1. UNCHANGED <<now, jobs, spc, nextDue, running, rpc, due, cur, at, sleepUntil, cancelled,
                      stopPC, runVars, calls, lastAt, overlapped, awaited>>
      BY <1>1 DEF vars, regVars, runDueVars, loopVars, stopVars, ghosts
    <2>2. UNCHANGED <<waiting, executing>>
      BY <2>1 DEF runVars
    <2>. QED BY <2>1, <2>2, FlightFrame, HeldFrame, PaceFrame
             DEF paceVars, Core, Clocks, Places, Holding
  <1>2. ASSUME NEW r \in Runners, RunDueStep(r) PROVE Core'
    BY <1>2, CollectKeeps, PassSteps, ClaimKeeps, AdvanceKeeps, LaunchKeeps DEF RunDueStep
  <1>3. CASE \E e \in Entries : ScheduleStep(e)
    BY <1>3, PlainSteps, StampSteps DEF ScheduleStep
  <1>4. CASE WGDone \/ \E e \in Entries : JobStep(e)
    BY <1>4, JobKeeps, DoneKeeps
  <1>5. CASE \/ \E n \in Names : Unschedule(n)
             \/ \E r \in Runners : ContextEnds(r)
             \/ NextSleep \/ LoopExits \/ Tick
    BY <1>5, PlainSteps
  <1>6. CASE StartLoop \/ CallRunDue \/ LoopWakes
    BY <1>6, EnterSteps
  <1>7. CASE StopMark \/ StopStep
    BY <1>7, StopKeeps
  <1>. QED BY <1>1, <1>2, <1>3, <1>4, <1>5, <1>6, <1>7, RunnersAre DEF Next, LoopStep

LEMMA InitCore == Init => Core /\ Flags
  <1>. SUFFICES ASSUME Init PROVE Core /\ Flags
    OBVIOUS
  <1>1. Clocks /\ Places /\ Flights
    BY BoundAssumption DEF Init, Clocks, Places, Flights, Runners, Zero
  <1>2. Counts /\ Held
    <2>1. InFlight = {}
      BY DEF Init, InFlight
    <2>. QED BY <2>1, FS_EmptySet
         DEF Init, Counts, Guarded, NoOverlap, Grouped, Awaited, StopAwaitsInFlight, Held, Holding
  <1>3. Paces
    BY DEF Init, Paces, Fresh, Advanced, Noticed, InRunDue, Ripe
  <1>4. Flags
    BY Zenon DEF Init, Flags
  <1>. QED BY <1>1, <1>2, <1>3, <1>4 DEF Core

\* The inductive invariant.
LEMMA Inductive == Spec => []IInv
  <1>1. IInv <=> Core /\ Flags
    BY TypeParts, Zenon DEF IInv, Core
  <1>2. Init => IInv
    BY <1>1, InitCore
  <1>3. IInv /\ [Next]_vars => IInv'
    <2>1. TypeOK' <=> Flags' /\ Clocks' /\ Places' /\ Flights'
      BY Zenon DEF TypeOK, Flags, Clocks, Places, Flights
    <2>. QED BY <1>1, <2>1, CoreKept, NextFlags, Zenon DEF IInv, Core
  <1>. QED BY <1>2, <1>3, PTL DEF Spec

-----------------------------------------------------------------------------
(* The theorems *)

\* The running flag keeps invocations of one entry apart, also when the loop and
\* a caller of RunDue have both collected it (scheduler.go, runDue's compare and
\* swap): never two at a time, for any jobs, intervals and limit.
THEOREM OneAtATime == Spec => []NoOverlap
  <1>1. IInv => NoOverlap
    BY DEF IInv, Counts, Guarded
  <1>. QED BY <1>1, Inductive, PTL

\* The WaitGroup counts exactly the invocations launched and the goroutines that
\* have yet to call Done, never below zero, and a Stop that returns nil has waited
\* for every invocation launched before its call (what RunDue has claimed and not
\* yet added to the WaitGroup is not among them).
THEOREM StopWaits == Spec => []InFlightCounted
  <1>1. IInv => InFlightCounted
    BY DEF IInv, Counts, Grouped, Awaited, InFlightCounted
  <1>. QED BY <1>1, Inductive, PTL

\* Launches are paced: a one-shot runs once, and a periodic entry starts again
\* only an interval after the RunDue that started it, unless two calls of RunDue
\* overlap (advanceNext counts from the time RunDue read).
THEOREM RunsArePaced == Spec => PacedRuns
  <1>. USE DEF regVars, runDueVars, loopVars, stopVars, runVars, ghosts
  <1>. DEFINE Pace == \A r \in Runners, e \in Entries :
                        Launched(r, e) => r \in overlapped \/ ~TooEarly(r, e)
  <1>1. ASSUME IInv, Next, NEW r \in Runners, NEW e \in Entries, Launched(r, e)
        PROVE  r \in overlapped \/ ~TooEarly(r, e)
    <2>1. rpc[r] = "launch"
      <3>1. ~(running' \subseteq running)
        BY <1>1 DEF Launched
      <3>2. ~WGDone /\ \A f \in Entries : ~ScheduleStep(f) /\ ~JobStep(f)
        BY <3>1 DEF WGDone, ScheduleStep, ScheduleCheck, ScheduleInsert, ScheduleSignal,
                    JobStep, BeginJob, AcquireFails, EndJob, Ended
      <3>3. ~StartLoop /\ ~NextSleep /\ ~LoopWakes /\ ~LoopExits /\ ~CallRunDue /\ ~Tick
        BY <3>1 DEF StartLoop, NextSleep, LoopWakes, LoopExits, CallRunDue, Tick
      <3>4. /\ ~StopMark /\ ~StopStep
            /\ \A n \in Names : ~Unschedule(n)
            /\ \A q \in Runners : ~ContextEnds(q)
        BY <3>1 DEF StopMark, StopStep, StopCancel, WaitInflight, WaitWakes, Unschedule,
                    ContextEnds
      <3>5. PICK q \in Runners : RunDueStep(q)
        BY <1>1, <3>2, <3>3, <3>4, RunnersAre DEF Next, LoopStep
      <3>6. PICK f \in Entries : Claim(q, f)
        BY <3>1, <3>5 DEF RunDueStep, Collect, Skip, Advance, Launch, GoRun, RunDueReturns
      <3>7. r = q
        BY <1>1, <3>6 DEF Launched, Claim, IInv, TypeOK
      <3>. QED BY <3>6, <3>7 DEF Claim
    <2>2. e \in due[r]
      BY <1>1 DEF Launched
    <2>3. ASSUME r \notin overlapped PROVE nextDue[e] # Zero /\ nextDue[e] <= at[r]
      BY <1>1, <2>1, <2>2, <2>3 DEF IInv, Paces, Ripe
    <2>4. ASSUME lastAt[e] # Never, nextDue[e] # Zero
          PROVE  Interval[e] > 0 /\ nextDue[e] = lastAt[e] + Interval[e]
      BY <1>1, <2>4 DEF IInv, Paces, Advanced
    <2>5. nextDue[e] \in Int /\ at[r] \in Int /\ Interval[e] \in Int
      BY <1>1, JobAssumption DEF IInv, TypeOK
    <2>. QED BY <2>3, <2>4, <2>5 DEF TooEarly
  <1>2. ASSUME UNCHANGED vars PROVE \A r \in Runners, e \in Entries : ~Launched(r, e)
    BY <1>2 DEF vars, Launched
  <1>3. IInv /\ [Next]_vars => [Pace]_vars
    BY <1>1, <1>2
  <1>. QED BY <1>3, Inductive, PTL DEF PacedRuns, Spec

=============================================================================
