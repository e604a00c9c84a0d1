----------------------------- MODULE Scheduler ------------------------------
(***************************************************************************)
(* internal/scheduler: jobs registered by name, RunDue that launches what  *)
(* is due, the loop of Start, and Stop.                                    *)
(*                                                                         *)
(* An entry stands for one call of Schedule and the *entry it creates.     *)
(* RunDue runs on two goroutines: the loop of Start, and a caller of       *)
(* RunDue itself, as the package's doc offers.  It reads the clock,        *)
(* collects under the lock, then launches without it: the compare-and-swap *)
(* of the running flag, advanceNext under its own lock, wg.Add and go.     *)
(***************************************************************************)
EXTENDS Integers, FiniteSets

CONSTANTS
    Entries,    \* the calls of Schedule
    Names,      \* the job names
    JobName,    \* Job.Name of each entry
    Interval,   \* Job.Interval, 0 when unset
    At,         \* Job.At, 0 when unset
    Limit,      \* permits of the optional limiter, 0 for none
    Idle,       \* idleTimeout
    MaxTime,    \* bound on the clock
    MaxCalls    \* bound on the kinds of other calls: see Callable

ASSUME JobAssumption ==
    /\ JobName \in [Entries -> Names]
    /\ Interval \in [Entries -> Nat]
    /\ At \in [Entries -> Nat]
    /\ \A e \in Entries : Interval[e] > 0 \/ At[e] > 0
ASSUME BoundAssumption ==
    {Limit, Idle, MaxTime, MaxCalls} \subseteq Nat /\ Idle >= 1

NoEntry == "none"
Zero == 0                 \* time.Time{}
Never == -1
Runners == {"loop", "manual"}
Callable == {"Unschedule", "RunDue", "Stop", "cancel"}

VARIABLES
    now,        \* the clock
    jobs,       \* Scheduler.jobs
    spc,        \* where each call of Schedule is
    nextDue,    \* entry.nextDue
    running,    \* the entries whose running flag is set
    rpc,        \* where the two goroutines that call RunDue are
    due,        \* what each of them has collected and not yet treated
    cur,        \* the entry whose flag it has set and whose goroutine it starts next
    at,         \* the time each of them read
    sleepUntil, \* when the loop's timer fires
    wake,       \* a token is in the wake channel
    cancelSet,  \* Start has stored its cancel function
    cancelled,  \* whose context has ended: the loop's, the direct caller's
    stopped,    \* Scheduler.stopped
    stopPC,     \* where the caller of Stop is
    waiting,    \* invocations launched and not yet let in by the limiter
    executing,  \* invocations inside the job's function
    leaving,    \* goroutines that have cleared the flag, with wg.Done to come
    by,         \* who launched the entry's invocation
    wg,         \* the count of Scheduler.wg
    calls,      \* which of Callable has been called
    lastAt,     \* the time of the RunDue that launched the entry last
    overlapped, \* the calls of RunDue that another one has overlapped
    awaited     \* entries with an invocation since before Stop was called

regVars == <<jobs, spc>>
runDueVars == <<rpc, due, cur, at>>
loopVars == <<sleepUntil, wake, cancelSet, cancelled>>
stopVars == <<stopped, stopPC>>
runVars == <<waiting, executing, leaving, by, wg>>
ghosts == <<lastAt, overlapped, awaited>>
vars == <<now, regVars, nextDue, running, runDueVars, loopVars, stopVars,
          runVars, calls, ghosts>>

(* Every variable keeps its type; the WaitGroup's count is not negative.   *)
TypeOK ==
    /\ now \in 0..MaxTime
    /\ jobs \in [Names -> Entries \cup {NoEntry}]
    /\ spc \in [Entries -> {"new", "insert", "signal", "done"}]
    /\ nextDue \in [Entries -> Nat]
    /\ running \in SUBSET Entries
    /\ rpc \in [Runners -> {"idle", "collect", "launch", "advance", "add",
                            "sleep", "asleep", "exited"}]
    /\ due \in [Runners -> SUBSET Entries]
    /\ cur \in [Runners -> Entries \cup {NoEntry}]
    /\ at \in [Runners -> 0..MaxTime]
    /\ sleepUntil \in Nat
    /\ {wake, cancelSet, stopped} \subseteq BOOLEAN
    /\ cancelled \in SUBSET Runners
    /\ stopPC \in {"idle", "cancel", "wait", "parked", "woken", "returned", "panicked"}
    /\ waiting \in [Entries -> Nat] /\ executing \in [Entries -> Nat]
    /\ leaving \in Nat
    /\ by \in [Entries -> Runners]
    /\ wg \in Nat
    /\ calls \in SUBSET Callable
    /\ lastAt \in [Entries -> Nat \cup {Never}]
    /\ overlapped \in SUBSET Runners /\ awaited \in SUBSET Entries

Init ==
    /\ now = 0
    /\ jobs = [n \in Names |-> NoEntry]
    /\ spc = [e \in Entries |-> "new"]
    /\ nextDue = [e \in Entries |-> Zero]
    /\ running = {}
    /\ rpc = [r \in Runners |-> "idle"]
    /\ due = [r \in Runners |-> {}]
    /\ cur = [r \in Runners |-> NoEntry]
    /\ at = [r \in Runners |-> 0]
    /\ sleepUntil = 0
    /\ wake = FALSE /\ cancelSet = FALSE /\ cancelled = {}
    /\ stopped = FALSE /\ stopPC = "idle"
    /\ waiting = [e \in Entries |-> 0] /\ executing = [e \in Entries |-> 0]
    /\ leaving = 0
    /\ by = [e \in Entries |-> "loop"]
    /\ wg = 0 /\ calls = {}
    /\ lastAt = [e \in Entries |-> Never]
    /\ overlapped = {} /\ awaited = {}

-----------------------------------------------------------------------------
(* Who calls the scheduler calls each of these once, MaxCalls of them in   *)
(* one behaviour, and may do so at any time.                               *)
MayCall(c) ==
    /\ c \notin calls /\ Cardinality(calls) < MaxCalls
    /\ calls' = calls \cup {c}

(* The context handed to Start or to RunDue is cancelled by its owner. *)
ContextEnds(r) ==
    /\ r = "manual" => "RunDue" \in calls
    /\ MayCall("cancel")
    /\ cancelled' = cancelled \cup {r}
    /\ UNCHANGED <<now, regVars, nextDue, running, runDueVars, sleepUntil, wake,
                   cancelSet, stopVars, runVars, ghosts>>

(* Schedule: the check of stopped and the clock, the insertion under the   *)
(* lock, the wake signal.  A refused call changes nothing.                 *)

ScheduleCheck(e) ==
    /\ spc[e] = "new" /\ ~stopped
    /\ spc' = [spc EXCEPT ![e] = "insert"]
    /\ nextDue' = [nextDue EXCEPT ![e] =
                     IF At[e] = Zero THEN now + Interval[e] ELSE At[e]]
    /\ UNCHANGED <<now, jobs, running, runDueVars, loopVars, stopVars, runVars,
                   calls, ghosts>>

ScheduleInsert(e) ==
    /\ spc[e] = "insert"
    /\ spc' = [spc EXCEPT ![e] = "signal"]
    /\ jobs' = [jobs EXCEPT ![JobName[e]] = e]
    /\ UNCHANGED <<now, nextDue, running, runDueVars, loopVars, stopVars, runVars,
                   calls, ghosts>>

(* mutant: no wake *)
ScheduleNoSignal(e) ==
    /\ spc[e] = "signal"
    /\ spc' = [spc EXCEPT ![e] = "done"]
    /\ UNCHANGED <<now, jobs, nextDue, running, runDueVars, loopVars, stopVars,
                   runVars, calls, ghosts>>

ScheduleSignal(e) ==
    /\ spc[e] = "signal"
    /\ spc' = [spc EXCEPT ![e] = "done"]
    /\ wake' = TRUE
    /\ UNCHANGED <<now, jobs, nextDue, running, runDueVars, sleepUntil, cancelSet,
                   cancelled, stopVars, runVars, calls, ghosts>>

(* Unschedule: the removal, then the wake, which only makes the loop sleep *)
(* longer.                                                                 *)
Unschedule(n) ==
    /\ jobs[n] # NoEntry /\ MayCall("Unschedule")
    /\ jobs' = [jobs EXCEPT ![n] = NoEntry]
    /\ wake' = TRUE
    /\ UNCHANGED <<now, spc, nextDue, running, runDueVars, sleepUntil, cancelSet,
                   cancelled, stopVars, runVars, ghosts>>

-----------------------------------------------------------------------------
(* RunDue, on goroutine r *)

Registered(e) == jobs[JobName[e]] = e
DueBy(e, t) == Registered(e) /\ nextDue[e] # Zero /\ nextDue[e] <= t
InRunDue(r) == rpc[r] \in {"collect", "launch", "advance", "add"}

(* The call has read the clock: at[r].  Collecting comes later. *)
Enter(r) ==
    /\ rpc' = [rpc EXCEPT ![r] = "collect"]
    /\ at' = [at EXCEPT ![r] = now]
    /\ overlapped' = IF \E q \in Runners \ {r} : InRunDue(q)
                     THEN Runners ELSE overlapped

Collect(r) ==
    /\ rpc[r] = "collect"
    /\ due' = [due EXCEPT ![r] = {e \in Entries : DueBy(e, at[r]) /\ e \notin running}]
    /\ rpc' = [rpc EXCEPT ![r] = "launch"]
    /\ UNCHANGED <<now, regVars, nextDue, running, cur, at, loopVars, stopVars,
                   runVars, calls, ghosts>>

(* CompareAndSwap fails: the entry is running again already *)
Skip(r, e) ==
    /\ rpc[r] = "launch" /\ e \in due[r]
    /\ e \in running
    /\ due' = [due EXCEPT ![r] = @ \ {e}]
    /\ UNCHANGED <<now, regVars, nextDue, running, rpc, cur, at, loopVars,
                   stopVars, runVars, calls, ghosts>>

(* Mutant: the running flag is stored without a look at what it was *)
ClaimUnchecked(r, e) ==
    /\ rpc[r] = "launch" /\ e \in due[r]
    /\ due' = [due EXCEPT ![r] = @ \ {e}]
    /\ running' = running \cup {e}
    /\ cur' = [cur EXCEPT ![r] = e]
    /\ rpc' = [rpc EXCEPT ![r] = "advance"]
    /\ UNCHANGED <<now, regVars, nextDue, at, loopVars, stopVars, runVars, calls,
                   ghosts>>

(* CompareAndSwap succeeds *)
Claim(r, e) ==
    /\ rpc[r] = "launch" /\ e \in due[r]
    /\ e \notin running
    /\ due' = [due EXCEPT ![r] = @ \ {e}]
    /\ running' = running \cup {e}
    /\ cur' = [cur EXCEPT ![r] = e]
    /\ rpc' = [rpc EXCEPT ![r] = "advance"]
    /\ UNCHANGED <<now, regVars, nextDue, at, loopVars, stopVars, runVars, calls,
                   ghosts>>

(* mutant: a one-shot stays due *)
AdvanceNextAlways(r, e) == at[r] + Interval[e]

(* advanceNext counts from the time RunDue read, not from the launch *)
AdvanceNext(r, e) == IF Interval[e] > 0 THEN at[r] + Interval[e] ELSE Zero

Advance(r) ==
    /\ rpc[r] = "advance"
    /\ nextDue' = [nextDue EXCEPT ![cur[r]] = AdvanceNext(r, cur[r])]
    /\ lastAt' = [lastAt EXCEPT ![cur[r]] = at[r]]
    /\ rpc' = [rpc EXCEPT ![r] = "add"]
    /\ UNCHANGED <<now, regVars, running, due, cur, at, loopVars, stopVars,
                   runVars, calls, overlapped, awaited>>

(* go s.run *)
GoRun(r) ==
    /\ rpc[r] = "add"
    /\ waiting' = [waiting EXCEPT ![cur[r]] = @ + 1]
    /\ by' = [by EXCEPT ![cur[r]] = r]
    /\ cur' = [cur EXCEPT ![r] = NoEntry]
    /\ rpc' = [rpc EXCEPT ![r] = "launch"]
    /\ UNCHANGED <<now, regVars, nextDue, running, due, at, loopVars, stopVars,
                   executing, leaving, calls, ghosts>>

(* mutant: wg.Add is missing *)
LaunchUncounted(r) == GoRun(r) /\ UNCHANGED wg

(* wg.Add comes before go *)
Launch(r) == GoRun(r) /\ wg' = wg + 1

RunDueReturns(r) ==
    /\ rpc[r] = "launch" /\ due[r] = {}
    /\ rpc' = [rpc EXCEPT ![r] = IF r = "loop" THEN "sleep" ELSE "idle"]
    /\ at' = [at EXCEPT ![r] = 0]
    /\ overlapped' = overlapped \ {r}
    /\ UNCHANGED <<now, regVars, nextDue, running, due, cur, loopVars, stopVars,
                   runVars, calls, lastAt, awaited>>

RunDueStep(r) ==
    \/ Collect(r)
    \/ \E e \in Entries : Skip(r, e) \/ Claim(r, e)
    \/ Advance(r) \/ Launch(r)
    \/ RunDueReturns(r)

CallRunDue ==
    /\ rpc["manual"] = "idle" /\ MayCall("RunDue")
    /\ Enter("manual")
    /\ UNCHANGED <<now, regVars, nextDue, running, due, cur, loopVars, stopVars,
                   runVars, lastAt, awaited>>

-----------------------------------------------------------------------------
(* Start: stores its cancel function, then loops.  nextSleep caps the      *)
(* sleep at idleTimeout.                                                   *)

StartLoop ==
    /\ rpc["loop"] = "idle"
    /\ cancelSet' = TRUE
    /\ Enter("loop")
    /\ UNCHANGED <<now, regVars, nextDue, running, due, cur, sleepUntil, wake,
                   cancelled, stopVars, runVars, calls, lastAt, awaited>>

NextDue == {nextDue[e] : e \in {f \in Entries : Registered(f) /\ nextDue[f] # Zero}}

NextSleep ==
    /\ rpc["loop"] = "sleep"
    /\ \E t \in {now + Idle} \cup NextDue :
          /\ \A u \in {now + Idle} \cup NextDue : t <= u
          /\ sleepUntil' = t
    /\ rpc' = [rpc EXCEPT !["loop"] = "asleep"]
    /\ UNCHANGED <<now, regVars, nextDue, running, due, cur, at, wake, cancelSet,
                   cancelled, stopVars, runVars, calls, ghosts>>

(* The select: whatever is ready, in any order *)
LoopWakes ==
    /\ rpc["loop"] = "asleep"
    /\ \/ wake /\ wake' = FALSE
       \/ now >= sleepUntil /\ UNCHANGED wake
    /\ Enter("loop")
    /\ sleepUntil' = 0
    /\ UNCHANGED <<now, regVars, nextDue, running, due, cur, cancelSet, cancelled,
                   stopVars, runVars, calls, lastAt, awaited>>

LoopExits ==
    /\ rpc["loop"] = "asleep" /\ "loop" \in cancelled
    /\ rpc' = [rpc EXCEPT !["loop"] = "exited"]
    /\ sleepUntil' = 0
    /\ UNCHANGED <<now, regVars, nextDue, running, due, cur, at, wake, cancelSet,
                   cancelled, stopVars, runVars, calls, ghosts>>

LoopStep == NextSleep \/ LoopWakes \/ LoopExits \/ RunDueStep("loop")

-----------------------------------------------------------------------------
(* run: the permit, the job's function (safeRun turns a panic into an      *)
(* error), then release and the running flag, and last wg.Done.            *)

InFlight == {e \in Entries : waiting[e] + executing[e] > 0}

BeginJob(e) ==
    /\ waiting[e] > 0
    /\ Limit = 0 \/ Cardinality({f \in Entries : executing[f] > 0}) < Limit
    /\ waiting' = [waiting EXCEPT ![e] = @ - 1]
    /\ executing' = [executing EXCEPT ![e] = @ + 1]
    /\ UNCHANGED <<now, regVars, nextDue, running, runDueVars, loopVars, stopVars,
                   leaving, by, wg, calls, ghosts>>

Ended(e) ==
    /\ running' = running \ {e}
    /\ leaving' = leaving + 1
    /\ by' = [by EXCEPT ![e] = "loop"]
    /\ awaited' = awaited \ {e}
    /\ UNCHANGED <<now, regVars, nextDue, runDueVars, loopVars, stopVars, wg,
                   calls, lastAt, overlapped>>

(* Acquire returns the context's error; the job's function is not called. *)
AcquireFails(e) ==
    /\ waiting[e] > 0 /\ Limit > 0
    /\ by[e] \in cancelled
    /\ waiting' = [waiting EXCEPT ![e] = @ - 1]
    /\ Ended(e)
    /\ UNCHANGED executing

EndJob(e) ==
    /\ executing[e] > 0
    /\ executing' = [executing EXCEPT ![e] = @ - 1]
    /\ Ended(e)
    /\ UNCHANGED waiting

JobStep(e) == BeginJob(e) \/ AcquireFails(e) \/ EndJob(e)

(* wg.Done: reaching zero lets a parked Wait go. *)
WGDone ==
    /\ leaving > 0
    /\ leaving' = leaving - 1
    /\ wg' = wg - 1
    /\ stopPC' = IF wg = 1 /\ stopPC = "parked" THEN "woken" ELSE stopPC
    /\ UNCHANGED <<now, regVars, nextDue, running, runDueVars, loopVars, stopped,
                   waiting, executing, by, calls, ghosts>>

-----------------------------------------------------------------------------
(* Stop: marks the scheduler stopped, cancels the loop if Start has stored *)
(* how, and waits for the WaitGroup or for its own context.  A Stop whose  *)
(* context expires first changes nothing: it is one that goes on waiting.  *)

StopMark ==
    /\ stopPC = "idle" /\ MayCall("Stop")
    /\ stopped' = TRUE
    /\ stopPC' = "cancel"
    /\ awaited' = InFlight
    /\ UNCHANGED <<now, regVars, nextDue, running, runDueVars, loopVars, runVars,
                   lastAt, overlapped>>

(* mutant: the loop is not told *)
StopForgetsLoop ==
    /\ stopPC = "cancel"
    /\ stopPC' = "wait"
    /\ UNCHANGED <<now, regVars, nextDue, running, runDueVars, loopVars, stopped,
                   runVars, calls, ghosts>>

StopCancel ==
    /\ stopPC = "cancel"
    /\ cancelled' = IF cancelSet THEN cancelled \cup {"loop"} ELSE cancelled
    /\ stopPC' = "wait"
    /\ UNCHANGED <<now, regVars, nextDue, running, runDueVars, sleepUntil, wake,
                   cancelSet, stopped, runVars, calls, ghosts>>

(* WaitInflight.  A Wait that was parked and finds the count above zero    *)
(* when it runs panics.                                                    *)
WaitInflight ==
    /\ stopPC = "wait"
    /\ stopPC' = IF wg = 0 THEN "returned" ELSE "parked"
    /\ UNCHANGED <<now, regVars, nextDue, running, runDueVars, loopVars, stopped,
                   runVars, calls, ghosts>>

WaitWakes ==
    /\ stopPC = "woken"
    /\ stopPC' = IF wg = 0 THEN "returned" ELSE "panicked"
    /\ UNCHANGED <<now, regVars, nextDue, running, runDueVars, loopVars, stopped,
                   runVars, calls, ghosts>>

StopStep == StopCancel \/ WaitInflight \/ WaitWakes

Tick ==
    /\ now < MaxTime
    /\ now' = now + 1
    /\ UNCHANGED <<regVars, nextDue, running, runDueVars, loopVars, stopVars,
                   runVars, calls, ghosts>>

ScheduleStep(e) == ScheduleCheck(e) \/ ScheduleInsert(e) \/ ScheduleSignal(e)

Panicked == stopPC = "panicked"     \* the program is gone

Next ==
    /\ ~Panicked
    /\ \/ \E e \in Entries : ScheduleStep(e) \/ JobStep(e)
       \/ \E n \in Names : Unschedule(n)
       \/ \E r \in Runners : ContextEnds(r)
       \/ StartLoop \/ LoopStep
       \/ CallRunDue \/ RunDueStep("manual")
       \/ WGDone
       \/ StopMark \/ StopStep
       \/ Tick

(* The loop, a Schedule or a Stop that has begun, the jobs and the clock   *)
(* go on; who calls the scheduler need not.  The select chooses at random  *)
(* among what is ready, so it does not pass over its context for ever.     *)
Fairness ==
    /\ WF_vars(~Panicked /\ LoopStep) /\ SF_vars(~Panicked /\ LoopExits)
    /\ WF_vars(~Panicked /\ RunDueStep("manual"))
    /\ WF_vars(~Panicked /\ WGDone) /\ WF_vars(~Panicked /\ StopStep)
    /\ WF_vars(~Panicked /\ Tick)
    /\ WF_vars(~Panicked /\ \E e \in Entries : ScheduleInsert(e) \/ ScheduleSignal(e))
    /\ \A e \in Entries : WF_vars(~Panicked /\ JobStep(e))

Spec == Init /\ [][Next]_vars /\ Fairness

-----------------------------------------------------------------------------
(* Properties *)

(* The non-overlap guard: one entry never has two invocations at a time,   *)
(* also when two goroutines have collected it.                             *)
NoOverlap == \A e \in Entries : waiting[e] + executing[e] <= 1

(* A one-shot runs once, and a periodic job starts again only an interval  *)
(* after the RunDue that started it, unless two calls of RunDue overlap.   *)
TooEarly(r, e) ==
    lastAt[e] # Never /\ (Interval[e] = 0 \/ at[r] < lastAt[e] + Interval[e])
Launched(r, e) == e \in due[r] \ due'[r] /\ e \in running' \ running
PacedRuns ==
    [][\A r \in Runners, e \in Entries :
         Launched(r, e) => r \in overlapped \/ ~TooEarly(r, e)]_vars

(* A Stop that returns nil has waited for every invocation whose goroutine *)
(* RunDue had started when Stop was called.  (One that RunDue has only     *)
(* claimed, between the compare-and-swap and wg.Add, is not waited for.)   *)
StopAwaitsInFlight == stopPC = "returned" => awaited = {}

(* The WaitGroup counts the invocations launched and the goroutines that   *)
(* have yet to call Done, no more and no less (types: never below zero),   *)
(* so that Stop waits for what was in flight at its call, whatever is      *)
(* claimed, launched and done meanwhile.                                   *)
InFlightCounted ==
    /\ TypeOK
    /\ wg = Cardinality(InFlight) + leaving
    /\ StopAwaitsInFlight

(* No wakeup is lost: what is due is launched while the loop runs, whether *)
(* Schedule came before, during or after the loop's look at the jobs.  (A  *)
(* direct call of RunDue that is overtaken by the loop sets nextDue back;  *)
(* the loop sees that when its timer fires, past the bound on the clock.)  *)
LoopRunning ==
    /\ rpc["loop"] \notin {"idle", "exited"} /\ "loop" \notin cancelled
    /\ ~Panicked /\ "RunDue" \notin calls
Overdue(n) == jobs[n] # NoEntry /\ DueBy(jobs[n], now)
DueIsRun == \A n \in Names :
               (Overdue(n) /\ LoopRunning) ~> (~Overdue(n) \/ ~LoopRunning)

(* A Stop that finds the cancel function Start has stored ends the loop,   *)
(* whatever jobs are due and whoever signals the loop meanwhile.           *)
StopEndsLoop == (stopPC = "cancel" /\ cancelSet) ~> (rpc["loop"] = "exited" \/ Panicked)

(* The loop launches what is due until Stop tells it to end, and then ends *)
(* (Start's select of the timer, the wake channel and the context).        *)
LoopServes == DueIsRun /\ StopEndsLoop

=============================================================================
