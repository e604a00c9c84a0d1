# A TLA+ development for mcpcheck

mcpcheck validates MCP servers: it reads the tools a server declares (from JSON,
from Python or TypeScript source, or from the running server), runs a set of
rules over them and reports findings through its output and its exit code. Beside
that command the repository holds a family of small concurrent packages. The
modules here model both, TLC checks them on small instances, and TLAPS proves the
central safety properties for every value of the constants.

## The system

### The command

| part | state | operations | what makes it correct |
|---|---|---|---|
| `cmd/mcpcheck` | flags, the two tool sets, the findings | parse, load, analyse, write, exit | the exit code is 1 exactly when a tool set offends against an error rule; all findings are written |
| `scanner` static intakes | none | `Load` picks an intake by extension | (string processing) |
| `scanner.LoadLive` | subprocess, two pipes, a deadline | start, handshake, close, wait | the tools analysed are those the server advertises; the process is waited for; the deadline ends it |
| `v2` | the registry | `Register`, `Run`, `RunProject`, `RunComparison` | every rule sees every tool of its scope |
| `rules` | none | eleven rules in three scopes | each reports what the README table says |
| `output` | none | text, JSON, SARIF | nothing is lost; text is grouped by tool and rule |

main is sequential. What is hard is the live intake: a server that writes lines
nobody asked for, hangs, exits half way, or is started by a launcher.

### The packages

| package | state | how it is concurrent | what makes it correct |
|---|---|---|---|
| `limiter` | permit count, mutex, condition variable | callers, one watcher goroutine per blocked call | permits conserved, no lost wakeup |
| `circuitbreaker` | state, failure count, opening time | calls in flight while the state changes, callbacks with the lock dropped | one probe, trips on a streak, half-open ends |
| `scheduler` | entries with a running flag and a due time, wake channel | the loop, direct `RunDue`, job goroutines, `Stop` | no overlap, no lost wakeup, `Stop` waits |
| `cacheutil.AsyncWriter` | channel, closed flag, two WaitGroups | submitters, workers, `Flush`, `Close` | accepted jobs run once, errors are reported, no send on a closed channel |
| `errgroup` | limiter, first error, WaitGroup | goroutines of the groups, which share the limiter and start one another | the limit holds over all groups, Wait leaves nobody behind, no task is refused in silence |
| `eventbus` | subscriber map, per-subscriber queues | publishers, subscriber goroutines, `Close` | every event before `Close` is handled |
| `kv` | sharded map with expiry | callers, a janitor, sweeps shard by shard | callers see a map with expiry, whatever is removed behind the scenes |
| `ratelimit` | tokens, time of last refill | callers | never more than burst + rate * time |
| `shutdown` | hooks, started flag | callers, hook goroutines with timeouts | each hook runs once, in reverse order, and one that did not end well shows in the error |
| `retry` | none | one caller | bounded attempts and delays |
| `fsutil`, `cacheutil.VersionedDir` | files | processes that may crash at every call | readers see the old or the new content, and no entry of another version |
| `perf`, `logger`, `vfs`, `proc`, `httpx`, `clock`, `idgen`, `random`, `env`, `tokens` | small or none | one lock at most | (wrappers, fakes and pure functions) |

`scheduler` and `errgroup` use `limiter`; `kv`, `ratelimit`, `circuitbreaker`
and `scheduler` read `clock`. mcpcheck itself does not import the packages of the
second table yet.

## The modules

| module | models | run |
|---|---|---|
| `LiveIntake` | `internal/scanner/liveintake.go`, with the server as environment | through `Mcpcheck` |
| `Rules` | `internal/v2`, `internal/rules`, the order of `internal/output/text.go` | through `Mcpcheck` |
| `Mcpcheck`, `McpcheckProofs` | `cmd/mcpcheck/main.go`; composes the two above | `mcpcheck`, `live_gate` |
| `Limiter` | the interface of `internal/limiter`: an abstract specification | through the next two |
| `Semaphore`, `SemaphoreProofs` | `internal/limiter`; implements `Limiter` | `semaphore` |
| `ErrGroup` (proofs in `SemaphoreProofs`) | `internal/errgroup`, over `Limiter` | `errgroup` |
| `CircuitBreaker` (proofs in `PacingProofs`) | `internal/circuitbreaker` | `breaker` |
| `Scheduler`, `SchedulerProofs` | `internal/scheduler` | `scheduler` |
| `AsyncWriter`, `AsyncWriterProofs` | `internal/cacheutil/async_writer.go` | `async_writer` |
| `EventBus`, `EventBusProofs` | `Async` of `internal/eventbus` | `event_bus` |
| `KVStore` | the `Store` interface of `internal/kv`: an abstract specification | through `KV` |
| `KV`, `KVProofs` | `internal/kv`; implements `KVStore` | `kv` |
| `VersionedDir`, `VersionedDirProofs` | `internal/cacheutil/versioned_dir.go` over `internal/fsutil/atomic.go` | `versioned_dir` |
| `Shutdown` (proofs in `AsyncWriterProofs`) | `internal/shutdown` | `shutdown` |
| `RateLimit`, `Retry` | `internal/ratelimit`, `internal/retry` | through `Pacing` |
| `Pacing`, `PacingProofs` | callers that put `retry.Do` around operations on one bucket; composes the two above | `pacing` |

Each `MC...` module gives the constants of its module small values. Definitions
whose comment begins with "mutant" or "Mutant" are plausible bugs: each is put in the place of
the definition after it to see that a property notices. They are not part of any
specification.

### Mcpcheck, LiveIntake, Rules

`mpc` is where main is; `lpc` where LoadLive and FetchToolsLive are, one value per
write or read that can block. The pipes are sequences of lines; a line is what
`readResponse` and the JSON decoding tell apart: a result with tools (an initialize
result has none), an error, a notification, garbage. `procs` is the set of processes that hold the
pipes' other ends: the command, and, when the command is a launcher (`wrapped`),
the child that serves. The server's actions are `ServerRead`, `ServerAnswer`,
`ServerChatter` and `ProcExit`, in any order and with no fairness. `Expire` is the
deadline of the context, `Kill` the goroutine of os/exec.

Rules are operators from tools to sequences of findings. Names are numbers in the
order `sort.Strings` gives them, 0 is the empty one; what a regular expression or a
name list accepts is a constant set. `Offends` states the three error rules
again, without the code's maps and loops, and `ExitCodeTellsOffence` compares them.
Sorting is stated by rank: the place of a finding is the number of those before it in
the order of the sort (`StableSort`), and `InOrder` lists a set of names the same way. A
tool list is any sequence of tools with a number for a name, with or without a secret in
the description, and with examples that are valid or not and show personal data or not
(`IsToolList`).

### Semaphore

The steps of AcquireN are cut before the lock, between the check of the context
and the entry into the condition variable's wait list, and at each wakeup. The
watcher goroutine fires without the lock. ReleaseN is cut between the unlock and
the broadcast. A goroutine returns exactly what it was granted.

### CircuitBreaker

`transition` drops the lock around `OnStateChange`: `allow` and `recordResult` are
cut there where something follows (`ProbeNotified`, `ReopenNotified`). The ghost
`probe` is the set of calls admitted in the half-open state, `streak` counts
consecutive failures, `stale`, `late` and `lost` remember a stale result or
`Reset`, a late write of the count, and a panic.

### Scheduler

An entry is one call of Schedule. Two goroutines run RunDue, the loop and a direct
caller. RunDue is cut wherever the other one, a job or Stop can come in between: reading
the clock (`Enter`), collecting under the lock (`Collect`), and for each collected entry
the compare-and-swap (`Skip` or `Claim`), advanceNext under its own lock (`Advance`) and
wg.Add with go (`Launch`: Add to go is one step, as only the new goroutine depends on the
second). `cur` is the entry claimed and not yet launched. A job's goroutine ends in two
steps: release and the running flag (`Ended`), then `WGDone`; `leaving` counts those in
between. `by` is who launched an invocation, as its context decides whether the limiter's
Acquire can fail: `ContextEnds` is the owner of the context of Start or RunDue, and Stop
ends the loop's.

Stop is marking, cancelling and waiting. As in `AsyncWriter`, a Wait that finds the count
above zero parks, the Done that reaches zero makes it "woken", and if the count was
raised before it runs, it panics and the program is gone (`Panicked`). `lastAt`,
`overlapped` and `awaited` are ghosts; `awaited` are the invocations launched, which is
to say counted, when Stop was called, that have not ended.

### AsyncWriter

Submit holds the mutex over three steps (check and Add; send or give back; count),
so `MuFree` is "no Submit is in between". The workers receive without it. `WGDone`
and `FlushWakes` are the part of sync.WaitGroup that matters here: the Done that
reaches zero releases the parked waiters, and one that finds the count above zero
when it runs panics.

### EventBus

closed is an atomic read without the mutex, so Subscribe and Publish are cut after
it: `SubscribeCheck`, `SubscribeList` (under mu), `SubscribeGo` (Add and go);
`PublishCheck`, `PublishCollect` (under mu, in any order, as a Go map gives), then
one step per subscriber: `PublishSend`, `PublishDrop` with DropWhenFull,
`PublishSkip` when stop is closed. A select with two ready cases takes either.
`Take`, `StopSeen`, `HandlerReturns` and `Exit` are runSub; "drain" is its inner
loop. Close is the swap, the sweep under mu and the Wait; a stray is a subscriber
that Subscribe lists after the sweep. The ghosts are `handled`, `accepted` (queued
before the stop), `before` (the real-time order of Publish calls), `due`, `gone`
and `missed` (whom a Publish found and whom it left out) and `served`.

### Limiter, ErrGroup

`Limiter` is what a client may rely on: a request asks, and is granted as a whole
when it fits or refused when its context is cancelled. `Semaphore!ImplementsLimiter`
shows that the mutex, the condition variable and the watchers implement it;
`Calls` is the refinement mapping. `ErrGroup` uses the operations of `Limiter`
for its permits, so that what it shows rests on the interface only. A task is asking
(blocked in `Go`, `by` says whose), running, returned, released, done or refused. The
deferred calls of `run` are two steps, release before Done. `Starts` is who may call
`Go`: the group's caller before it waits, and every running task of the group.

### KVStore, KV

`KV` cuts every operation where no shard lock is held: Get between its copy, its look
at the clock and its removal; Len and Sweep between shards; GetOrSet around compute.
`KVStore` has none of that: a map whose entries vanish when their time comes. The
refinement mapping is `Live`, the entries that are not expired; `ask` and `span` are
history variables for Gets and Lens in progress. An answer of Get has to be one the key
would have given at some moment of the call; a miss may also stem from an entry of that
time that expired after it was replaced, which is what the code does (see the
findings).

### VersionedDir

One file stands for each sidecar and each area of the cache; its content is which
version wrote it, whether it is whole and whether it is synced. Open is one step per
sidecar read, per removed file, per call of writeAtomic. `Fail` lets any call fail,
`Kill` ends a process and `PowerLoss` all of them, with the loss of what was not
synced. Directory operations are taken to be durable in order, and processes that
run at the same time to have the same version. `cut` remembers a Clear that took
a sidecar while entries or users were left.

### Shutdown

`snap` is the copy of the hooks the first Shutdown runs. The hook's goroutine and the
select of runHook are separate: a hook may end after it was given up, or never, and with
both cases ready the select takes either. `due` is a history variable: the hooks that
should run.

### RateLimit, Retry, Pacing

Tokens are counted in units so that a tick adds a whole number (`Rate`); time appears as
the age of `lastFill` and what is left of timers, so that it may run for ever. An age
of `MaxAge` fills an empty bucket, so greater ones are the same. `Back` sets the clock
back. `ideal` is a bucket filled at every tick of true time. In `Retry` the multiplier
and the jitter are fractions, and a jittered delay is any in its range. `Pacing` runs
several callers, patient ones (`WaitN`) and others (`AllowN`), on one bucket.

## The runs

| run | states | what it shows |
|---|---|---|
| `mcpcheck` | 230,240 | `ExitCodeTellsOffence`, `DriftReportedOnce`, `ReportGrouped` of every analysis; `QuietLiveGate`, `CleanExit`, `ExitsByDeadline` of every live run |
| `semaphore` | 34,048 | `PermitsConserved`, `NoLostWakeup`, `AcquireReturns`; the refinement `ImplementsLimiter` |
| `breaker` | 23,935 | `SingleProbeUnlessStale`, `TripsOnStreak`, `HalfOpenEnds` |
| `scheduler` | 370,916 | `NoOverlap`, `InFlightCounted`, `PacedRuns`, `LoopServes` (what is due is run, and a loop that Stop cancels ends) |
| `async_writer` | 47,367 | `NoSendOnClosed`, `FlushCovers`, `CloseDrains`, `CallsReturn` |
| `event_bus` | 201,379 | `Delivery` (in order, once, none after Unsubscribe), `MissesCounted`, `CloseDrains`, `CallsReturn` (Publish and Close) |
| `kv` | 149,370 | `LenSound`, the refinement `ImplementsStore`, `JanitorServes` (expired entries go, Close returns) |
| `versioned_dir` | 519,543 | `TrustedEntries`, `FilesWhole`, `KeepsEntries` |
| `errgroup` | 171,312 | `LimitKept`, `WaitTells` (nobody left, nothing refused in silence), `WaitReturns` |
| `shutdown` | 70,402 | `HooksInTurn`, `NilMeansAll`, `ShutdownReturns` |
| `pacing` | 319,870 | `BucketIdeal`, `AttemptsBounded`, `DoReturns` |

The type invariant of a module (`TypeOK`, `BreakerTypeOK`, `GroupTypes`, `HookTypes`,
...) is a conjunct of one of its invariants here, or proved (see below).

`live_gate` is a disagreement between the code and the usage text, to which TLC finds
a counterexample: a notification before the initialize response is taken for it, the
initialize result is then read as the tool list, and mcpcheck reports an empty server as
clean.

Other disagreements are recorded in PROJECT.json without a run. The exceptions of the
properties above are exactly these:

* killing a launcher at the deadline does not close stdout, which its child holds
  (`ExitsByDeadline` excepts `wrapped`);
* a cancellation between the look at the context and the wait is not noticed by
  `AcquireN` until somebody releases (`AcquireReturns` has permits come back);
* a call admitted while the breaker was closed ends in the half-open state, and two probes
  run at the same time (`SingleProbeUnlessStale`);
* the count is set to the threshold after a callback, in a breaker that is closed again,
  and one failure trips it (`TripsOnStreak` excepts `late`);
* a probe that panics leaves the breaker half-open for good (`HalfOpenEnds` excepts
  `lost`; no document says what a panic does, so this one is not a finding);
* two calls of RunDue that overlap launch an entry twice, one after the other: a one-shot
  runs twice (`PacedRuns` excepts `overlapped`), and the due time the slower one sets may
  be earlier than the one the loop's timer was set by (`DueIsRun` excepts behaviours with
  a direct RunDue: the loop sees to it when its timer fires, at the latest after
  idleTimeout, which is past the bound on the clock);
* Stop returns and the loop goes on launching jobs, because Start stored its cancel
  function too late (`StopEndsLoop` is about a Stop that finds it) or because the loop was
  past its collection; in particular, between the compare-and-swap and wg.Add an entry is
  marked running and not counted, and Stop does not wait for it (`InFlightCounted` is about
  what was launched at the call);
* a RunDue raises the scheduler's WaitGroup between its reaching zero and the waking of
  Stop, and the WaitGroup panics (`LoopServes` ends there, and Stop does not return);
* a Submit raises the WaitGroup between its reaching zero and the waking of a Flush,
  and the WaitGroup panics (`CallsReturn` of `AsyncWriter` ends there);
* a Subscribe that has passed the check of closed is listed after Close's sweep and
  never stopped, so that Close returns without it, waits for it for ever or panics; and a
  send may come after the subscriber's goroutine has drained and gone (`CloseDrains` and
  `CallsReturn` of `EventBus` except a stray);
* tasks that call Go at the limit wait for each other (`AllNested` in `WaitReturns`),
  and Go without a limiter ignores a cancelled context;
* a Clear cut off after a sidecar went leaves entries the next version trusts (`cut`), and
  so does a version that adds a token (`Agree` compares the tokens both declare);
* Get may report a miss for a key that was never absent (`MayAnswer`);
* a second Shutdown returns nil whatever the first returned, and a deregister function
  may remove nothing once an earlier one has shifted the hooks, or, among equal names, a
  hook that is not its own (`NilMeansAll` assumes `DistinctNames`);
* the first delay of a retry is not capped, and jitter comes on top of the cap
  (`DelayBounded`).

### Bounds

* `mcpcheck`: tool lists of up to three tools with equal names, no name, and each
  error rule broken and kept; two unsolicited lines (`MaxChatter`), one before each
  response.
* `semaphore`: three goroutines, capacity 2, so that one and two permits compete;
  one call each (`MaxCalls`) already gives a waiter, a releaser and a third party.
* `breaker`: three callers are a stale call, a probe and a second probe; threshold 2
  tells a streak from a single failure; four ticks (`MaxTime`) let two cooldowns pass.
* `scheduler`: a periodic job and a one-shot under one name, so that replacement
  happens; a limiter of one permit; two ticks; one of Unschedule, RunDue, Stop and a
  context that ends in a behaviour (`MaxCalls`), beside the loop and the calls of Schedule.
  With any two of them (4,078,547 states; a direct RunDue whose
  context ends is among them) the invariants and `IInv` hold.
* `async_writer`: two jobs, a buffer of one, two workers and two callers: the buffer
  fills, one caller closes while the other flushes. With three jobs (859,046 states)
  the same properties hold.
* `event_bus`: a buffer of one and two loads (`Loads`), one chosen at the start. Two
  subscribers and a publisher of two events: queues fill, one subscriber holds up the
  other's event, a stray comes beside a subscriber that Close waits for. One
  subscriber that may leave, two publishers and a second Close: both publishers hold
  the subscriber when it goes. With one publisher less, Publish could not hang even
  if it did not listen to stop. Two subscribers of which one leaves, with the second
  load as well (363,982 states), give the same result.

* `errgroup`: a group of three tasks and one of one over two permits, with and without
  the limiter in each: two tasks of a group block in nested calls while another group
  needs a permit.
* `kv`: two keys in two shards, two values, lifetimes none and one tick, two ticks, two
  callers and the janitor, three calls (`MaxCalls`): a Get, the Set that overtakes it and
  a Len, Sweep or Close.
* `versioned_dir`: four versions over two tokens (one lacks the second, the others differ
  in one of them), two areas, two processes, four starts and two stops: an Open is cut
  off, another version's after it is cut off too, and a third one opens.
* `shutdown`: three hooks, so that a deregistration shifts two; two callers.
* `pacing`: two callers, a full bucket of two tokens of two units at a rate of three
  units per tick, so that timers are cut short; the default policy and one whose base is
  above its maximum, with jitter; the clock set back once (`MaxBack`).

`CHECK_DEADLOCK` is off where a finite number of calls ends in a legitimate
standstill.

### Fairness

Goroutines that can run do run: weak fairness of every step a goroutine takes by
itself. Nobody has to call anything, contexts need not be cancelled, the server
need not do anything. `Mcpcheck` assumes that the deadline comes and that os/exec then
kills the command. `Semaphore!Spec` assumes that permits come back. `EventBus`
assumes that handlers return without DropWhenFull only: with it they may hang, and
Publish still returns. Weak fairness is enough for the mutexes because there are
finitely many calls. `KV` has strong fairness of the janitor's exit: its select chooses
at random between a tick and a closed stop channel, so it does not pass over the stop for
ever; so has `Scheduler` of the loop's exit, for the same reason. `ErrGroup` assumes that the tasks' functions end; `Shutdown` assumes nothing of the
hooks, as its timeout has to be enough; `Pacing` assumes that time passes.

## The proofs

All proofs are for every value of the constants, of `Spec => []Inv`, of an action
property or of a refinement, from an inductive invariant that TLC checked on the run's
instance first: `IInv`, or, where a module holds the proofs of several components,
`GroupIInv`, `ShutdownIInv`, `BreakerIInv`, `BucketInv` and `RetryInv`; `McpIInv` for the
command. What each one needs beyond the property is what the code relies on. Every
invariant of the runs is stated by a theorem.

| module | theorems | for |
|---|---|---|
| `McpcheckProofs` | `ExitCodeTellsOffence`, `DriftReportedOnce`, `ReportGrouped`, `QuietLiveGate`, `CleanExit` | any tool lists, classes of names, command lines, `MaxChatter` |
| `SemaphoreProofs` | `TypeOK`, `PermitsConserved`, `NoLostWakeup`, `ImplementsLimiter` | finite `Callers`, `Capacity >= 1` |
| | `LimitKept`, `WaitTells` of `ErrGroup` | finite `Tasks`, any groups, `Limit >= 1` |
| `AsyncWriterProofs` | `TypeOK`, `PendingCounts`, `NoSendOnClosed`, `FlushCovers`, `CloseDrains` | finite `Jobs`, any workers, callers, queue size |
| | `HooksInTurn`, `NilMeansAll` of `Shutdown` | finite `Hooks`, any names, closers |
| `SchedulerProofs` | `NoOverlap`, `InFlightCounted`, `PacedRuns` | any entries, names, intervals, due times, limit |
| `EventBusProofs` | `Delivery`, `MissesCounted`, `CloseDrains` | finite subscribers and publishers, any closers, buffer, loads |
| `KVProofs` | `LenSound`, `ImplementsStore` | finite `Keys`, any values, lifetimes, hash, shards, callers |
| `VersionedDirProofs` | `FilesWhole`, `TrustedEntries`, `KeepsEntries` | any versions, tokens, areas, orders, processes |
| `PacingProofs` | `BucketIdeal` (twice), `AttemptsBounded` | any rate, unit, burst, policies, callers |
| | `BreakerTypeOK`, `HalfOpenHasCall`, `SingleProbeUnlessStale`, `TripsOnStreak` of `CircuitBreaker` | any `Goroutines`, `Threshold >= 1` |

* `McpcheckProofs`. The argument has two halves. The first is about main and LoadLive as
  they step: the findings are those of the two sets and of their comparison (`Collected`),
  the report is their sort (`Written`), the exit code follows the findings (`Gated`), the
  live set is what LoadLive returned (`Loaded`). `QuietLiveGate` needs that, as long as no
  line was unasked for, client and server are in step (`InStep`): each request is on its
  way, being served or answered (`Awaited`), so that the next line readResponse takes is
  the answer to the last request, and what was fetched is what was advertised. It is what
  the `live_gate` run shows to fail with one notification. `CleanExit` needs that nothing
  runs before Start and that the Wait of LoadLive is behind it (`CommandKept`). The second
  half is about the data: a place in a finite order is taken exactly once (`RankTaken`), so
  that `InOrder` lists each name once (`InOrderLists`) and `StableSort` rearranges the
  findings and groups them (`SortSays`); what the dispatcher collects from all rules and
  tools (`RunSays`, `FlattenMembers`), what the collision rule's map finds (`CollisionSays`)
  and what the two passes of the comparison leave (`JoinDrift`).
* `SemaphoreProofs`. The wakeup property is not inductive by
  itself: it needs that the mutex is held exactly between lock and unlock
  (`MutexHeld`) and that a goroutine about to enlist still has no room
  (`EnlistsWithoutRoom`), which holds because whoever could make room needs the
  mutex. The count is proved through the set of permits out and its cardinality. For the
  refinement, a call of AcquireN is an Ask, the check that finds room a Grant, one that
  finds the context ended a Refuse, ReleaseN's update a GiveBack; locking, enlisting,
  watchers and broadcasts are stutters. For `ErrGroup`, where a task is fixes its permit
  (`CallFollows`), so that the permits out are counted by the tasks that hold one. `WaitTells`
  needs that whoever is blocked in Go has not gone on, the caller to Wait or the task to its
  end (`AskedBy`): the WaitGroup then cannot reach zero before the new task is counted.
* `AsyncWriterProofs`. The invariant follows a job: it is in the buffer once, or with one
  worker, or done, and each place fixes how often it has run and whether its error is
  recorded. The count is the cardinality of the jobs outstanding. For `Shutdown`, below the
  loop's index nothing has started and above it everything is over or is recorded as an
  error (`Turn`); with distinct names a stale index removes nobody else, so that who is
  owed a run is in the list and then in its copy (`KeptUntilRun`); and the errors were
  returned by some call once the loop is over (`Told`).
* `SchedulerProofs`. `NoOverlap` needs that the running flag is exactly "one invocation, or
  claimed by one runner" (`Guarded`, `Held`), whatever two runners have collected.
  `InFlightCounted` needs that the WaitGroup counts the invocations launched and the
  goroutines with Done to come (`Grouped`), so that at zero nothing launched is left, and
  that whom Stop awaits is among them (`Awaited`). For `PacedRuns`, the due time after a launch is the interval after
  the time RunDue read (`Advanced`), and what a RunDue nobody overlapped collected is
  still due when it is launched (`Ripe`), which needs that two calls at work have noticed
  each other (`Noticed`).
* `EventBusProofs`. The invariant speaks of a subscriber's log, the handled events
  followed by the queued ones: a receive leaves it as it is, a send appends. Order and
  single delivery then follow from three facts: the event of a Publish in progress is in
  the log of nobody still on its list (`Sending`), logged events have been issued
  (`Issued`), and only a Publish that has returned comes before another (`Past`).
  `MissesCounted` is not inductive, as the misses of a Publish in progress are counted in
  dropped before they are in `missed`: `Accounted` adds those (`Lost`). For `CloseDrains`,
  an event queued before the stop is handled or in the queue of a goroutine that has not
  ended (`Kept`), and the WaitGroup counts those goroutines (`Counted`). A walk over the Go
  map is shown to visit each subscriber once (`MapOrder`).
* `KVProofs`. The refinement mapping is `Live`. A Get about to drop its copy has an expired
  one (`Seen`), so that its removal is hidden; a Sweep works with a time that has been
  (`SweepPast`), so that what it removes is expired; the copy a Get answers with was the
  key's during the call. `LenSound` needs the same bounds shard by shard (`Counted`).
* `VersionedDirProofs`. A file reaches its final name whole and synced (`FilesOK`), so
  neither a kill nor a power failure tears it. `TrustedEntries` needs that every entry is
  vouched for by the sidecars (`Vouched`) and, for each process, what its position says:
  agreement on the tokens compared (`Compared`), in the areas cleared (`Cleared`), and
  altogether once it writes (`Agreeing`), with the sidecars it has written in place
  (`Written`). This is the argument that entries have to go before the sidecars change.
* `PacingProofs`. `BucketIdeal` of the bucket alone, and of the bucket under the retry
  loops, whose steps are shown to be steps of the bucket or to leave it alone. The law
  needs that the reference bucket is never above the burst, that a clock never set back
  shows no negative age, that waiters ask for no more than the burst, and that `MaxAge` is
  long enough to fill the bucket. The heart is that filling once after n ticks equals
  filling n times, with the cap in between. `AttemptsBounded` needs that who sleeps has an
  attempt left, and a bound on `Backoff`. For the breaker, `TripsOnStreak` needs a relation
  between the count and the streak in the closed state.

`NextPow2` and `Backoff` are loops written as recursive functions. That such a function
has a value where its recursion says so is an induction, done here by least
counterexample (`LeastNat`, from the well-foundedness of the naturals): `DoublingEnds` and
`TurnsEnd`. `PrefixesEnd` and `FlattenMembers` do the same for the library's `FlattenSeq`,
which concatenates what each rule reports on each tool.

The assumptions on constants are those of the modules, evaluated by TLC in every run: the
types of the tables, finite sets where the code counts, a special value such as `None`
that is none of the ordinary ones, `BufferSize >= 1` and the like, which the code's
defaults ensure. The bounds (`MaxCalls`, `MaxTime`, ...) are arbitrary naturals in the
proofs.

Only model-checked: every liveness property (`AcquireReturns`, `HalfOpenEnds`, `LoopServes`,
`CallsReturn` of the writer and of the bus, `JanitorServes`, `WaitReturns`,
`ShutdownReturns`, `DoReturns`, `ExitsByDeadline`), as fairness is beyond the prover; and
`LiveGate`, which does not hold.

## What is not modelled

The static intakes' regular expressions, JSON and SARIF layout, messages, counters
of `Stats` that no property is about. The deadline also covers the static intake; as that
does not look at it, only the live intake's model has it. A job that calls Flush of its
own writer, and a callback of the breaker that calls back, are outside the models.

`Sync` of the event bus copies its handlers and calls them with no lock held: nothing
waits and nothing is queued. `ratelimit.Manual`, `retry.Instant`, `proc.Fake` and the
other fakes serve tests. `proc`, `httpx`, `env`, `clock`, `idgen`, `random` and `logger`
wrap the standard library; `tokens` computes signatures; `perf` and `vfs` keep a tree or
a map under one lock; `cacheutil`'s paths and encoding are string and byte processing.

## Plan

What is left is `Scheduler` over `Limiter`, in the place of its own count of permits.
