------------------------------ MODULE ErrGroup ------------------------------
(* internal/errgroup: groups of goroutines that share one limiter.  The      *)
(* limiter is the abstract Limiter, which Semaphore implements.  Each group  *)
(* has a caller that starts tasks with Go or TryGo and then waits; running   *)
(* tasks start others of their group in the same two ways.  SetLimiter is    *)
(* called before any Go, as its comment requires, and is the choice of       *)
(* limited.  A task that panics ends the program and is left out.            *)
EXTENDS Naturals, FiniteSets

CONSTANTS Groups, Tasks,
          GroupOf,     \* task -> its group
          Limit,       \* permits of the shared limiter
          None, Main   \* Main: the goroutine that uses the group

ASSUME ErrGroupAssumption == /\ GroupOf \in [Tasks -> Groups]
                             /\ IsFiniteSet(Tasks)
                             /\ Limit \in Nat \ {0}
                             /\ None \notin Tasks /\ Main \notin Tasks

VARIABLES limited,  \* the groups with the limiter installed
          at,       \* where each task is
          by,       \* who is blocked in Go for it: Main, another task or nobody
          wg,       \* group -> count of its WaitGroup
          err,      \* group -> the first error, the task it came from
          ctx,      \* groups whose derived context is cancelled
          main,     \* where the caller of each group is
          call      \* the limiter

groupVars == <<limited, at, by, wg, err, ctx, main, call>>

\* The contexts of tasks are those of their groups.
L == INSTANCE Limiter WITH Clients <- Tasks, Capacity <- Limit,
                           cancelled <- {t \in Tasks : GroupOf[t] \in ctx}

States == {"new", "asking", "running", "returned", "released", "done", "refused"}

\* A task whose function is blocked in a Go of its own.
Blocked(t) == \E u \in Tasks : by[u] = t

MainBlocked(g) == \E u \in Tasks : GroupOf[u] = g /\ by[u] = Main

GroupInit == /\ limited \in SUBSET Groups
             /\ at = [t \in Tasks |-> "new"]
             /\ by = [t \in Tasks |-> None]
             /\ wg = [g \in Groups |-> 0]
             /\ err = [g \in Groups |-> None]
             /\ ctx = {}
             /\ main = [g \in Groups |-> "go"]
             /\ call = [t \in Tasks |-> L!Out]

\* Who may start task t: the group's caller before it waits, unless it is
\* blocked in a Go, or a running task of the group.
Starts(c, t) == \/ c = Main /\ main[GroupOf[t]] = "go"
                   /\ ~MainBlocked(GroupOf[t])
                \/ c \in Tasks /\ GroupOf[c] = GroupOf[t] /\ at[c] = "running" /\ ~Blocked(c)

Set(t, s) == at' = [at EXCEPT ![t] = s]
Caller(c, t) == by' = [by EXCEPT ![t] = c]

\* wg.Add(1) and the new goroutine.
Spawn(t) == /\ Set(t, "running")
            /\ wg' = [wg EXCEPT ![GroupOf[t]] = @ + 1]

\* Mutant: an error is recorded for the group only when it is cancelled by it.
RecordErrFirstCancel(t) == LET g == GroupOf[t] IN
                /\ err' = [err EXCEPT ![g] = IF g \notin ctx THEN t ELSE @]
                /\ ctx' = ctx \union {g}

\* errOnce: the first error is kept and cancels the context.
RecordErr(t) == LET g == GroupOf[t] IN
                /\ err' = [err EXCEPT ![g] = IF @ = None THEN t ELSE @]
                /\ ctx' = IF err[g] = None THEN ctx \union {g} ELSE ctx

\* Go without a limiter spawns, whatever the context.
GoUnlimited(c, t) == /\ at[t] = "new" /\ Starts(c, t) /\ GroupOf[t] \notin limited
                     /\ Spawn(t)
                     /\ UNCHANGED <<limited, by, err, ctx, main, call>>

\* Go asks the limiter for a permit; a cancelled context is turned away at once
\* and recorded.
GoAsk(c, t) == /\ at[t] = "new" /\ Starts(c, t) /\ GroupOf[t] \in limited
               /\ \/ /\ L!Ask(t, 1)
                     /\ Set(t, "asking") /\ Caller(c, t)
                     /\ UNCHANGED <<err, ctx>>
                  \/ /\ GroupOf[t] \in ctx
                     /\ RecordErr(t) /\ Set(t, "refused")
                     /\ UNCHANGED <<call, by>>
               /\ UNCHANGED <<limited, wg, main>>

GoGranted(t) == /\ at[t] = "asking"
                /\ L!Grant(t)
                /\ Spawn(t) /\ Caller(None, t)
                /\ UNCHANGED <<limited, err, ctx, main>>

GoRefused(t) == /\ at[t] = "asking"
                /\ L!Refuse(t)
                /\ RecordErr(t) /\ Set(t, "refused") /\ Caller(None, t)
                /\ UNCHANGED <<limited, wg, main>>

\* Mutant: TryGo spawns although the limiter said no.
TryGoAlways(c, t) == /\ at[t] = "new" /\ Starts(c, t)
                     /\ call' = [call EXCEPT ![t] = [st |-> "holds", n |-> 1]]
                     /\ Spawn(t)
                     /\ UNCHANGED <<limited, by, err, ctx, main>>

\* TryGo that returns true; it does not look at the context.
TryGo(c, t) == /\ at[t] = "new" /\ Starts(c, t)
               /\ IF GroupOf[t] \in limited THEN L!Take(t, 1) ELSE UNCHANGED call
               /\ Spawn(t)
               /\ UNCHANGED <<limited, by, err, ctx, main>>

\* The task's function ends, with or without an error.
FnReturns(t) == /\ at[t] = "running" /\ ~Blocked(t)
                /\ \/ RecordErr(t)
                   \/ UNCHANGED <<err, ctx>>
                /\ Set(t, "returned")
                /\ UNCHANGED <<limited, by, wg, main, call>>

\* Mutant: the permit stays out after the group is cancelled.
ReleaseUncancelled(t) == /\ at[t] = "returned"
                         /\ IF GroupOf[t] \in limited \ ctx THEN L!GiveBack(t) ELSE UNCHANGED call
                         /\ Set(t, "released")
                         /\ UNCHANGED <<limited, by, wg, err, ctx, main>>

\* The deferred release, which comes before the deferred Done.
ReleasePermit(t) == /\ at[t] = "returned"
                    /\ IF GroupOf[t] \in limited THEN L!GiveBack(t) ELSE UNCHANGED call
                    /\ Set(t, "released")
                    /\ UNCHANGED <<limited, by, wg, err, ctx, main>>

\* The goroutine's last step.
Done(t) == /\ at[t] = "released"
           /\ wg' = [wg EXCEPT ![GroupOf[t]] = @ - 1]
           /\ Set(t, "done")
           /\ UNCHANGED <<limited, by, err, ctx, main, call>>

\* The caller has made its last Go and calls Wait, which returns the error and
\* cancels the context when the count is zero.
CallWait(g) == /\ main[g] = "go"
               /\ ~MainBlocked(g)
               /\ main' = [main EXCEPT ![g] = "wait"]
               /\ UNCHANGED <<limited, at, by, wg, err, ctx, call>>

WaitReturn(g) == /\ main[g] = "wait" /\ wg[g] = 0
                 /\ main' = [main EXCEPT ![g] = "waited"]
                 /\ ctx' = ctx \union {g}
                 /\ UNCHANGED <<limited, at, by, wg, err, call>>

\* The context the group was derived from is cancelled.
CancelParent(g) == /\ g \notin ctx
                   /\ ctx' = ctx \union {g}
                   /\ UNCHANGED <<limited, at, by, wg, err, main, call>>

TaskStep(t) == GoGranted(t) \/ GoRefused(t) \/ FnReturns(t) \/ ReleasePermit(t) \/ Done(t)

GroupNext == \/ \E t \in Tasks :
                  \/ \E c \in Tasks \union {Main} : GoUnlimited(c, t) \/ GoAsk(c, t) \/ TryGo(c, t)
                  \/ TaskStep(t)
             \/ \E g \in Groups : CallWait(g) \/ WaitReturn(g) \/ CancelParent(g)

\* Functions end and the limiter serves whoever fits: WF suffices, as there are
\* finitely many tasks.
Fairness == /\ \A t \in Tasks : WF_groupVars(TaskStep(t))
            /\ \A g \in Groups : WF_groupVars(WaitReturn(g))

GroupSpec == GroupInit /\ [][GroupNext]_groupVars /\ Fairness

-----------------------------------------------------------------------------
Goroutines(g) == {t \in Tasks : GroupOf[t] = g /\ at[t] \in {"running", "returned", "released"}}

\* Types; the WaitGroup's count is that of the goroutines not done.
GroupTypes == /\ limited \subseteq Groups /\ ctx \subseteq Groups
              /\ at \in [Tasks -> States]
              /\ by \in [Tasks -> Tasks \union {Main, None}]
              /\ \A g \in Groups : wg[g] = Cardinality(Goroutines(g))
              /\ err \in [Groups -> Tasks \union {None}]
              /\ main \in [Groups -> {"go", "wait", "waited"}]

\* The shared limiter bounds the functions running in all limited groups
\* together, started by Go or TryGo, from the callers or from tasks, and every
\* permit that is out belongs to a goroutine that will return it, also after
\* refusals and cancellations (errgroup.go:143).
WithinLimit ==
  /\ Cardinality({t \in Tasks : GroupOf[t] \in limited /\ at[t] \in {"running", "returned"}}) <= Limit
  /\ \A t \in Tasks : call[t].st = "holds" <=>
       GroupOf[t] \in limited /\ at[t] \in {"running", "returned"}

\* When Wait has returned, no goroutine of the group is left, and none starts
\* any more (errgroup.go:166).
WaitCovers == \A g \in Groups : main[g] = "waited" =>
                \A t \in Tasks : GroupOf[t] = g => at[t] \in {"new", "done", "refused"}

\* A task turned away is never passed over in silence: the group has an error,
\* and it comes from a task that failed or was refused (errgroup.go:137).
RefusedIsTold == \A t \in Tasks :
  /\ at[t] = "refused" => err[GroupOf[t]] # None
  /\ err[GroupOf[t]] = t => at[t] \in {"returned", "released", "done", "refused"}

\* Everyone who holds a permit is blocked in a Go of its own.
AllNested == /\ ~L!Fits(1)
             /\ \A t \in Tasks : call[t].st = "holds" => Blocked(t)

\* Wait returns, in every group that shares the limiter, unless running tasks
\* that call Go hold all the permits and wait for each other (errgroup.go:136).
WaitReturns == \A g \in Groups : (main[g] = "wait") ~> (main[g] = "waited" \/ AllNested)

\* Each WaitGroup counts its goroutines exactly (types), and the limit holds over
\* all groups (errgroup.go:143).
LimitKept == GroupTypes /\ WithinLimit

\* What Wait's return tells its caller: all is over, and nothing was refused in
\* silence (errgroup.go:137, 169).
WaitTells == WaitCovers /\ RefusedIsTold

=============================================================================
