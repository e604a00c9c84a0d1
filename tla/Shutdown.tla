------------------------------ MODULE Shutdown ------------------------------
(* internal/shutdown: hooks are registered and deregistered, then run last   *)
(* to first, each in a goroutine of its own that may succeed, fail, panic or *)
(* hang, under a timeout per hook and a context over all.                    *)
EXTENDS Integers, Sequences, FiniteSets

CONSTANTS Hooks,      \* what callers register, each at most once
          NameOf,     \* hook -> the name it is registered under
          Closers,    \* goroutines that call Shutdown
          HasTimeout  \* New was given a timeout > 0

ASSUME ShutdownAssumption == /\ DOMAIN NameOf = Hooks /\ IsFiniteSet(Hooks)
                             /\ HasTimeout \in BOOLEAN

VARIABLES hooks,    \* Coordinator.hooks
          idx,      \* hook -> the index its deregister function keeps, 0 before Register
          gone,     \* hooks whose deregister function was called before Shutdown
          started,  \* Coordinator.started
          doneCh,   \* doneCh is closed
          due,      \* history: the hooks registered and not deregistered when it began
          snap,     \* the copy of hooks that the first Shutdown runs
          cur,      \* its loop index, 0 when the loop is over
          run,      \* hook -> how far its goroutine is
          expired,  \* the context given to the first Shutdown has ended
          errs,     \* hooks with an error in errs, the aborted one included
          at,       \* where each caller of Shutdown is
          ret       \* what it returned

shutdownVars == <<hooks, idx, gone, started, doneCh, due, snap, cur, run, expired, errs, at, ret>>

Ids(s) == {s[k] : k \in DOMAIN s}

ShutdownInit == /\ hooks = <<>>
                /\ idx = [h \in Hooks |-> 0]
                /\ gone = {}
                /\ started = FALSE /\ doneCh = FALSE
                /\ due = {} /\ snap = <<>> /\ cur = 0
                /\ run = [h \in Hooks |-> "not"]
                /\ expired = FALSE
                /\ errs = {}
                /\ at = [c \in Closers |-> "idle"]
                /\ ret = [c \in Closers |-> "none"]

\* Register appends, also after Shutdown has copied the hooks.
Register(h) == /\ idx[h] = 0
               /\ hooks' = Append(hooks, h)
               /\ idx' = [idx EXCEPT ![h] = Len(hooks) + 1]
               /\ UNCHANGED <<gone, started, doneCh, due, snap, cur, run, expired, errs, at, ret>>

Without(s, k) == SubSeq(s, 1, k - 1) \o SubSeq(s, k + 1, Len(s))

\* Mutant: the name is not compared.
DeregisterByIndex(h) ==
  /\ idx[h] # 0 /\ ~started
  /\ gone' = gone \union {h}
  /\ hooks' = IF idx[h] > Len(hooks) THEN hooks ELSE Without(hooks, idx[h])
  /\ UNCHANGED <<idx, started, doneCh, due, snap, cur, run, expired, errs, at, ret>>

\* The function Register returned: it removes what is at its index, if that
\* bears its name.
Deregister(h) ==
  /\ idx[h] # 0 /\ ~started
  /\ gone' = gone \union {h}
  /\ hooks' = IF idx[h] > Len(hooks) \/ NameOf[hooks[idx[h]]] # NameOf[h]
              THEN hooks ELSE Without(hooks, idx[h])
  /\ UNCHANGED <<idx, started, doneCh, due, snap, cur, run, expired, errs, at, ret>>

-----------------------------------------------------------------------------
Go(c, l) == at' = [at EXCEPT ![c] = l]

\* The first call of Shutdown copies the hooks; any later one waits for doneCh.
CallShutdown(c) ==
  /\ at[c] = "idle"
  /\ IF started
     THEN Go(c, "await") /\ UNCHANGED <<started, due, snap, cur>>
     ELSE /\ Go(c, "loop")
          /\ started' = TRUE
          /\ snap' = hooks
          /\ due' = {h \in Hooks : idx[h] # 0} \ gone
          /\ cur' = Len(hooks)
  /\ UNCHANGED <<hooks, idx, gone, doneCh, run, expired, errs, ret>>

\* Mutant: the hooks are started without waiting for one another.
StartHookAll(c) ==
  /\ at[c] = "loop" /\ cur > 0
  /\ run' = [run EXCEPT ![snap[cur]] = "runs"]
  /\ cur' = cur - 1
  /\ UNCHANGED <<hooks, idx, gone, started, doneCh, due, snap, expired, errs, at, ret>>

\* The loop: the context is looked at before each hook; one that has ended
\* stops the loop with an error.  Otherwise the hook's goroutine starts.
StartHook(c) ==
  /\ at[c] = "loop" /\ cur > 0
  /\ IF expired
     THEN /\ errs' = errs \union {snap[cur]}
          /\ cur' = 0
          /\ UNCHANGED <<run, at>>
     ELSE /\ run' = [run EXCEPT ![snap[cur]] = "runs"]
          /\ Go(c, "select")
          /\ UNCHANGED <<errs, cur>>
  /\ UNCHANGED <<hooks, idx, gone, started, doneCh, due, snap, expired, ret>>

\* A hook ends: well, or with an error or a panic that is turned into one.  It
\* may end after Shutdown has given it up, or never.
HookEnds(h) == /\ run[h] \in {"runs", "left"}
               /\ \E r \in {"ok", "failed"} :
                    run' = [run EXCEPT ![h] = IF @ = "left" THEN "late" ELSE r]
               /\ UNCHANGED <<hooks, idx, gone, started, doneCh, due, snap, cur, expired, errs, at, ret>>

\* runHook's select receives the result ...
Collect(c) ==
  /\ at[c] = "select" /\ run[snap[cur]] \in {"ok", "failed"}
  /\ errs' = IF run[snap[cur]] = "failed" THEN errs \union {snap[cur]} ELSE errs
  /\ Go(c, "loop") /\ cur' = cur - 1
  /\ UNCHANGED <<hooks, idx, gone, started, doneCh, due, snap, run, expired, ret>>

\* Mutant: nothing bounds the wait for a hook but the context of Shutdown.
GiveUpOnlyExpired(c) ==
  /\ at[c] = "select" /\ expired
  /\ errs' = errs \union {snap[cur]}
  /\ run' = [run EXCEPT ![snap[cur]] = IF @ = "runs" THEN "left" ELSE "late"]
  /\ Go(c, "loop") /\ cur' = cur - 1
  /\ UNCHANGED <<hooks, idx, gone, started, doneCh, due, snap, expired, ret>>

\* ... or sees the hook's context end, by its timeout or with the whole, also
\* when the result is there.  The hook is left running.
GiveUp(c) ==
  /\ at[c] = "select" /\ (HasTimeout \/ expired)
  /\ errs' = errs \union {snap[cur]}
  /\ run' = [run EXCEPT ![snap[cur]] = IF @ = "runs" THEN "left" ELSE "late"]
  /\ Go(c, "loop") /\ cur' = cur - 1
  /\ UNCHANGED <<hooks, idx, gone, started, doneCh, due, snap, expired, ret>>

\* The loop is over: doneCh is closed and the joined errors are returned.
FinishShutdown(c) ==
  /\ at[c] = "loop" /\ cur = 0
  /\ doneCh' = TRUE
  /\ ret' = [ret EXCEPT ![c] = IF errs = {} THEN "nil" ELSE "error"]
  /\ Go(c, "returned")
  /\ UNCHANGED <<hooks, idx, gone, started, due, snap, cur, run, expired, errs>>

\* A later call returns nil whatever became of the hooks.
AwaitDone(c) == /\ at[c] = "await" /\ doneCh
                /\ ret' = [ret EXCEPT ![c] = "nil"]
                /\ Go(c, "returned")
                /\ UNCHANGED <<hooks, idx, gone, started, doneCh, due, snap, cur, run, expired, errs>>

\* The caller's context ends.
Expire == /\ ~expired /\ expired' = TRUE
          /\ UNCHANGED <<hooks, idx, gone, started, doneCh, due, snap, cur, run, errs, at, ret>>

ShutdownStep(c) == StartHook(c) \/ Collect(c) \/ GiveUp(c) \/ FinishShutdown(c) \/ AwaitDone(c)

ShutdownNext == \/ \E h \in Hooks : Register(h) \/ Deregister(h) \/ HookEnds(h)
                \/ \E c \in Closers : CallShutdown(c) \/ ShutdownStep(c)
                \/ Expire

\* Shutdown goes on while it can; no hook is obliged to end.
ShutdownSpec == ShutdownInit /\ [][ShutdownNext]_shutdownVars
                /\ \A c \in Closers : WF_shutdownVars(ShutdownStep(c))

-----------------------------------------------------------------------------
\* Types.  The loop's index is that of a hook in the copy.
HookTypes == /\ Ids(hooks) \subseteq Hooks /\ Ids(snap) \subseteq Hooks
             /\ idx \in [Hooks -> 0..Cardinality(Hooks)]
             /\ gone \subseteq Hooks /\ due \subseteq Hooks /\ errs \subseteq Hooks
             /\ started \in BOOLEAN /\ doneCh \in BOOLEAN /\ expired \in BOOLEAN
             /\ cur \in 0..Len(snap)
             /\ run \in [Hooks -> {"not", "runs", "ok", "failed", "left", "late"}]
             /\ at \in [Closers -> {"idle", "loop", "select", "await", "returned"}]
             /\ ret \in [Closers -> {"none", "nil", "error"}]

\* Dependents close before their dependencies: when a hook has started, every
\* hook registered after it has ended or was given up with an error, whatever
\* the timeouts, and no two that were not given up run at once
\* (shutdown.go:128).
LastToFirst == \A j, k \in DOMAIN snap :
  j < k /\ run[snap[j]] # "not" =>
    \/ run[snap[k]] \in {"ok", "failed"}
    \/ run[snap[k]] \in {"left", "late"} /\ snap[k] \in errs

\* The loop stays within the hooks it copied (types) and runs them last to first
\* (shutdown.go:128).
HooksInTurn == HookTypes /\ LastToFirst

DistinctNames == \A g, h \in Hooks : NameOf[g] = NameOf[h] => g = h

\* When no call of Shutdown returns an error, every hook that was registered in
\* time, and whose own deregister function was not called, ran to its end
\* without one, however many deregistrations shifted the indexes (their names
\* differ): a hook that failed, panicked, timed out or was kept from starting
\* by the ended context shows up (shutdown.go:82, 129).
NilMeansAll == DistinctNames /\ doneCh /\ (\A c \in Closers : ret[c] # "error") =>
                 \A h \in due \union Ids(snap) : run[h] = "ok"

\* With a timeout, every call of Shutdown returns although hooks hang
\* (shutdown.go:3).
ShutdownReturns == \A c \in Closers : (at[c] # "idle") ~> (at[c] = "returned")

=============================================================================
