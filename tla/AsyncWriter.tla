---------------------------- MODULE AsyncWriter -----------------------------
(***************************************************************************)
(* internal/cacheutil's AsyncWriter: jobs submitted to a bounded channel,  *)
(* workers that run them, Flush and Close that wait for them.              *)
(*                                                                         *)
(* Submit holds mu from the check of closed to the end, so its three steps *)
(* keep everyone else from mu; recordErr, Close and the end of Flush take  *)
(* mu for one step.  The workers receive without mu.                       *)
(***************************************************************************)
EXTENDS Naturals, Sequences, FiniteSets

CONSTANTS
    Jobs,       \* the calls of Submit, one job each
    Workers,    \* the worker goroutines
    Callers,    \* the goroutines that call Flush or Close
    QueueSize   \* the channel's buffer

ASSUME JobsAssumption == IsFiniteSet(Jobs)
ASSUME SizeAssumption == QueueSize \in Nat /\ QueueSize >= 1

NoJob == "no job"
ASSUME NoJobAssumption == NoJob \notin Jobs

VARIABLES
    sub,        \* where the Submit of each job is
    queue,      \* the channel's buffer
    closed,     \* AsyncWriter.closed; the channel is closed in the same step
    wpc,        \* where each worker is
    job,        \* the job each worker has received
    failing,    \* the jobs whose function has returned an error
    firstErr,   \* the jobs whose errors are joined in firstErr
    ran,        \* how often each job's function has been called
    pending,    \* the count of jobsWG
    queued,     \* the two counters of Stats that tell jobs apart
    completed,
    done,       \* the jobs whose jobsWG.Done has been called
    cpc,        \* where each caller is
    closing,    \* the callers that called Close
    owed,       \* the jobs accepted before the call
    got,        \* the errors in what the call returns
    panicked    \* a WaitGroup has panicked: the program is gone

submitVars == <<sub, queued>>
workVars == <<wpc, job, failing, firstErr, ran, completed, done>>
callVars == <<cpc, closing, owed, got>>
vars == <<submitVars, queue, closed, workVars, pending, callVars, panicked>>

(* Every variable keeps its type; the buffer is bounded.                   *)
TypeOK ==
    /\ sub \in [Jobs -> {"new", "sending", "sent", "accepted", "refused"}]
    /\ queue \in Seq(Jobs) /\ Len(queue) <= QueueSize
    /\ closed \in BOOLEAN
    /\ wpc \in [Workers -> {"receive", "run", "record", "finish", "exited"}]
    /\ job \in [Workers -> Jobs \cup {NoJob}]
    /\ failing \in SUBSET Jobs /\ firstErr \in SUBSET Jobs /\ done \in SUBSET Jobs
    /\ ran \in [Jobs -> Nat]
    /\ pending \in Nat /\ queued \in Nat /\ completed \in Nat
    /\ cpc \in [Callers -> {"idle", "flush", "parked", "woken", "read",
                            "workers", "returned"}]
    /\ closing \in SUBSET Callers
    /\ owed \in [Callers -> SUBSET Jobs] /\ got \in [Callers -> SUBSET Jobs]
    /\ panicked \in BOOLEAN

Init ==
    /\ sub = [j \in Jobs |-> "new"]
    /\ queue = <<>> /\ closed = FALSE
    /\ wpc = [w \in Workers |-> "receive"]
    /\ job = [w \in Workers |-> NoJob]
    /\ failing = {} /\ firstErr = {} /\ done = {}
    /\ ran = [j \in Jobs |-> 0]
    /\ pending = 0 /\ queued = 0 /\ completed = 0
    /\ cpc = [c \in Callers |-> "idle"]
    /\ closing = {}
    /\ owed = [c \in Callers |-> {}] /\ got = [c \in Callers |-> {}]
    /\ panicked = FALSE

MuFree == \A j \in Jobs : sub[j] \notin {"sending", "sent"}
Accepted == {j \in Jobs : sub[j] \in {"sent", "accepted"}}

-----------------------------------------------------------------------------
(* Submit, under mu *)

SubmitLock(j) ==
    /\ sub[j] = "new" /\ MuFree
    /\ IF closed
         THEN sub' = [sub EXCEPT ![j] = "refused"] /\ UNCHANGED pending
         ELSE sub' = [sub EXCEPT ![j] = "sending"] /\ pending' = pending + 1
    /\ UNCHANGED <<queue, closed, queued, workVars, callVars, panicked>>

SubmitSend(j) ==
    /\ sub[j] = "sending" /\ Len(queue) < QueueSize
    /\ queue' = Append(queue, j)
    /\ sub' = [sub EXCEPT ![j] = "sent"]
    /\ UNCHANGED <<closed, queued, workVars, pending, callVars, panicked>>

(* queued comes after the send: a worker may already have the job *)
SubmitCount(j) ==
    /\ sub[j] = "sent"
    /\ queued' = queued + 1
    /\ sub' = [sub EXCEPT ![j] = "accepted"]
    /\ UNCHANGED <<queue, closed, workVars, pending, callVars, panicked>>

-----------------------------------------------------------------------------
(* jobsWG is a sync.WaitGroup: the Done that brings the count to zero lets *)
(* every parked waiter go, and a waiter that finds the count above zero    *)
(* again when it gets to run panics.                                       *)

WGDone ==
    /\ pending' = pending - 1
    /\ cpc' = IF pending = 1
                THEN [c \in Callers |-> IF cpc[c] = "parked" THEN "woken" ELSE cpc[c]]
                ELSE cpc

(* mutant: the refused job's Done is forgotten *)
SubmitFullUndone(j) ==
    /\ sub[j] = "sending" /\ Len(queue) = QueueSize
    /\ sub' = [sub EXCEPT ![j] = "refused"]
    /\ UNCHANGED <<queue, closed, queued, workVars, pending, callVars, panicked>>

(* mutant: queued counts the refused job too *)
SubmitFullCounted(j) ==
    /\ sub[j] = "sending" /\ Len(queue) = QueueSize
    /\ WGDone
    /\ sub' = [sub EXCEPT ![j] = "refused"]
    /\ queued' = queued + 1
    /\ UNCHANGED <<queue, closed, workVars, closing, owed, got, panicked>>

SubmitFull(j) ==
    /\ sub[j] = "sending" /\ Len(queue) = QueueSize
    /\ WGDone
    /\ sub' = [sub EXCEPT ![j] = "refused"]
    /\ UNCHANGED <<queue, closed, queued, workVars, closing, owed, got, panicked>>

-----------------------------------------------------------------------------
(* run, on worker w *)

Receive(w) ==
    /\ wpc[w] = "receive" /\ queue # <<>>
    /\ job' = [job EXCEPT ![w] = Head(queue)]
    /\ queue' = Tail(queue)
    /\ wpc' = [wpc EXCEPT ![w] = "run"]
    /\ UNCHANGED <<submitVars, closed, failing, firstErr, ran, completed, done,
                   pending, callVars, panicked>>

(* range ends when the channel is closed and its buffer empty *)
Exit(w) ==
    /\ wpc[w] = "receive" /\ closed /\ queue = <<>>
    /\ wpc' = [wpc EXCEPT ![w] = "exited"]
    /\ UNCHANGED <<submitVars, queue, closed, job, failing, firstErr, ran,
                   completed, done, pending, callVars, panicked>>

(* The job's function, which may fail *)
RunJob(w) ==
    /\ wpc[w] = "run"
    /\ ran' = [ran EXCEPT ![job[w]] = @ + 1]
    /\ \/ wpc' = [wpc EXCEPT ![w] = "finish"] /\ UNCHANGED failing
       \/ wpc' = [wpc EXCEPT ![w] = "record"] /\ failing' = failing \cup {job[w]}
    /\ UNCHANGED <<submitVars, queue, closed, job, firstErr, completed, done,
                   pending, callVars, panicked>>

(* recordErr waits for mu *)
RecordErr(w) ==
    /\ wpc[w] = "record" /\ MuFree
    /\ firstErr' = firstErr \cup {job[w]}
    /\ wpc' = [wpc EXCEPT ![w] = "finish"]
    /\ UNCHANGED <<submitVars, queue, closed, job, failing, ran, completed, done,
                   pending, callVars, panicked>>

(* What both forms of the end of a turn share *)
FinishBody(w) ==
    /\ completed' = completed + 1
    /\ done' = done \cup {job[w]}
    /\ WGDone
    /\ UNCHANGED <<submitVars, queue, closed, failing, ran, closing, owed, got,
                   panicked>>

(* mutant: Done comes before recordErr, which then comes too late *)
FinishEarly(w) ==
    /\ wpc[w] \in {"record", "finish"} /\ job[w] \notin done
    /\ FinishBody(w)
    /\ IF wpc[w] = "record" THEN UNCHANGED <<wpc, job>>
       ELSE /\ wpc' = [wpc EXCEPT ![w] = "receive"]
            /\ job' = [job EXCEPT ![w] = NoJob]
    /\ UNCHANGED firstErr

Finish(w) ==
    /\ wpc[w] = "finish"
    /\ FinishBody(w)
    /\ wpc' = [wpc EXCEPT ![w] = "receive"]
    /\ job' = [job EXCEPT ![w] = NoJob]
    /\ UNCHANGED firstErr

WorkerStep(w) == Receive(w) \/ Exit(w) \/ RunJob(w) \/ RecordErr(w) \/ Finish(w)

-----------------------------------------------------------------------------
(* Flush and Close *)

CallFlush(c) ==
    /\ cpc[c] = "idle"
    /\ cpc' = [cpc EXCEPT ![c] = "flush"]
    /\ owed' = [owed EXCEPT ![c] = {j \in Jobs : sub[j] = "accepted"}]
    /\ UNCHANGED <<submitVars, queue, closed, workVars, pending, closing, got,
                   panicked>>

(* The first Close closes the channel, a later one does not; both go on.   *)
CloseBody(c) ==
    /\ cpc[c] = "idle"
    /\ closed' = TRUE
    /\ cpc' = [cpc EXCEPT ![c] = "flush"]
    /\ closing' = closing \cup {c}
    /\ owed' = [owed EXCEPT ![c] = Accepted]
    /\ UNCHANGED <<submitVars, queue, workVars, pending, got, panicked>>

(* mutant: Close does not take the lock *)
CallCloseUnlocked(c) == CloseBody(c)

CallClose(c) == MuFree /\ CloseBody(c)

(* jobsWG.Wait *)
FlushWait(c) ==
    /\ cpc[c] = "flush"
    /\ cpc' = [cpc EXCEPT ![c] = IF pending = 0 THEN "read" ELSE "parked"]
    /\ UNCHANGED <<submitVars, queue, closed, workVars, pending, closing, owed,
                   got, panicked>>

FlushWakes(c) ==
    /\ cpc[c] = "woken"
    /\ IF pending = 0
         THEN cpc' = [cpc EXCEPT ![c] = "read"] /\ UNCHANGED panicked
         ELSE panicked' = TRUE /\ UNCHANGED cpc
    /\ UNCHANGED <<submitVars, queue, closed, workVars, pending, closing, owed, got>>

FlushReads(c) ==
    /\ cpc[c] = "read" /\ MuFree
    /\ got' = [got EXCEPT ![c] = firstErr]
    /\ cpc' = [cpc EXCEPT ![c] = IF c \in closing THEN "workers" ELSE "returned"]
    /\ UNCHANGED <<submitVars, queue, closed, workVars, pending, closing, owed,
                   panicked>>

(* workersWG.Wait *)
CloseReturns(c) ==
    /\ cpc[c] = "workers" /\ \A w \in Workers : wpc[w] = "exited"
    /\ cpc' = [cpc EXCEPT ![c] = "returned"]
    /\ UNCHANGED <<submitVars, queue, closed, workVars, pending, closing, owed,
                   got, panicked>>

CallerStep(c) == FlushWait(c) \/ FlushWakes(c) \/ FlushReads(c) \/ CloseReturns(c)

-----------------------------------------------------------------------------

SubmitStep(j) == SubmitSend(j) \/ SubmitCount(j) \/ SubmitFull(j)

Next ==
    /\ ~panicked
    /\ \/ \E j \in Jobs : SubmitLock(j) \/ SubmitStep(j)
       \/ \E w \in Workers : WorkerStep(w)
       \/ \E c \in Callers : CallFlush(c) \/ CallClose(c) \/ CallerStep(c)

(* Goroutines that can run do run; nobody has to call.  Weak fairness is   *)
(* enough for who waits for mu: there are finitely many Submits.           *)
Spec ==
    /\ Init /\ [][Next]_vars
    /\ \A j \in Jobs : WF_vars(~panicked /\ SubmitStep(j))
    /\ \A w \in Workers : WF_vars(~panicked /\ WorkerStep(w))
    /\ \A c \in Callers : WF_vars(~panicked /\ CallerStep(c))

-----------------------------------------------------------------------------
(* Properties *)

(* jobsWG counts exactly the jobs being submitted or accepted whose Done   *)
(* is still to come, through refusals, failures and workers that are       *)
(* faster than Submit: what Flush and Close rest on.                       *)
Outstanding == {j \in Jobs : sub[j] = "sending"} \cup (Accepted \ done)
PendingCounts == pending = Cardinality(Outstanding)

(* Close never closes the channel under a Submit that is about to send.    *)
NoSendOnClosed == \A j \in Jobs : sub[j] = "sending" => ~closed

(* Flush covers every job accepted before it was called: when it has read  *)
(* firstErr each of them has run, and the error of each that failed is in  *)
(* what is returned.                                                       *)
FlushCovers ==
    \A c \in Callers :
       cpc[c] \in {"workers", "returned"} =>
         /\ \A j \in owed[c] : ran[j] = 1
         /\ owed[c] \cap failing \subseteq got[c]

(* Close drains: once it has returned, every job accepted by anyone has    *)
(* run exactly once, no worker is left and the counters agree.             *)
CloseDrains ==
    (\E c \in closing : cpc[c] = "returned") =>
      /\ queue = <<>> /\ \A w \in Workers : wpc[w] = "exited"
      /\ queued = completed
      /\ \A j \in Jobs : ran[j] = IF sub[j] = "accepted" THEN 1 ELSE 0

(* Flush and Close return, as long as the jobs do and the WaitGroup does   *)
(* not panic.                                                              *)
InCall(c) == cpc[c] \notin {"idle", "returned"}
CallsReturn == \A c \in Callers : InCall(c) ~> (~InCall(c) \/ panicked)

=============================================================================
