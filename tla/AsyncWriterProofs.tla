------------------------- MODULE AsyncWriterProofs --------------------------
(***************************************************************************)
(* Proofs about AsyncWriter, for every finite set of jobs, all workers and *)
(* callers and every queue size.  The invariant follows a job from Submit  *)
(* through the buffer and one worker to its Done.  And about Shutdown, the *)
(* other component that waits for work to end, for every finite set of     *)
(* hooks under any names: its invariant follows the loop down the copy.    *)
(***************************************************************************)
EXTENDS AsyncWriter, Shutdown, FiniteSetTheorems, SequenceTheorems, TLAPS

(* Submit runs under mu: one at a time, and never on a closed writer.      *)
SubmitAlone ==
    /\ \A j, k \in Jobs : sub[j] \in {"sending", "sent"}
                            /\ sub[k] \in {"sending", "sent"} => j = k
    /\ closed => MuFree

(* A job that was not accepted has not run and is nowhere.                 *)
Fresh ==
    \A j \in Jobs : j \notin Accepted =>
       ran[j] = 0 /\ j \notin failing /\ j \notin done

(* A job in the buffer is there once, with no worker, and has not run.     *)
Buffered ==
    /\ \A i \in 1..Len(queue) :
         /\ queue[i] \in Accepted \ done
         /\ ran[queue[i]] = 0 /\ queue[i] \notin failing
         /\ \A w \in Workers : job[w] # queue[i]
    /\ \A i, k \in 1..Len(queue) : queue[i] = queue[k] => i = k

(* A worker's job is its own; how far it is tells how often it has run and *)
(* whether its error is recorded.                                          *)
Worked ==
    /\ \A w \in Workers :
         wpc[w] \in {"run", "record", "finish"} =>
           /\ job[w] \in Accepted \ done
           /\ wpc[w] = "run" => ran[job[w]] = 0 /\ job[w] \notin failing
           /\ wpc[w] # "run" => ran[job[w]] = 1
           /\ wpc[w] = "finish" /\ job[w] \in failing => job[w] \in firstErr
    /\ \A w \in Workers : wpc[w] \in {"receive", "exited"} => job[w] = NoJob
    /\ \A w, v \in Workers : job[w] = job[v] /\ job[w] # NoJob => w = v

(* A job that is done was accepted, has run once, and its error is kept.   *)
Finished ==
    \A j \in done : /\ j \in Accepted /\ ran[j] = 1
                    /\ j \in failing => j \in firstErr

(* The counters are exact.                                                 *)
Counted ==
    /\ queued = Cardinality({j \in Jobs : sub[j] = "accepted"})
    /\ completed = Cardinality(done)

(* What a call has waited for is done; after Close, that is everything.    *)
Waited ==
    \A c \in Callers :
       /\ owed[c] \subseteq Accepted
       /\ c \in closing => closed
       /\ cpc[c] \in {"read", "workers", "returned"} =>
            /\ owed[c] \subseteq done
            /\ c \in closing => Accepted \subseteq done
       /\ c \in closing /\ cpc[c] = "returned" =>
            \A w \in Workers : wpc[w] = "exited"

IInv ==
    /\ TypeOK
    /\ SubmitAlone
    /\ Fresh
    /\ Buffered
    /\ Worked
    /\ Finished
    /\ PendingCounts
    /\ Counted
    /\ Waited
    /\ FlushCovers

-----------------------------------------------------------------------------
(* Facts about the sets that are counted *)

(* Outstanding jobs, accepted jobs and done jobs are finitely many.          *)
LEMMA SetsFinite ==
    ASSUME TypeOK
    PROVE  /\ IsFiniteSet(Outstanding) /\ Cardinality(Outstanding) \in Nat
           /\ IsFiniteSet(done)
           /\ IsFiniteSet({j \in Jobs : sub[j] = "accepted"})
<1>1. Outstanding \in SUBSET Jobs /\ done \in SUBSET Jobs
  BY DEF TypeOK, Outstanding, Accepted
<1>2. {j \in Jobs : sub[j] = "accepted"} \in SUBSET Jobs
  OBVIOUS
<1>. QED
  BY <1>1, <1>2, JobsAssumption, FS_Subset, FS_CardinalityType

(* A count of zero means that every accepted job is done.                    *)
LEMMA NothingPending ==
    ASSUME IInv, pending = 0
    PROVE  Accepted \subseteq done
<1>1. Outstanding = {}
  BY SetsFinite, FS_EmptySet DEF IInv, PendingCounts
<1>. QED
  BY <1>1 DEF Outstanding

(* A Done takes one outstanding job out of the count.                        *)
LEMMA OneLess ==
    ASSUME IInv, NEW x \in Outstanding, Outstanding' = Outstanding \ {x},
           pending' = pending - 1
    PROVE  pending' \in Nat /\ PendingCounts'
<1>1. IsFiniteSet(Outstanding) /\ Cardinality(Outstanding) \in Nat
      /\ pending = Cardinality(Outstanding)
  BY SetsFinite DEF IInv, PendingCounts
<1>2. IsFiniteSet(Outstanding \ {x})
      /\ Cardinality(Outstanding \ {x}) = Cardinality(Outstanding) - 1
  BY <1>1, FS_RemoveElement
<1>3. Cardinality(Outstanding \ {x}) \in Nat
  BY <1>2, FS_CardinalityType
<1>. QED
  BY <1>1, <1>2, <1>3 DEF PendingCounts

(* Steps that leave the jobs alone keep what is said of them.                *)
LEMMA JobsUntouched ==
    ASSUME IInv, UNCHANGED <<submitVars, queue, workVars, pending>>
    PROVE  Fresh' /\ Buffered' /\ Worked' /\ Finished' /\ PendingCounts' /\ Counted'
<1>1. Accepted' = Accepted /\ Outstanding' = Outstanding
  BY DEF Accepted, Outstanding, submitVars, workVars
<1>2. Fresh' /\ Finished'
  BY <1>1 DEF IInv, Fresh, Finished, workVars
<1>3. Buffered' /\ Worked'
  BY <1>1 DEF IInv, Buffered, Worked, workVars
<1>4. PendingCounts'
  BY <1>1 DEF IInv, PendingCounts
<1>5. Counted'
  BY DEF IInv, Counted, submitVars, workVars
<1>. QED
  BY <1>2, <1>3, <1>4, <1>5

(* Steps that leave the callers alone and let accepted and done jobs be so   *)
(* keep what was waited for, as long as nothing is accepted after a Close.   *)
LEMMA CallersUntouched ==
    ASSUME IInv, UNCHANGED <<closing, owed>>, closed' = closed,
           done \subseteq done', Accepted \subseteq Accepted',
           closed => Accepted' = Accepted,
           \A w \in Workers : wpc[w] = "exited" => wpc'[w] = "exited",
           \A c \in Callers : cpc'[c] = cpc[c]
                                \/ cpc'[c] \notin {"read", "workers", "returned"}
    PROVE  Waited'
BY DEF IInv, Waited, TypeOK

-----------------------------------------------------------------------------
(* Init *)

(* The initial states satisfy the invariant.                               *)
LEMMA InitIInv == Init => IInv
<1> SUFFICES ASSUME Init PROVE IInv
  OBVIOUS
<1>0. <<>> \in Seq(Jobs) /\ Len(<<>>) = 0
  BY EmptySeq
<1>1. TypeOK
  <2>1. queue \in Seq(Jobs) /\ Len(queue) <= QueueSize
    BY <1>0, SizeAssumption DEF Init
  <2>2. ran \in [Jobs -> Nat] /\ pending \in Nat /\ queued \in Nat /\ completed \in Nat
    BY DEF Init
  <2>. QED
    BY <2>1, <2>2 DEF Init, TypeOK
<1>2. Accepted = {} /\ Outstanding = {} /\ {j \in Jobs : sub[j] = "accepted"} = {}
  BY DEF Init, Accepted, Outstanding
<1>3. PendingCounts /\ Counted
  BY <1>2, FS_EmptySet DEF Init, PendingCounts, Counted
<1>4. Buffered
  BY DEF Init, Buffered
<1>5. SubmitAlone /\ Fresh /\ Worked /\ Finished
  BY DEF Init, SubmitAlone, MuFree, Fresh, Worked, Finished
<1>6. Waited /\ FlushCovers
  BY <1>2 DEF Init, Waited, FlushCovers
<1>. QED
  BY <1>1, <1>3, <1>4, <1>5, <1>6 DEF IInv

-----------------------------------------------------------------------------
(* Submit *)

(* Submit: the check of closed and jobsWG.Add.                             *)
LEMMA SubmitLockStep ==
    ASSUME IInv, NEW j \in Jobs, SubmitLock(j)
    PROVE  IInv'
<1> USE DEF submitVars, workVars, callVars
<1>1. TypeOK'
  <2>1. pending' \in Nat
    BY DEF IInv, TypeOK, SubmitLock
  <2>2. sub' \in [Jobs -> {"new", "sending", "sent", "accepted", "refused"}]
    BY DEF IInv, TypeOK, SubmitLock
  <2>. QED
    BY <2>1, <2>2 DEF IInv, TypeOK, SubmitLock
<1>2. Accepted' = Accepted /\ j \notin Accepted
  BY DEF IInv, TypeOK, SubmitLock, Accepted
<1>3. SubmitAlone'
  BY DEF IInv, TypeOK, SubmitAlone, MuFree, SubmitLock
<1>4. Fresh' /\ Finished'
  BY <1>2 DEF IInv, Fresh, Finished, SubmitLock
<1>5. Buffered' /\ Worked'
  BY <1>2 DEF IInv, Buffered, Worked, SubmitLock
<1>6. PendingCounts'
  <2>1. IsFiniteSet(Outstanding) /\ pending = Cardinality(Outstanding)
        /\ pending \in Nat
    BY SetsFinite DEF IInv, PendingCounts
  <2>2. CASE closed
    <3>1. Outstanding' = Outstanding
      BY <1>2, <2>2 DEF IInv, TypeOK, SubmitLock, Outstanding
    <3>. QED
      BY <2>2, <3>1 DEF IInv, PendingCounts, SubmitLock
  <2>3. CASE ~closed
    <3>1. Outstanding' = Outstanding \cup {j} /\ j \notin Outstanding
      BY <1>2, <2>3 DEF IInv, TypeOK, SubmitLock, Outstanding
    <3>. QED
      BY <2>1, <2>3, <3>1, FS_AddElement DEF PendingCounts, SubmitLock
  <2>. QED
    BY <2>2, <2>3
<1>7. Counted'
  <2>1. {k \in Jobs : sub'[k] = "accepted"} = {k \in Jobs : sub[k] = "accepted"}
    BY DEF IInv, TypeOK, SubmitLock
  <2>. QED
    BY <2>1 DEF IInv, Counted, SubmitLock
<1>8. Waited'
  BY <1>2, CallersUntouched DEF SubmitLock
<1>9. FlushCovers'
  BY DEF IInv, FlushCovers, SubmitLock
<1>. QED
  BY <1>1, <1>3, <1>4, <1>5, <1>6, <1>7, <1>8, <1>9 DEF IInv

(* Submit: the send that finds room in the buffer.                         *)
LEMMA SubmitSendStep ==
    ASSUME IInv, NEW j \in Jobs, SubmitSend(j)
    PROVE  IInv'
<1> USE DEF submitVars, workVars, callVars
<1>1. /\ queue' \in Seq(Jobs) /\ Len(queue') = Len(queue) + 1
      /\ \A i \in 1..Len(queue) : queue'[i] = queue[i]
      /\ queue'[Len(queue) + 1] = j
      /\ Len(queue) \in Nat
  BY AppendProperties, LenProperties DEF IInv, TypeOK, SubmitSend
<1>2. TypeOK'
  BY <1>1, SizeAssumption DEF IInv, TypeOK, SubmitSend
<1>3. /\ Accepted' = Accepted \cup {j} /\ j \notin Accepted
      /\ ran[j] = 0 /\ j \notin failing /\ j \notin done
  BY DEF IInv, TypeOK, SubmitSend, Accepted, Fresh
<1>4. SubmitAlone'
  BY DEF IInv, TypeOK, SubmitAlone, MuFree, SubmitSend
<1>5. Fresh' /\ Finished'
  BY <1>3 DEF IInv, Fresh, Finished, SubmitSend
<1>6. Worked' /\ \A w \in Workers : job[w] # j
  <2>1. Worked'
    BY <1>3 DEF IInv, Worked, SubmitSend
  <2>2. ASSUME NEW w \in Workers PROVE job[w] # j
    <3>1. CASE wpc[w] \in {"run", "record", "finish"}
      BY <1>3, <3>1 DEF IInv, Worked
    <3>2. CASE wpc[w] \in {"receive", "exited"}
      BY <3>2, NoJobAssumption DEF IInv, Worked
    <3>. QED
      BY <3>1, <3>2 DEF IInv, TypeOK
  <2>. QED
    BY <2>1, <2>2
<1>7. Buffered'
  <2>1. \A i \in 1..Len(queue) : queue[i] # j
    BY <1>3 DEF IInv, Buffered
  <2>2. \A i \in 1..Len(queue') : i \in 1..Len(queue) \/ i = Len(queue) + 1
    BY <1>1
  <2>. QED
    BY <1>1, <1>3, <1>6, <2>1, <2>2 DEF IInv, Buffered, SubmitSend
<1>8. PendingCounts'
  <2>1. Outstanding' = Outstanding
    BY <1>3 DEF IInv, TypeOK, SubmitSend, Outstanding
  <2>. QED
    BY <2>1 DEF IInv, PendingCounts, SubmitSend
<1>9. Counted'
  <2>1. {k \in Jobs : sub'[k] = "accepted"} = {k \in Jobs : sub[k] = "accepted"}
    BY DEF IInv, TypeOK, SubmitSend
  <2>. QED
    BY <2>1 DEF IInv, Counted, SubmitSend
<1>10. Waited'
  <2>1. ~closed
    BY DEF IInv, SubmitAlone, MuFree, SubmitSend
  <2>. QED
    BY <1>3, <2>1, CallersUntouched DEF SubmitSend
<1>11. FlushCovers'
  BY DEF IInv, FlushCovers, SubmitSend
<1>. QED
  BY <1>2, <1>4, <1>5, <1>6, <1>7, <1>8, <1>9, <1>10, <1>11 DEF IInv

(* Submit: the count of a job that was sent.                               *)
LEMMA SubmitCountStep ==
    ASSUME IInv, NEW j \in Jobs, SubmitCount(j)
    PROVE  IInv'
<1> USE DEF submitVars, workVars, callVars
<1>1. TypeOK'
  BY DEF IInv, TypeOK, SubmitCount
<1>2. Accepted' = Accepted /\ Outstanding' = Outstanding
  BY DEF IInv, TypeOK, SubmitCount, Accepted, Outstanding
<1>3. SubmitAlone'
  BY DEF IInv, TypeOK, SubmitAlone, MuFree, SubmitCount
<1>4. Fresh' /\ Finished' /\ PendingCounts'
  BY <1>2 DEF IInv, Fresh, Finished, PendingCounts, SubmitCount
<1>5. Buffered' /\ Worked'
  BY <1>2 DEF IInv, Buffered, Worked, SubmitCount
<1>6. Counted'
  <2> DEFINE A == {k \in Jobs : sub[k] = "accepted"}
  <2>1. {k \in Jobs : sub'[k] = "accepted"} = A \cup {j} /\ j \notin A
    BY DEF IInv, TypeOK, SubmitCount
  <2>2. IsFiniteSet(A) /\ queued = Cardinality(A) /\ completed = Cardinality(done)
    BY SetsFinite DEF IInv, Counted
  <2> HIDE DEF A
  <2>. QED
    BY <2>1, <2>2, FS_AddElement DEF Counted, SubmitCount
<1>7. Waited'
  BY <1>2, CallersUntouched DEF SubmitCount
<1>8. FlushCovers'
  BY DEF IInv, FlushCovers, SubmitCount
<1>. QED
  BY <1>1, <1>3, <1>4, <1>5, <1>6, <1>7, <1>8 DEF IInv

(* What a Done does to the callers: the parked ones may be woken.            *)
LEMMA DoneCallers ==
    ASSUME IInv, WGDone
    PROVE  /\ \A c \in Callers : cpc'[c] = cpc[c] \/ cpc'[c] = "woken"
           /\ cpc' \in [Callers -> {"idle", "flush", "parked", "woken", "read",
                                    "workers", "returned"}]
BY DEF IInv, TypeOK, WGDone

(* Submit: the default case of the select, with its Done.                  *)
LEMMA SubmitFullStep ==
    ASSUME IInv, NEW j \in Jobs, SubmitFull(j)
    PROVE  IInv'
<1> USE DEF submitVars, workVars, callVars
<1>1. /\ \A c \in Callers : cpc'[c] = cpc[c] \/ cpc'[c] = "woken"
      /\ cpc' \in [Callers -> {"idle", "flush", "parked", "woken", "read",
                               "workers", "returned"}]
  BY DoneCallers DEF SubmitFull
<1>2. Accepted' = Accepted /\ j \notin Accepted
  BY DEF IInv, TypeOK, SubmitFull, Accepted
<1>3. pending' \in Nat /\ PendingCounts'
  <2>1. j \in Outstanding /\ Outstanding' = Outstanding \ {j}
    BY <1>2 DEF IInv, TypeOK, SubmitFull, Outstanding
  <2>. QED
    BY <2>1, OneLess DEF SubmitFull, WGDone
<1>4. TypeOK'
  BY <1>1, <1>3 DEF IInv, TypeOK, SubmitFull
<1>5. SubmitAlone'
  BY DEF IInv, TypeOK, SubmitAlone, MuFree, SubmitFull
<1>6. Fresh' /\ Finished'
  BY <1>2 DEF IInv, Fresh, Finished, SubmitFull
<1>7. Buffered' /\ Worked'
  BY <1>2 DEF IInv, Buffered, Worked, SubmitFull
<1>8. Counted'
  <2>1. {k \in Jobs : sub'[k] = "accepted"} = {k \in Jobs : sub[k] = "accepted"}
    BY DEF IInv, TypeOK, SubmitFull
  <2>. QED
    BY <2>1 DEF IInv, Counted, SubmitFull
<1>9. Waited'
  BY <1>1, <1>2, CallersUntouched DEF SubmitFull
<1>10. FlushCovers'
  BY <1>1 DEF IInv, FlushCovers, SubmitFull
<1>. QED
  BY <1>3, <1>4, <1>5, <1>6, <1>7, <1>8, <1>9, <1>10 DEF IInv

-----------------------------------------------------------------------------
(* The worker *)

(* run: the head of the buffer goes to the worker.                         *)
LEMMA ReceiveStep ==
    ASSUME IInv, NEW w \in Workers, Receive(w)
    PROVE  IInv'
<1> USE DEF submitVars, workVars, callVars
<1>1. /\ queue \in Seq(Jobs) /\ queue # <<>> /\ Len(queue) \in Nat
      /\ Len(queue) >= 1
  <2>1. queue \in Seq(Jobs) /\ queue # <<>>
    BY DEF IInv, TypeOK, Receive
  <2>. QED
    BY <2>1, LenProperties, EmptySeq
<1>2. /\ queue' \in Seq(Jobs) /\ Len(queue') = Len(queue) - 1
      /\ \A i \in 1..Len(queue') : queue'[i] = queue[i + 1]
      /\ job'[w] = queue[1] /\ queue[1] \in Jobs
      /\ \A v \in Workers : v # w => job'[v] = job[v]
  <2>1. /\ Head(queue) = queue[1] /\ Head(queue) \in Jobs
        /\ Tail(queue) \in Seq(Jobs) /\ Len(Tail(queue)) = Len(queue) - 1
        /\ \A i \in 1..Len(Tail(queue)) : Tail(queue)[i] = queue[i + 1]
    BY <1>1, HeadTailProperties
  <2>. QED
    BY <2>1 DEF IInv, TypeOK, Receive
<1>3. TypeOK'
  <2>1. Len(queue') <= QueueSize
    BY <1>1, <1>2, SizeAssumption DEF IInv, TypeOK
  <2>2. job' \in [Workers -> Jobs \cup {NoJob}]
    BY <1>2 DEF IInv, TypeOK, Receive
  <2>. QED
    BY <1>2, <2>1, <2>2 DEF IInv, TypeOK, Receive
<1>4. Accepted' = Accepted /\ Outstanding' = Outstanding
  BY DEF Receive, Accepted, Outstanding
<1>5. SubmitAlone' /\ Fresh' /\ Finished' /\ PendingCounts' /\ Counted' /\ FlushCovers'
  BY <1>4 DEF IInv, SubmitAlone, MuFree, Fresh, Finished, PendingCounts, Counted,
              FlushCovers, Receive
<1>6. /\ queue[1] \in Accepted \ done /\ ran[queue[1]] = 0 /\ queue[1] \notin failing
      /\ \A v \in Workers : job[v] # queue[1]
  BY <1>1 DEF IInv, Buffered
<1>7. Buffered'
  <2>1. \A i \in 1..Len(queue') : i + 1 \in 1..Len(queue) /\ i + 1 # 1
    BY <1>1, <1>2
  <2>2. \A i \in 1..Len(queue') :
           /\ queue'[i] \in Accepted' \ done'
           /\ ran'[queue'[i]] = 0 /\ queue'[i] \notin failing'
    BY <1>2, <1>4, <2>1 DEF IInv, Buffered, Receive
  <2>3. \A i \in 1..Len(queue') : queue[i + 1] # queue[1]
    BY <1>1, <2>1 DEF IInv, Buffered
  <2>4. \A i \in 1..Len(queue') : \A v \in Workers : job'[v] # queue'[i]
    BY <1>2, <2>1, <2>3 DEF IInv, Buffered
  <2>5. \A i, k \in 1..Len(queue') : queue'[i] = queue'[k] => i = k
    <3>1. \A i, k \in 1..Len(queue') : queue'[i] = queue'[k] => i + 1 = k + 1
      BY <1>2, <2>1 DEF IInv, Buffered
    <3>. QED
      BY <1>1, <1>2, <3>1
  <2>. QED
    BY <2>2, <2>4, <2>5 DEF Buffered
<1>8. Worked'
  <2>1. wpc'[w] = "run" /\ \A v \in Workers : v # w => wpc'[v] = wpc[v]
    BY DEF IInv, TypeOK, Receive
  <2>2. UNCHANGED <<done, ran, failing, firstErr>>
    BY DEF Receive
  <2>. QED
    BY <1>2, <1>4, <1>6, <2>1, <2>2 DEF IInv, Worked
<1>9. Waited'
  BY <1>4, CallersUntouched DEF IInv, TypeOK, Receive
<1>. QED
  BY <1>3, <1>5, <1>7, <1>8, <1>9 DEF IInv

(* run: the range over the closed channel ends.                            *)
LEMMA ExitStep ==
    ASSUME IInv, NEW w \in Workers, Exit(w)
    PROVE  IInv'
<1> USE DEF submitVars, workVars, callVars
<1>1. TypeOK'
  BY DEF IInv, TypeOK, Exit
<1>2. Accepted' = Accepted /\ Outstanding' = Outstanding
  BY DEF Exit, Accepted, Outstanding
<1>3. SubmitAlone' /\ Fresh' /\ Finished' /\ PendingCounts' /\ Counted' /\ FlushCovers'
  BY <1>2 DEF IInv, SubmitAlone, MuFree, Fresh, Finished, PendingCounts, Counted,
              FlushCovers, Exit
<1>4. Buffered'
  BY <1>2 DEF IInv, Buffered, Exit
<1>5. Worked'
  BY <1>2 DEF IInv, TypeOK, Worked, Exit
<1>6. Waited'
  BY <1>2, CallersUntouched DEF IInv, TypeOK, Exit
<1>. QED
  BY <1>1, <1>3, <1>4, <1>5, <1>6 DEF IInv

(* run: the call of the job's function, which fails or does not.           *)
LEMMA RunJobStep ==
    ASSUME IInv, NEW w \in Workers, RunJob(w)
    PROVE  IInv'
<1> USE DEF submitVars, workVars, callVars
<1>1. /\ job[w] \in Accepted \ done /\ job[w] \in Jobs
      /\ ran[job[w]] = 0 /\ job[w] \notin failing
  BY DEF IInv, Worked, RunJob, Accepted
<1>2. /\ ran' \in [Jobs -> Nat] /\ ran'[job[w]] = 1
      /\ \A j \in Jobs : j # job[w] => ran'[j] = ran[j]
  BY <1>1 DEF IInv, TypeOK, RunJob
<1>3. /\ failing \subseteq failing' /\ failing' \subseteq failing \cup {job[w]}
      /\ wpc'[w] \in {"finish", "record"}
      /\ wpc'[w] = "finish" => failing' = failing
      /\ \A v \in Workers : v # w => wpc'[v] = wpc[v]
  BY DEF IInv, TypeOK, RunJob
<1>4. TypeOK'
  <2>1. wpc' \in [Workers -> {"receive", "run", "record", "finish", "exited"}]
    BY DEF IInv, TypeOK, RunJob
  <2>2. failing' \in SUBSET Jobs
    BY <1>1, <1>3 DEF IInv, TypeOK
  <2>. QED
    BY <1>2, <2>1, <2>2 DEF IInv, TypeOK, RunJob
<1>5. Accepted' = Accepted /\ Outstanding' = Outstanding
  BY DEF RunJob, Accepted, Outstanding
<1>6. SubmitAlone' /\ PendingCounts' /\ Counted'
  BY <1>5 DEF IInv, SubmitAlone, MuFree, PendingCounts, Counted, RunJob
<1>7. Fresh'
  BY <1>1, <1>2, <1>3, <1>5 DEF IInv, Fresh, RunJob
<1>8. Finished'
  BY <1>1, <1>2, <1>3, <1>5 DEF IInv, TypeOK, Finished, RunJob
<1>9. Buffered'
  <2>1. \A i \in 1..Len(queue) : queue[i] # job[w] /\ queue[i] \in Jobs
    BY DEF IInv, Buffered, Accepted
  <2>2. UNCHANGED <<queue, job, done>>
    BY DEF RunJob
  <2>. QED
    BY <1>2, <1>3, <1>5, <2>1, <2>2 DEF IInv, Buffered
<1>10. Worked'
  <2>1. UNCHANGED <<job, done, firstErr>>
    BY DEF RunJob
  <2>2. \A v \in Workers : v # w /\ wpc[v] \in {"run", "record", "finish"} =>
           job[v] # job[w] /\ job[v] \in Jobs
    BY <1>1, NoJobAssumption DEF IInv, Worked, Accepted
  <2>3. ASSUME NEW v \in Workers, wpc'[v] \in {"run", "record", "finish"}
        PROVE  /\ job'[v] \in Accepted' \ done'
               /\ wpc'[v] = "run" => ran'[job'[v]] = 0 /\ job'[v] \notin failing'
               /\ wpc'[v] # "run" => ran'[job'[v]] = 1
               /\ wpc'[v] = "finish" /\ job'[v] \in failing' => job'[v] \in firstErr'
    <3>1. CASE v = w
      BY <1>1, <1>2, <1>3, <1>5, <2>1, <3>1
    <3>2. CASE v # w
      BY <1>2, <1>3, <1>5, <2>1, <2>2, <2>3, <3>2 DEF IInv, Worked
    <3>. QED
      BY <3>1, <3>2
  <2>4. \A v \in Workers : wpc'[v] \in {"receive", "exited"} => job'[v] = NoJob
    BY <1>3, <2>1 DEF IInv, Worked
  <2>. QED
    BY <2>1, <2>3, <2>4 DEF IInv, Worked
<1>11. Waited'
  BY <1>5, CallersUntouched DEF IInv, TypeOK, RunJob
<1>12. FlushCovers'
  <2>1. \A c \in Callers : cpc[c] \in {"workers", "returned"} =>
           job[w] \notin owed[c] /\ owed[c] \subseteq Jobs
    BY <1>1 DEF IInv, TypeOK, Waited
  <2>2. UNCHANGED <<cpc, owed, got>>
    BY DEF RunJob
  <2>. QED
    BY <1>2, <1>3, <2>1, <2>2 DEF IInv, FlushCovers
<1>. QED
  BY <1>4, <1>6, <1>7, <1>8, <1>9, <1>10, <1>11, <1>12 DEF IInv

(* recordErr: the error is joined to firstErr.                             *)
LEMMA RecordErrStep ==
    ASSUME IInv, NEW w \in Workers, RecordErr(w)
    PROVE  IInv'
<1> USE DEF submitVars, workVars, callVars
<1>1. job[w] \in Jobs /\ firstErr' = firstErr \cup {job[w]}
  BY DEF IInv, Worked, RecordErr, Accepted
<1>2. TypeOK'
  BY <1>1 DEF IInv, TypeOK, RecordErr
<1>3. Accepted' = Accepted /\ Outstanding' = Outstanding
  BY DEF RecordErr, Accepted, Outstanding
<1>4. SubmitAlone' /\ Fresh' /\ PendingCounts' /\ Counted' /\ FlushCovers'
  BY <1>3 DEF IInv, SubmitAlone, MuFree, Fresh, PendingCounts, Counted,
              FlushCovers, RecordErr
<1>5. Buffered' /\ Finished'
  BY <1>1, <1>3 DEF IInv, Buffered, Finished, RecordErr
<1>6. Worked'
  BY <1>1, <1>3 DEF IInv, TypeOK, Worked, RecordErr
<1>7. Waited'
  BY <1>3, CallersUntouched DEF IInv, TypeOK, RecordErr
<1>. QED
  BY <1>2, <1>4, <1>5, <1>6, <1>7 DEF IInv

(* run: the end of a turn, completed and Done.                             *)
LEMMA FinishStep ==
    ASSUME IInv, NEW w \in Workers, Finish(w)
    PROVE  IInv'
<1> USE DEF submitVars, workVars, callVars
<1>1. /\ job[w] \in Accepted \ done /\ job[w] \in Jobs /\ ran[job[w]] = 1
      /\ job[w] \in failing => job[w] \in firstErr
  BY DEF IInv, Worked, Finish, Accepted
<1>2. /\ \A c \in Callers : cpc'[c] = cpc[c] \/ cpc'[c] = "woken"
      /\ cpc' \in [Callers -> {"idle", "flush", "parked", "woken", "read",
                               "workers", "returned"}]
  BY DoneCallers DEF Finish, FinishBody
<1>3. /\ done' = done \cup {job[w]} /\ completed' = completed + 1
      /\ UNCHANGED <<sub, queued, queue, closed, failing, firstErr, ran, closing,
                     owed, got, panicked>>
  BY DEF Finish, FinishBody
<1>4. Accepted' = Accepted
  BY <1>3 DEF Accepted
<1>5. pending' \in Nat /\ PendingCounts'
  <2>1. job[w] \in Outstanding /\ Outstanding' = Outstanding \ {job[w]}
    BY <1>1, <1>3, <1>4 DEF Outstanding, Accepted
  <2>. QED
    BY <2>1, OneLess DEF Finish, FinishBody, WGDone
<1>6. /\ job'[w] = NoJob /\ wpc'[w] = "receive"
      /\ \A v \in Workers : v # w => job'[v] = job[v] /\ wpc'[v] = wpc[v]
      /\ job' \in [Workers -> Jobs \cup {NoJob}]
      /\ wpc' \in [Workers -> {"receive", "run", "record", "finish", "exited"}]
  BY DEF IInv, TypeOK, Finish
<1>7. TypeOK'
  <2>1. done' \in SUBSET Jobs /\ completed' \in Nat
    BY <1>1, <1>3 DEF IInv, TypeOK
  <2>. QED
    BY <1>2, <1>3, <1>5, <1>6, <2>1 DEF IInv, TypeOK
<1>8. SubmitAlone' /\ Fresh' /\ Finished'
  BY <1>1, <1>3, <1>4 DEF IInv, SubmitAlone, MuFree, Fresh, Finished
<1>9. Buffered'
  <2>1. \A i \in 1..Len(queue) : queue[i] \in Jobs /\ queue[i] # job[w]
    BY DEF IInv, Buffered, Accepted
  <2>2. \A i \in 1..Len(queue) : \A v \in Workers : job'[v] # queue[i]
    BY <1>6, <2>1, NoJobAssumption DEF IInv, Buffered
  <2>. QED
    BY <1>3, <1>4, <2>1, <2>2 DEF IInv, Buffered
<1>10. Worked'
  <2>1. \A v \in Workers : v # w => job[v] # job[w]
    BY <1>1, NoJobAssumption DEF IInv, Worked
  <2>. QED
    BY <1>3, <1>4, <1>6, <2>1 DEF IInv, Worked
<1>11. Counted'
  <2>1. IsFiniteSet(done) /\ completed = Cardinality(done)
    BY SetsFinite DEF IInv, Counted
  <2>2. Cardinality(done') = Cardinality(done) + 1
    BY <1>1, <1>3, <2>1, FS_AddElement
  <2>. QED
    BY <1>3, <2>1, <2>2 DEF IInv, Counted
<1>12. Waited'
  <2>1. \A v \in Workers : wpc[v] = "exited" => wpc'[v] = "exited"
    BY <1>6 DEF Finish
  <2>. QED
    BY <1>2, <1>3, <1>4, <2>1, CallersUntouched
<1>13. FlushCovers'
  BY <1>2, <1>3 DEF IInv, FlushCovers
<1>. QED
  BY <1>5, <1>7, <1>8, <1>9, <1>10, <1>11, <1>12, <1>13 DEF IInv

-----------------------------------------------------------------------------
(* Flush and Close *)

(* Flush is called: it owes the jobs accepted so far.                      *)
LEMMA CallFlushStep ==
    ASSUME IInv, NEW c \in Callers, CallFlush(c)
    PROVE  IInv'
<1> USE DEF submitVars, workVars, callVars
<1>1. TypeOK'
  BY DEF IInv, TypeOK, CallFlush
<1>2. Fresh' /\ Buffered' /\ Worked' /\ Finished' /\ PendingCounts' /\ Counted'
  BY JobsUntouched DEF CallFlush
<1>3. SubmitAlone'
  BY DEF IInv, SubmitAlone, MuFree, CallFlush
<1>4. /\ \A d \in Callers : d # c => cpc'[d] = cpc[d] /\ owed'[d] = owed[d]
      /\ cpc'[c] = "flush" /\ owed'[c] \subseteq Accepted
      /\ Accepted' = Accepted
      /\ UNCHANGED <<closing, closed, wpc, done, ran, failing, got>>
  BY DEF IInv, TypeOK, CallFlush, Accepted
<1>5. Waited' /\ FlushCovers'
  BY <1>4 DEF IInv, Waited, FlushCovers
<1>. QED
  BY <1>1, <1>2, <1>3, <1>5 DEF IInv

(* Close takes mu and closes the channel: nobody is inside Submit.         *)
LEMMA CallCloseStep ==
    ASSUME IInv, NEW c \in Callers, CallClose(c)
    PROVE  IInv'
<1> USE DEF submitVars, workVars, callVars
<1>1. TypeOK'
  BY DEF IInv, TypeOK, CallClose, CloseBody, Accepted
<1>2. Fresh' /\ Buffered' /\ Worked' /\ Finished' /\ PendingCounts' /\ Counted'
  BY JobsUntouched DEF CallClose, CloseBody
<1>3. SubmitAlone'
  BY DEF IInv, SubmitAlone, MuFree, CallClose, CloseBody
<1>4. /\ \A d \in Callers : d # c => cpc'[d] = cpc[d] /\ owed'[d] = owed[d]
      /\ cpc'[c] = "flush" /\ owed'[c] = Accepted
      /\ Accepted' = Accepted /\ closed' = TRUE /\ closing' = closing \cup {c}
      /\ UNCHANGED <<wpc, done, ran, failing, got>>
  BY DEF IInv, TypeOK, CallClose, CloseBody, Accepted
<1>5. Waited' /\ FlushCovers'
  BY <1>4 DEF IInv, Waited, FlushCovers
<1>. QED
  BY <1>1, <1>2, <1>3, <1>5 DEF IInv

(* A caller that goes past jobsWG.Wait with the count at zero, or does not *)
(* go past it, keeps the invariant.                                        *)
LEMMA WaitStep ==
    ASSUME IInv, NEW c \in Callers,
           UNCHANGED <<submitVars, queue, closed, workVars, pending, closing, owed, got>>,
           panicked' \in BOOLEAN,
           \/ UNCHANGED cpc
           \/ cpc[c] \in {"flush", "woken"} /\ cpc' = [cpc EXCEPT ![c] = "parked"]
           \/ /\ cpc[c] \in {"flush", "woken"} /\ pending = 0
              /\ cpc' = [cpc EXCEPT ![c] = "read"]
    PROVE  IInv'
<1> USE DEF submitVars, workVars, callVars
<1>1. TypeOK'
  BY DEF IInv, TypeOK
<1>2. Fresh' /\ Buffered' /\ Worked' /\ Finished' /\ PendingCounts' /\ Counted'
  BY JobsUntouched
<1>3. SubmitAlone'
  BY DEF IInv, SubmitAlone, MuFree
<1>4. /\ \A d \in Callers : d # c => cpc'[d] = cpc[d]
      /\ cpc'[c] = cpc[c] \/ cpc'[c] = "parked" \/ (cpc'[c] = "read" /\ pending = 0)
  BY DEF IInv, TypeOK
<1>5. pending = 0 => Accepted \subseteq done
  BY NothingPending
<1>6. Accepted' = Accepted
  BY DEF Accepted
<1>7. Waited'
  BY <1>4, <1>5, <1>6 DEF IInv, Waited
<1>8. FlushCovers'
  BY <1>4 DEF IInv, FlushCovers
<1>. QED
  BY <1>1, <1>2, <1>3, <1>7, <1>8 DEF IInv

(* Flush reads firstErr under mu.                                          *)
LEMMA FlushReadsStep ==
    ASSUME IInv, NEW c \in Callers, FlushReads(c)
    PROVE  IInv'
<1> USE DEF submitVars, workVars, callVars
<1>1. TypeOK'
  BY DEF IInv, TypeOK, FlushReads
<1>2. Fresh' /\ Buffered' /\ Worked' /\ Finished' /\ PendingCounts' /\ Counted'
  BY JobsUntouched DEF FlushReads
<1>3. SubmitAlone'
  BY DEF IInv, SubmitAlone, MuFree, FlushReads
<1>4. /\ \A d \in Callers : d # c => cpc'[d] = cpc[d] /\ got'[d] = got[d]
      /\ cpc[c] = "read" /\ got'[c] = firstErr
      /\ cpc'[c] = "workers" \/ (cpc'[c] = "returned" /\ c \notin closing)
      /\ Accepted' = Accepted
      /\ UNCHANGED <<closing, closed, owed, wpc, done, ran, failing>>
  BY DEF IInv, TypeOK, FlushReads, Accepted
<1>5. Waited'
  BY <1>4 DEF IInv, Waited
<1>6. FlushCovers'
  <2>1. owed[c] \subseteq done
    BY <1>4 DEF IInv, Waited
  <2>2. (\A j \in owed[c] : ran[j] = 1) /\ owed[c] \cap failing \subseteq firstErr
    BY <2>1 DEF IInv, Finished
  <2>. QED
    BY <1>4, <2>2 DEF IInv, FlushCovers
<1>. QED
  BY <1>1, <1>2, <1>3, <1>5, <1>6 DEF IInv

(* Close returns once the workers are gone.                                *)
LEMMA CloseReturnsStep ==
    ASSUME IInv, NEW c \in Callers, CloseReturns(c)
    PROVE  IInv'
<1> USE DEF submitVars, workVars, callVars
<1>1. TypeOK'
  BY DEF IInv, TypeOK, CloseReturns
<1>2. Fresh' /\ Buffered' /\ Worked' /\ Finished' /\ PendingCounts' /\ Counted'
  BY JobsUntouched DEF CloseReturns
<1>3. SubmitAlone'
  BY DEF IInv, SubmitAlone, MuFree, CloseReturns
<1>4. /\ \A d \in Callers : d # c => cpc'[d] = cpc[d]
      /\ cpc[c] = "workers" /\ cpc'[c] = "returned"
      /\ \A w \in Workers : wpc[w] = "exited"
      /\ Accepted' = Accepted
      /\ UNCHANGED <<closing, closed, owed, got, wpc, done, ran, failing>>
  BY DEF IInv, TypeOK, CloseReturns, Accepted
<1>5. Waited' /\ FlushCovers'
  BY <1>4 DEF IInv, Waited, FlushCovers
<1>. QED
  BY <1>1, <1>2, <1>3, <1>5 DEF IInv

-----------------------------------------------------------------------------
(* The invariant and what follows from it *)

(* Every step keeps the invariant.                                         *)
LEMMA NextIInv == IInv /\ [Next]_vars => IInv'
<1> SUFFICES ASSUME IInv, [Next]_vars PROVE IInv'
  OBVIOUS
<1>1. CASE \E j \in Jobs : SubmitLock(j) \/ SubmitStep(j)
  BY <1>1, SubmitLockStep, SubmitSendStep, SubmitCountStep, SubmitFullStep
     DEF SubmitStep
<1>2. CASE \E w \in Workers : WorkerStep(w)
  BY <1>2, ReceiveStep, ExitStep, RunJobStep, RecordErrStep, FinishStep
     DEF WorkerStep
<1>3. ASSUME NEW c \in Callers, FlushWait(c) PROVE IInv'
  <2>1. panicked' \in BOOLEAN
    BY <1>3 DEF FlushWait, IInv, TypeOK
  <2>. QED
    BY <1>3, <2>1, WaitStep DEF FlushWait
<1>4. ASSUME NEW c \in Callers, FlushWakes(c) PROVE IInv'
  <2>1. panicked' \in BOOLEAN
    BY <1>4 DEF FlushWakes, IInv, TypeOK
  <2>. QED
    BY <1>4, <2>1, WaitStep DEF FlushWakes
<1>5. CASE \E c \in Callers : CallFlush(c) \/ CallClose(c) \/ CallerStep(c)
  BY <1>3, <1>4, <1>5, CallFlushStep, CallCloseStep, FlushReadsStep, CloseReturnsStep
     DEF CallerStep
<1>6. CASE UNCHANGED vars
  <2> USE <1>6 DEF vars, submitVars, workVars, callVars
  <2>1. TypeOK'
    BY DEF IInv, TypeOK
  <2>2. Fresh' /\ Buffered' /\ Worked' /\ Finished' /\ PendingCounts' /\ Counted'
    BY JobsUntouched
  <2>3. Accepted' = Accepted
    BY DEF Accepted
  <2>4. SubmitAlone' /\ FlushCovers' /\ Waited'
    BY <2>3 DEF IInv, SubmitAlone, MuFree, FlushCovers, Waited
  <2>. QED
    BY <2>1, <2>2, <2>4 DEF IInv
<1>. QED
  BY <1>1, <1>2, <1>5, <1>6 DEF Next

(* The invariant holds of every behaviour of the writer.                   *)
THEOREM Inductive == Spec => []IInv
BY InitIInv, NextIInv, PTL DEF Spec

(* The variables keep their types: the channel's buffer never exceeds its  *)
(* size and the WaitGroup's count never goes below zero.                   *)
THEOREM WriterTypes == Spec => []TypeOK
<1>1. IInv => TypeOK
  BY DEF IInv
<1>. QED
  BY <1>1, Inductive, PTL

(* jobsWG counts exactly the jobs between Submit's Add and their Done.     *)
THEOREM WriterCounts == Spec => []PendingCounts
<1>1. IInv => PendingCounts
  BY DEF IInv
<1>. QED
  BY <1>1, Inductive, PTL

(* Submit never sends on the channel that Close has closed.                *)
THEOREM WriterSendsOpen == Spec => []NoSendOnClosed
<1>1. IInv => NoSendOnClosed
  BY DEF IInv, SubmitAlone, MuFree, NoSendOnClosed
<1>. QED
  BY <1>1, Inductive, PTL

(* What Flush and Close return covers every job accepted before the call.  *)
THEOREM WriterFlushCovers == Spec => []FlushCovers
<1>1. IInv => FlushCovers
  BY DEF IInv
<1>. QED
  BY <1>1, Inductive, PTL

(* A Close that has returned has drained the writer: its buffer is empty,  *)
(* its workers are gone, and every accepted job has run exactly once.      *)
THEOREM WriterCloseDrains == Spec => []CloseDrains
<1>1. IInv => CloseDrains
  <2> SUFFICES ASSUME IInv, NEW c \in closing, cpc[c] = "returned"
               PROVE  /\ queue = <<>> /\ \A w \in Workers : wpc[w] = "exited"
                      /\ queued = completed
                      /\ \A j \in Jobs : ran[j] = IF sub[j] = "accepted" THEN 1 ELSE 0
    BY DEF CloseDrains
  <2>1. /\ closed /\ Accepted \subseteq done
        /\ \A w \in Workers : wpc[w] = "exited"
    BY DEF IInv, TypeOK, Waited
  <2>2. {j \in Jobs : sub[j] = "accepted"} = Accepted
    BY <2>1 DEF IInv, SubmitAlone, MuFree, Accepted
  <2>3. done = Accepted
    BY <2>1 DEF IInv, Finished
  <2>4. queue = <<>>
    <3>1. queue \in Seq(Jobs) /\ Len(queue) \in Nat
      BY LenProperties DEF IInv, TypeOK
    <3>2. ~(1 \in 1..Len(queue))
      BY <2>3 DEF IInv, Buffered
    <3>3. Len(queue) = 0
      BY <3>1, <3>2
    <3>. QED
      BY <3>1, <3>3, EmptySeq
  <2>5. queued = completed
    BY <2>2, <2>3 DEF IInv, Counted
  <2>6. ASSUME NEW j \in Jobs PROVE ran[j] = IF sub[j] = "accepted" THEN 1 ELSE 0
    <3>1. CASE sub[j] = "accepted"
      BY <2>2, <2>3, <3>1 DEF IInv, Finished
    <3>2. CASE sub[j] # "accepted"
      BY <2>2, <3>2 DEF IInv, Fresh
    <3>. QED
      BY <3>1, <3>2
  <2>. QED
    BY <2>1, <2>4, <2>5, <2>6
<1>. QED
  BY <1>1, Inductive, PTL

-----------------------------------------------------------------------------
(* The shutdown coordinator *)

(* Each hook is in the list at most once, under its deregister function.   *)
HooksOnce ==
    /\ hooks \in Seq(Hooks)
    /\ \A j, k \in 1..Len(hooks) : hooks[j] = hooks[k] => j = k
    /\ \A k \in 1..Len(hooks) : idx[hooks[k]] # 0

(* With distinct names a stale index removes nobody else: whoever is owed  *)
(* a run is in the list and then in its copy.                              *)
KeptUntilRun ==
    DistinctNames =>
      IF started THEN due \subseteq Ids(snap)
      ELSE \A h \in Hooks \ gone : idx[h] # 0 => h \in Ids(hooks)

(* The copy is made once; nothing runs before it is.                       *)
Copied ==
    /\ snap \in Seq(Hooks)
    /\ \A j, k \in 1..Len(snap) : snap[j] = snap[k] => j = k
    /\ ~started => /\ cur = 0 /\ errs = {} /\ ~doneCh
                   /\ snap = <<>>
                   /\ \A h \in Hooks : run[h] = "not"
                   /\ \A c \in Closers : at[c] = "idle"

(* One caller runs the hooks, until doneCh is closed.                      *)
OneRunner ==
    \A c \in Closers : at[c] \in {"loop", "select"} =>
       /\ ~doneCh
       /\ \A d \in Closers : at[d] \in {"loop", "select"} => c = d

(* Below the loop's index nothing has started, above it everything is over *)
(* and every failure is recorded, unless the loop was left with an error.  *)
Turn ==
    /\ \A k \in 1..Len(snap) :
         /\ k < cur => run[snap[k]] = "not"
         /\ k > cur => \/ run[snap[k]] = "ok"
                       \/ run[snap[k]] \in {"failed", "left", "late"} /\ snap[k] \in errs
                       \/ run[snap[k]] = "not" /\ cur = 0 /\ errs # {}
    /\ \A c \in Closers :
         /\ at[c] = "loop" /\ cur > 0 => run[snap[cur]] = "not"
         /\ at[c] = "select" => cur > 0 /\ run[snap[cur]] \in {"runs", "ok", "failed"}

(* Once doneCh is closed the loop is over and its errors were returned, by *)
(* a call that is over and returns nothing else.                           *)
Told ==
    /\ doneCh => cur = 0 /\ (errs # {} => \E c \in Closers : ret[c] = "error")
    /\ \A c \in Closers : ret[c] = "error" => at[c] = "returned"

ShutdownIInv ==
    /\ HookTypes
    /\ HooksOnce
    /\ KeptUntilRun
    /\ Copied
    /\ OneRunner
    /\ Turn
    /\ Told
    /\ LastToFirst

(* Taking out one element.                                                 *)
LEMMA WithoutElement ==
    ASSUME NEW s \in Seq(Hooks), NEW k \in 1..Len(s)
    PROVE  /\ Without(s, k) \in Seq(Hooks)
           /\ Len(Without(s, k)) = Len(s) - 1
           /\ \A j \in 1..Len(s) - 1 : Without(s, k)[j] = IF j < k THEN s[j] ELSE s[j + 1]
<1> DEFINE a == SubSeq(s, 1, k - 1)
           b == SubSeq(s, k + 1, Len(s))
<1>1. /\ a \in Seq(Hooks) /\ Len(a) = k - 1
      /\ \A j \in 1..k - 1 : a[j] = s[j]
  <2>1. \A j \in 1..k - 1 : s[j] \in Hooks
    OBVIOUS
  <2>. QED
    BY <2>1, SubSeqProperties
<1>2. /\ b \in Seq(Hooks) /\ Len(b) = Len(s) - k
      /\ \A j \in 1..Len(s) - k : b[j] = s[k + j]
  <2>1. \A j \in k + 1..Len(s) : s[j] \in Hooks
    OBVIOUS
  <2>2. /\ b \in Seq(Hooks) /\ Len(b) = IF k + 1 <= Len(s) THEN Len(s) - (k + 1) + 1 ELSE 0
        /\ \A j \in 1..Len(s) - (k + 1) + 1 : b[j] = s[(k + 1) + j - 1]
    BY <2>1, SubSeqProperties
  <2>. QED
    BY <2>2
<1> HIDE DEF a, b
<1>3. /\ a \o b \in Seq(Hooks) /\ Len(a \o b) = Len(a) + Len(b)
      /\ \A j \in 1..Len(a) + Len(b) : (a \o b)[j] = IF j <= Len(a) THEN a[j] ELSE b[j - Len(a)]
  BY <1>1, <1>2, ConcatProperties
<1>4. \A j \in 1..Len(s) - 1 : (a \o b)[j] = IF j < k THEN s[j] ELSE s[j + 1]
  <2>1. ASSUME NEW j \in 1..Len(s) - 1
        PROVE  (a \o b)[j] = IF j < k THEN s[j] ELSE s[j + 1]
    <3>1. CASE j < k
      BY <3>1, <1>1, <1>2, <1>3
    <3>2. CASE ~(j < k)
      <4>1. (a \o b)[j] = b[j - (k - 1)] /\ j - (k - 1) \in 1..Len(s) - k
        BY <3>2, <1>1, <1>2, <1>3
      <4>2. b[j - (k - 1)] = s[k + (j - (k - 1))]
        BY <4>1, <1>2
      <4>3. k + (j - (k - 1)) = j + 1
        OBVIOUS
      <4>4. ~(j < k) /\ (a \o b)[j] = s[j + 1]
        BY <3>2, <4>1, <4>2, <4>3
      <4>. QED
        BY <4>4
    <3>. QED
      BY <3>1, <3>2
  <2>. QED
    BY <2>1
<1>5. Without(s, k) = a \o b
  BY DEF Without, a, b
<1>6. Len(a \o b) = Len(s) - 1
  BY <1>1, <1>2, <1>3
<1>. QED
  BY <1>3, <1>4, <1>5, <1>6

(* A list without repetitions that lacks a hook is shorter than the set.   *)
LEMMA RoomForHook ==
    ASSUME HooksOnce, NEW h \in Hooks, \A k \in 1..Len(hooks) : hooks[k] # h
    PROVE  Len(hooks) + 1 \in 0..Cardinality(Hooks)
<1> DEFINE n == Len(hooks) + 1
           f == Append(hooks, h)
<1>1. n \in Nat /\ n > 0
  BY DEF HooksOnce
<1>2. f \in Seq(Hooks) /\ Len(f) = n /\ f[n] = h
      /\ \A k \in 1..n : k # n => k \in 1..Len(hooks) /\ f[k] = hooks[k]
  BY DEF HooksOnce
<1> HIDE DEF f
<1>3. f \in Injection(1..n, Hooks)
  <2>1. f \in [1..n -> Hooks]
    BY <1>2
  <2>2. ASSUME NEW j \in 1..n, NEW k \in 1..n, f[j] = f[k]
        PROVE  j = k
    BY <1>2, <2>2 DEF HooksOnce
  <2>. QED
    BY <2>1, <2>2 DEF Injection, IsInjective
<1>4. Cardinality(1..n) <= Cardinality(Hooks)
  BY <1>3, FS_Injection, ShutdownAssumption
<1>5. Cardinality(1..n) = n
  BY <1>1, FS_Interval
<1>6. Cardinality(Hooks) \in Nat
  BY FS_CardinalityType, ShutdownAssumption
<1>. QED
  BY <1>1, <1>4, <1>5, <1>6

LEMMA ShutdownInitIInv == ShutdownInit => ShutdownIInv
<1>. SUFFICES ASSUME ShutdownInit PROVE ShutdownIInv
  OBVIOUS
<1>. USE DEF ShutdownInit
<1>1. Cardinality(Hooks) \in Nat
  BY FS_CardinalityType, ShutdownAssumption
<1>2. HookTypes
  <2>1. Ids(hooks) = {} /\ Ids(snap) = {} /\ Len(snap) = 0
    BY DEF Ids
  <2>2. /\ idx \in [Hooks -> 0..Cardinality(Hooks)] /\ cur \in 0..Len(snap)
        /\ gone \subseteq Hooks /\ due \subseteq Hooks /\ errs \subseteq Hooks
    BY <1>1, <2>1
  <2>3. /\ run \in [Hooks -> {"not", "runs", "ok", "failed", "left", "late"}]
        /\ at \in [Closers -> {"idle", "loop", "select", "await", "returned"}]
        /\ ret \in [Closers -> {"none", "nil", "error"}]
    OBVIOUS
  <2>. QED
    BY <2>1, <2>2, <2>3 DEF HookTypes
<1>3. HooksOnce /\ KeptUntilRun /\ Copied
  BY DEF HooksOnce, KeptUntilRun, Copied
<1>4. OneRunner /\ Turn /\ Told /\ LastToFirst
  BY DEF OneRunner, Turn, Told, LastToFirst
<1>. QED
  BY <1>2, <1>3, <1>4 DEF ShutdownIInv

(* A list's elements, by position.                                         *)
LEMMA IdsOf ==
    ASSUME NEW s \in Seq(Hooks)
    PROVE  Ids(s) = {s[k] : k \in 1..Len(s)} /\ Ids(s) \subseteq Hooks
BY DEF Ids

(* What only concerns the list leaves the run alone, and the reverse.      *)
LEMMA RunKept ==
    ASSUME ShutdownIInv,
           UNCHANGED <<started, doneCh, due, snap, cur, run, errs, at, ret>>
    PROVE  Copied' /\ OneRunner' /\ Turn' /\ Told' /\ LastToFirst'
<1>1. Copied' /\ OneRunner' /\ Told'
  BY DEF ShutdownIInv, Copied, OneRunner, Told
<1>2. Turn' /\ LastToFirst'
  BY DEF ShutdownIInv, Turn, LastToFirst
<1>. QED
  BY <1>1, <1>2

LEMMA ListKept ==
    ASSUME ShutdownIInv, UNCHANGED <<hooks, idx, gone, started, due, snap>>
    PROVE  HooksOnce' /\ KeptUntilRun'
BY DEF ShutdownIInv, HooksOnce, KeptUntilRun, Ids

LEMMA RegisterStep ==
    ASSUME ShutdownIInv, NEW h \in Hooks, Register(h)
    PROVE  ShutdownIInv'
<1>1. /\ idx[h] = 0 /\ hooks' = Append(hooks, h)
      /\ idx' = [idx EXCEPT ![h] = Len(hooks) + 1]
      /\ UNCHANGED <<gone, started, doneCh, due, snap, cur, run, expired, errs, at, ret>>
  BY DEF Register
<1>2. /\ hooks \in Seq(Hooks) /\ hooks' \in Seq(Hooks) /\ Len(hooks') = Len(hooks) + 1
      /\ Len(hooks) \in Nat
      /\ hooks'[Len(hooks) + 1] = h
      /\ \A k \in 1..Len(hooks) : hooks'[k] = hooks[k] /\ hooks[k] # h
      /\ \A k \in 1..Len(hooks) + 1 : k = Len(hooks) + 1 \/ k \in 1..Len(hooks)
  BY <1>1 DEF ShutdownIInv, HooksOnce
<1>3. HookTypes'
  <2>1. Len(hooks) + 1 \in 0..Cardinality(Hooks)
    BY <1>2, RoomForHook DEF ShutdownIInv
  <2>2. idx' \in [Hooks -> 0..Cardinality(Hooks)]
    BY <1>1, <2>1 DEF ShutdownIInv, HookTypes
  <2>3. Ids(hooks') \subseteq Hooks
    BY <1>2, IdsOf
  <2>. QED
    BY <1>1, <2>2, <2>3 DEF ShutdownIInv, HookTypes, Ids
<1>4. HooksOnce'
  <2>1. ASSUME NEW j \in 1..Len(hooks) + 1, NEW k \in 1..Len(hooks) + 1, hooks'[j] = hooks'[k]
        PROVE  j = k
    BY <1>2, <2>1 DEF ShutdownIInv, HooksOnce
  <2>2. ASSUME NEW k \in 1..Len(hooks) + 1 PROVE idx'[hooks'[k]] # 0
    <3>1. CASE k = Len(hooks) + 1
      BY <3>1, <1>1, <1>2 DEF ShutdownIInv, HookTypes
    <3>2. CASE k \in 1..Len(hooks)
      BY <3>2, <1>1, <1>2 DEF ShutdownIInv, HookTypes, HooksOnce
    <3>. QED
      BY <3>1, <3>2, <1>2
  <2>. QED
    BY <1>2, <2>1, <2>2 DEF HooksOnce
<1>5. KeptUntilRun'
  <2>1. Ids(hooks) \cup {h} \subseteq Ids(hooks')
    <3>1. Ids(hooks) = {hooks[k] : k \in 1..Len(hooks)}
          /\ Ids(hooks') = {hooks'[k] : k \in 1..Len(hooks) + 1}
      BY <1>2, IdsOf
    <3>2. \A k \in 1..Len(hooks) : k \in 1..Len(hooks) + 1 /\ hooks'[k] = hooks[k]
      BY <1>2
    <3>3. Len(hooks) + 1 \in 1..Len(hooks) + 1
      BY <1>2
    <3>. QED
      BY <1>2, <3>1, <3>2, <3>3
  <2>2. Ids(snap)' = Ids(snap)
    BY <1>1 DEF Ids
  <2>. QED
    BY <1>1, <2>1, <2>2 DEF ShutdownIInv, KeptUntilRun, HookTypes
<1>. QED
  BY <1>1, <1>3, <1>4, <1>5, RunKept DEF ShutdownIInv

(* The deregister function removes its own hook or none, if names differ,  *)
(* whatever earlier removals made of its index.                            *)
LEMMA DeregisterStep ==
    ASSUME ShutdownIInv, NEW h \in Hooks, Deregister(h)
    PROVE  ShutdownIInv'
<1>1. /\ gone' = gone \cup {h} /\ ~started
      /\ UNCHANGED <<idx, started, doneCh, due, snap, cur, run, expired, errs, at, ret>>
  BY DEF Deregister
<1>2. hooks \in Seq(Hooks) /\ Len(hooks) \in Nat /\ idx[h] \in Nat /\ idx[h] # 0
  BY DEF ShutdownIInv, HooksOnce, HookTypes, Deregister
<1>3. CASE hooks' = hooks
  <2>1. HookTypes' /\ HooksOnce'
    BY <1>1, <1>3 DEF ShutdownIInv, HookTypes, HooksOnce, Ids
  <2>2. KeptUntilRun'
    BY <1>1, <1>3 DEF ShutdownIInv, KeptUntilRun, Ids
  <2>. QED
    BY <1>1, <2>1, <2>2, RunKept DEF ShutdownIInv
<1>4. CASE /\ idx[h] <= Len(hooks) /\ NameOf[hooks[idx[h]]] = NameOf[h]
           /\ hooks' = Without(hooks, idx[h])
  <2> DEFINE p == idx[h]
             After(j) == IF j < p THEN j ELSE j + 1
  <2>1. p \in 1..Len(hooks)
    BY <1>2, <1>4
  <2>2. /\ hooks' \in Seq(Hooks) /\ Len(hooks') = Len(hooks) - 1
        /\ \A j \in 1..Len(hooks) - 1 : hooks'[j] = hooks[After(j)]
    BY <1>2, <1>4, <2>1, WithoutElement
  <2>3. \A j \in 1..Len(hooks) - 1 : After(j) \in 1..Len(hooks)
    BY <1>2, <2>1
  <2>4. \A j, k \in 1..Len(hooks) - 1 : After(j) = After(k) => j = k
    BY <1>2, <2>1
  <2>5. HooksOnce'
    <3>1. \A j, k \in 1..Len(hooks) - 1 : hooks'[j] = hooks'[k] => j = k
      <4>1. ASSUME NEW j \in 1..Len(hooks) - 1, NEW k \in 1..Len(hooks) - 1,
                   hooks'[j] = hooks'[k]
            PROVE  j = k
        <5>1. hooks[After(j)] = hooks[After(k)]
          BY <2>2, <4>1
        <5>2. After(j) = After(k)
          BY <2>3, <5>1 DEF ShutdownIInv, HooksOnce
        <5>. QED
          BY <2>4, <5>2
      <4>. QED
        BY <4>1
    <3>2. \A j \in 1..Len(hooks) - 1 : idx'[hooks'[j]] # 0
      BY <1>1, <2>2, <2>3 DEF ShutdownIInv, HooksOnce
    <3>. QED
      BY <2>2, <3>1, <3>2 DEF HooksOnce
  <2>6. HookTypes'
    <3>1. Ids(hooks') \subseteq Hooks
      BY <2>2, IdsOf
    <3>. QED
      BY <1>1, <3>1 DEF ShutdownIInv, HookTypes, Ids
  <2>7. KeptUntilRun'
    <3>1. ASSUME DistinctNames, NEW g \in Hooks \ gone', idx[g] # 0
          PROVE  g \in Ids(hooks')
      <4>1. hooks[p] = h
        BY <1>2, <1>4, <2>1, <3>1 DEF DistinctNames
      <4>2. PICK k \in 1..Len(hooks) : hooks[k] = g
        BY <1>1, <1>2, <3>1, IdsOf DEF ShutdownIInv, KeptUntilRun
      <4>3. k # p
        BY <1>1, <3>1, <4>1, <4>2
      <4>4. PICK j \in 1..Len(hooks) - 1 : After(j) = k
        <5>1. CASE k < p
          <6>1. k \in 1..Len(hooks) - 1 /\ After(k) = k
            BY <5>1, <1>2, <2>1
          <6>. QED
            BY <6>1
        <5>2. CASE k > p
          <6>1. k - 1 \in 1..Len(hooks) - 1 /\ After(k - 1) = k
            BY <5>2, <1>2, <2>1
          <6>. QED
            BY <6>1
        <5>. QED
          BY <5>1, <5>2, <4>3, <1>2, <2>1
      <4>5. hooks'[j] = g /\ j \in 1..Len(hooks')
        BY <2>2, <4>2, <4>4
      <4>. QED
        BY <2>2, <4>5, IdsOf
    <3>. QED
      BY <1>1, <3>1 DEF KeptUntilRun
  <2>. QED
    BY <1>1, <2>5, <2>6, <2>7, RunKept DEF ShutdownIInv
<1>. QED
  BY <1>2, <1>3, <1>4 DEF Deregister

(* The first call copies the list; later ones only wait.                   *)
LEMMA CallShutdownStep ==
    ASSUME ShutdownIInv, NEW c \in Closers, CallShutdown(c)
    PROVE  ShutdownIInv'
<1>1. /\ at[c] = "idle"
      /\ UNCHANGED <<hooks, idx, gone, doneCh, run, expired, errs, ret>>
      /\ at \in [Closers -> {"idle", "loop", "select", "await", "returned"}]
  BY DEF CallShutdown, ShutdownIInv, HookTypes
<1>2. CASE started
  <2>1. at' = [at EXCEPT ![c] = "await"] /\ UNCHANGED <<started, due, snap, cur>>
    BY <1>2 DEF CallShutdown, Go
  <2>2. HookTypes'
    BY <1>1, <2>1 DEF ShutdownIInv, HookTypes, Ids
  <2>3. Copied' /\ OneRunner' /\ Told'
    BY <1>1, <1>2, <2>1 DEF ShutdownIInv, Copied, OneRunner, Told
  <2>4. Turn' /\ LastToFirst'
    BY <1>1, <2>1 DEF ShutdownIInv, Turn, LastToFirst
  <2>. QED
    BY <1>1, <2>1, <2>2, <2>3, <2>4, ListKept DEF ShutdownIInv
<1>3. CASE ~started
  <2>1. /\ at' = [at EXCEPT ![c] = "loop"] /\ started' = TRUE
        /\ snap' = hooks /\ cur' = Len(hooks)
        /\ due' = {h \in Hooks : idx[h] # 0} \ gone
    BY <1>3 DEF CallShutdown, Go
  <2>2. hooks \in Seq(Hooks) /\ Len(hooks) \in Nat
        /\ \A k \in 1..Len(hooks) : hooks[k] \in Hooks
    BY DEF ShutdownIInv, HooksOnce
  <2>3. HookTypes'
    BY <1>1, <2>1, <2>2 DEF ShutdownIInv, HookTypes, Ids
  <2>4. HooksOnce'
    BY <1>1 DEF ShutdownIInv, HooksOnce
  <2>5. KeptUntilRun'
    BY <1>1, <1>3, <2>1 DEF ShutdownIInv, KeptUntilRun, Ids
  <2>6. Copied'
    BY <2>1, <2>2 DEF ShutdownIInv, HooksOnce, Copied
  <2>7. OneRunner' /\ Told'
    BY <1>1, <1>3, <2>1 DEF ShutdownIInv, Copied, OneRunner, Told
  <2>8. \A h \in Hooks : run[h] = "not"
    BY <1>3 DEF ShutdownIInv, Copied
  <2>9. Turn'
    BY <1>1, <1>3, <2>1, <2>2, <2>8 DEF Turn, ShutdownIInv, Copied
  <2>10. LastToFirst'
    BY <1>1, <2>1, <2>2, <2>8 DEF LastToFirst
  <2>. QED
    BY <2>3, <2>4, <2>5, <2>6, <2>7, <2>9, <2>10 DEF ShutdownIInv
<1>. QED
  BY <1>2, <1>3

(* The runner has the loop to itself, within the copy.                     *)
LEMMA AtLoop ==
    ASSUME ShutdownIInv, NEW c \in Closers, at[c] \in {"loop", "select"}
    PROVE  /\ started /\ ~doneCh
           /\ \A d \in Closers \ {c} : at[d] \notin {"loop", "select"}
           /\ at \in [Closers -> {"idle", "loop", "select", "await", "returned"}]
           /\ run \in [Hooks -> {"not", "runs", "ok", "failed", "left", "late"}]
           /\ errs \subseteq Hooks
           /\ Len(snap) \in Nat /\ cur \in 0..Len(snap)
           /\ \A k \in 1..Len(snap) : snap[k] \in Hooks
           /\ \A j, k \in 1..Len(snap) : snap[j] = snap[k] => j = k
           /\ DOMAIN snap = 1..Len(snap)
BY DEF ShutdownIInv, HookTypes, Copied, OneRunner

(* The context ends the loop, or the next hook starts: all before it in    *)
(* turn are over, all after it have not begun.                             *)
LEMMA StartHookStep ==
    ASSUME ShutdownIInv, NEW c \in Closers, StartHook(c)
    PROVE  ShutdownIInv'
<1>1. /\ at[c] = "loop" /\ cur > 0
      /\ UNCHANGED <<hooks, idx, gone, started, doneCh, due, snap, expired, ret>>
  BY DEF StartHook
<1>2. /\ started /\ ~doneCh
      /\ \A d \in Closers \ {c} : at[d] \notin {"loop", "select"}
      /\ at \in [Closers -> {"idle", "loop", "select", "await", "returned"}]
      /\ run \in [Hooks -> {"not", "runs", "ok", "failed", "left", "late"}]
      /\ errs \subseteq Hooks
      /\ Len(snap) \in Nat /\ cur \in 1..Len(snap)
      /\ \A k \in 1..Len(snap) : snap[k] \in Hooks
      /\ \A j, k \in 1..Len(snap) : snap[j] = snap[k] => j = k
      /\ DOMAIN snap = 1..Len(snap)
  BY <1>1, AtLoop
<1>3. HooksOnce' /\ KeptUntilRun'
  BY <1>1, ListKept
<1>4. run[snap[cur]] = "not"
  BY <1>1 DEF ShutdownIInv, Turn
<1>5. CASE expired
  <2>1. errs' = errs \cup {snap[cur]} /\ cur' = 0 /\ UNCHANGED <<run, at>>
    BY <1>5 DEF StartHook
  <2>2. HookTypes'
    BY <1>1, <1>2, <2>1 DEF ShutdownIInv, HookTypes, Ids
  <2>3. Copied' /\ OneRunner' /\ Told'
    BY <1>1, <1>2, <2>1 DEF ShutdownIInv, Copied, OneRunner, Told
  <2>4. Turn'
    <3>1. ASSUME NEW k \in 1..Len(snap)
          PROVE  \/ run[snap[k]] = "ok"
                 \/ run[snap[k]] \in {"failed", "left", "late"} /\ snap[k] \in errs'
                 \/ run[snap[k]] = "not"
      BY <1>2, <1>4, <2>1 DEF ShutdownIInv, Turn
    <3>2. ASSUME NEW d \in Closers PROVE at'[d] # "select"
      BY <1>1, <1>2, <2>1
    <3>. QED
      BY <1>1, <1>2, <2>1, <3>1, <3>2 DEF Turn
  <2>5. LastToFirst'
    BY <1>1, <2>1 DEF ShutdownIInv, LastToFirst
  <2>. QED
    BY <1>3, <2>2, <2>3, <2>4, <2>5 DEF ShutdownIInv
<1>6. CASE ~expired
  <2>1. /\ run' = [run EXCEPT ![snap[cur]] = "runs"]
        /\ at' = [at EXCEPT ![c] = "select"] /\ UNCHANGED <<errs, cur>>
    BY <1>6 DEF StartHook, Go
  <2>2. /\ run'[snap[cur]] = "runs"
        /\ \A k \in 1..Len(snap) : k # cur => run'[snap[k]] = run[snap[k]]
    BY <1>2, <2>1
  <2>3. HookTypes'
    BY <1>1, <1>2, <2>1 DEF ShutdownIInv, HookTypes, Ids
  <2>4. Copied' /\ OneRunner' /\ Told'
    BY <1>1, <1>2, <2>1 DEF ShutdownIInv, Copied, OneRunner, Told
  <2>5. Turn'
    <3>1. ASSUME NEW k \in 1..Len(snap)
          PROVE  /\ k < cur => run'[snap[k]] = "not"
                 /\ k > cur => \/ run'[snap[k]] = "ok"
                               \/ run'[snap[k]] \in {"failed", "left", "late"} /\ snap[k] \in errs
                               \/ run'[snap[k]] = "not" /\ cur = 0 /\ errs # {}
      BY <1>2, <2>2 DEF ShutdownIInv, Turn
    <3>2. ASSUME NEW d \in Closers
          PROVE  /\ at'[d] # "loop"
                 /\ at'[d] = "select" => cur > 0 /\ run'[snap[cur]] \in {"runs", "ok", "failed"}
      BY <1>1, <1>2, <2>1, <2>2
    <3>. QED
      BY <1>1, <2>1, <3>1, <3>2 DEF Turn
  <2>6. LastToFirst'
    <3>1. ASSUME NEW j \in 1..Len(snap), NEW k \in 1..Len(snap), j < k, run'[snap[j]] # "not"
          PROVE  \/ run'[snap[k]] \in {"ok", "failed"}
                 \/ run'[snap[k]] \in {"left", "late"} /\ snap[k] \in errs
      <4>1. j >= cur
        BY <1>2, <2>2, <3>1 DEF ShutdownIInv, Turn
      <4>2. k > cur /\ k # cur
        BY <1>2, <3>1, <4>1
      <4>. QED
        BY <1>1, <1>2, <2>2, <4>2 DEF ShutdownIInv, Turn
    <3>. QED
      BY <1>1, <1>2, <2>1, <3>1 DEF LastToFirst
  <2>. QED
    BY <1>3, <2>3, <2>4, <2>5, <2>6 DEF ShutdownIInv
<1>. QED
  BY <1>5, <1>6

(* A hook ends, in time or after it was given up.                          *)
LEMMA HookEndsStep ==
    ASSUME ShutdownIInv, NEW h \in Hooks, HookEnds(h)
    PROVE  ShutdownIInv'
<1>1. /\ run[h] \in {"runs", "left"}
      /\ UNCHANGED <<hooks, idx, gone, started, doneCh, due, snap, cur, expired, errs, at, ret>>
      /\ run \in [Hooks -> {"not", "runs", "ok", "failed", "left", "late"}]
  BY DEF HookEnds, ShutdownIInv, HookTypes
<1>2. PICK r \in {"ok", "failed"} :
        run' = [run EXCEPT ![h] = IF @ = "left" THEN "late" ELSE r]
  BY DEF HookEnds
<1>3. /\ \A g \in Hooks : g # h => run'[g] = run[g]
      /\ run[h] = "left" => run'[h] = "late"
      /\ run[h] = "runs" => run'[h] \in {"ok", "failed"}
  BY <1>1, <1>2
<1>4. HookTypes'
  BY <1>1, <1>2 DEF ShutdownIInv, HookTypes, Ids
<1>5. snap \in Seq(Hooks) /\ Len(snap) \in Nat /\ DOMAIN snap = 1..Len(snap)
      /\ \A k \in 1..Len(snap) : snap[k] \in Hooks
  BY DEF ShutdownIInv, Copied
<1>6. Copied' /\ OneRunner' /\ Told'
  BY <1>1 DEF ShutdownIInv, Copied, OneRunner, Told
<1>7. Turn'
  <2>1. ASSUME NEW k \in 1..Len(snap)
        PROVE  /\ k < cur => run'[snap[k]] = "not"
               /\ k > cur => \/ run'[snap[k]] = "ok"
                             \/ run'[snap[k]] \in {"failed", "left", "late"} /\ snap[k] \in errs
                             \/ run'[snap[k]] = "not" /\ cur = 0 /\ errs # {}
    <3>1. CASE snap[k] # h
      BY <3>1, <1>3, <1>5 DEF ShutdownIInv, Turn
    <3>2. CASE snap[k] = h
      BY <3>2, <1>1, <1>3 DEF ShutdownIInv, Turn
    <3>. QED
      BY <3>1, <3>2
  <2>2. ASSUME NEW c \in Closers
        PROVE  /\ at[c] = "loop" /\ cur > 0 => run'[snap[cur]] = "not"
               /\ at[c] = "select" => cur > 0 /\ run'[snap[cur]] \in {"runs", "ok", "failed"}
    <3>1. cur > 0 => snap[cur] \in Hooks
      BY <1>5 DEF ShutdownIInv, HookTypes
    <3>. QED
      BY <1>1, <1>3, <3>1 DEF ShutdownIInv, Turn
  <2>. QED
    BY <1>1, <2>1, <2>2 DEF Turn
<1>8. LastToFirst'
  <2>1. ASSUME NEW j \in 1..Len(snap), NEW k \in 1..Len(snap), j < k, run'[snap[j]] # "not"
        PROVE  \/ run'[snap[k]] \in {"ok", "failed"}
               \/ run'[snap[k]] \in {"left", "late"} /\ snap[k] \in errs
    <3>1. run[snap[j]] # "not"
      BY <1>1, <1>3, <1>5, <2>1
    <3>2. \/ run[snap[k]] \in {"ok", "failed"}
          \/ run[snap[k]] \in {"left", "late"} /\ snap[k] \in errs
      BY <1>5, <2>1, <3>1 DEF ShutdownIInv, LastToFirst
    <3>. QED
      BY <1>1, <1>3, <1>5, <3>2
  <2>. QED
    BY <1>1, <1>5, <2>1 DEF LastToFirst
<1>. QED
  BY <1>1, <1>4, <1>6, <1>7, <1>8, ListKept DEF ShutdownIInv

(* The runner goes on to the next hook: the one it had is over, with its   *)
(* error recorded if it had one.                                           *)
LEMMA AdvanceStep ==
    ASSUME ShutdownIInv, NEW c \in Closers, at[c] = "select",
           at' = [at EXCEPT ![c] = "loop"], cur' = cur - 1,
           NEW s \in {"ok", "failed", "left", "late"},
           run' = [run EXCEPT ![snap[cur]] = s],
           errs' \in SUBSET Hooks, errs \subseteq errs', s # "ok" => snap[cur] \in errs',
           UNCHANGED <<hooks, idx, gone, started, doneCh, due, snap, expired, ret>>
    PROVE  ShutdownIInv'
<1>1. /\ started /\ ~doneCh
      /\ \A d \in Closers \ {c} : at[d] \notin {"loop", "select"}
      /\ at \in [Closers -> {"idle", "loop", "select", "await", "returned"}]
      /\ run \in [Hooks -> {"not", "runs", "ok", "failed", "left", "late"}]
      /\ Len(snap) \in Nat /\ cur \in 0..Len(snap)
      /\ \A k \in 1..Len(snap) : snap[k] \in Hooks
      /\ \A j, k \in 1..Len(snap) : snap[j] = snap[k] => j = k
      /\ DOMAIN snap = 1..Len(snap)
  BY AtLoop
<1>2. cur > 0 /\ cur \in 1..Len(snap) /\ cur \in Nat
  BY <1>1 DEF ShutdownIInv, Turn
<1>3. /\ run'[snap[cur]] = s
      /\ \A k \in 1..Len(snap) : k # cur => run'[snap[k]] = run[snap[k]]
  BY <1>1, <1>2
<1>4. HookTypes'
  BY <1>1, <1>2 DEF ShutdownIInv, HookTypes, Ids
<1>5. Copied' /\ OneRunner' /\ Told'
  BY <1>1 DEF ShutdownIInv, Copied, OneRunner, Told
<1>6. Turn'
  <2>1. ASSUME NEW k \in 1..Len(snap)
        PROVE  /\ k < cur - 1 => run'[snap[k]] = "not"
               /\ k > cur - 1 => \/ run'[snap[k]] = "ok"
                                 \/ run'[snap[k]] \in {"failed", "left", "late"} /\ snap[k] \in errs'
    <3>1. CASE k = cur
      BY <3>1, <1>2, <1>3
    <3>2. CASE k # cur
      BY <3>2, <1>1, <1>2, <1>3 DEF ShutdownIInv, Turn
    <3>. QED
      BY <3>1, <3>2
  <2>2. ASSUME NEW d \in Closers
        PROVE  /\ cur - 1 > 0 => run'[snap[cur - 1]] = "not"
               /\ at'[d] # "select"
    <3>1. cur - 1 > 0 => cur - 1 \in 1..Len(snap) /\ cur - 1 # cur /\ cur - 1 < cur
      BY <1>1, <1>2
    <3>2. cur - 1 > 0 => run[snap[cur - 1]] = "not"
      BY <3>1 DEF ShutdownIInv, Turn
    <3>. QED
      BY <1>1, <1>3, <3>1, <3>2
  <2>. QED
    BY <2>1, <2>2 DEF Turn
<1>7. LastToFirst'
  <2>1. ASSUME NEW j \in 1..Len(snap), NEW k \in 1..Len(snap), j < k, run'[snap[j]] # "not"
        PROVE  \/ run'[snap[k]] \in {"ok", "failed"}
               \/ run'[snap[k]] \in {"left", "late"} /\ snap[k] \in errs'
    <3>1. j >= cur
      BY <1>2, <1>3, <2>1 DEF ShutdownIInv, Turn
    <3>2. k > cur /\ k # cur
      BY <1>2, <2>1, <3>1
    <3>. QED
      BY <1>2, <1>3, <3>2 DEF ShutdownIInv, Turn
  <2>. QED
    BY <1>1, <2>1 DEF LastToFirst
<1>. QED
  BY <1>4, <1>5, <1>6, <1>7, ListKept DEF ShutdownIInv

(* The select: the result is received or the hook is given up.             *)
LEMMA SelectStep ==
    ASSUME ShutdownIInv, NEW c \in Closers, Collect(c) \/ GiveUp(c)
    PROVE  ShutdownIInv'
<1>1. /\ at[c] = "select" /\ at' = [at EXCEPT ![c] = "loop"] /\ cur' = cur - 1
      /\ UNCHANGED <<hooks, idx, gone, started, doneCh, due, snap, expired, ret>>
  BY DEF Collect, GiveUp, Go
<1>2. /\ cur \in 1..Len(snap) /\ snap[cur] \in Hooks /\ errs \subseteq Hooks
      /\ run \in [Hooks -> {"not", "runs", "ok", "failed", "left", "late"}]
  BY <1>1, AtLoop DEF ShutdownIInv, Turn
<1>3. CASE Collect(c)
  <2>1. run' = [run EXCEPT ![snap[cur]] = run[snap[cur]]] /\ run[snap[cur]] \in {"ok", "failed"}
    BY <1>2, <1>3 DEF Collect
  <2>2. /\ errs' \in SUBSET Hooks /\ errs \subseteq errs'
        /\ run[snap[cur]] # "ok" => snap[cur] \in errs'
    BY <1>2, <1>3 DEF Collect
  <2>. QED
    BY <1>1, <2>1, <2>2, AdvanceStep
<1>4. CASE GiveUp(c)
  <2> DEFINE s == IF run[snap[cur]] = "runs" THEN "left" ELSE "late"
  <2>1. run' = [run EXCEPT ![snap[cur]] = s] /\ s \in {"left", "late"}
    BY <1>4 DEF GiveUp
  <2>2. errs' \in SUBSET Hooks /\ errs \subseteq errs' /\ snap[cur] \in errs'
    BY <1>2, <1>4 DEF GiveUp
  <2> HIDE DEF s
  <2>. QED
    BY <1>1, <2>1, <2>2, AdvanceStep
<1>. QED
  BY <1>3, <1>4

(* doneCh is closed in the step that returns the errors; later calls and   *)
(* the context change nothing of that.                                     *)
LEMMA FinishShutdownStep ==
    ASSUME ShutdownIInv, NEW c \in Closers, FinishShutdown(c)
    PROVE  ShutdownIInv'
<1>1. /\ at[c] = "loop" /\ cur = 0 /\ doneCh' = TRUE
      /\ ret' = [ret EXCEPT ![c] = IF errs = {} THEN "nil" ELSE "error"]
      /\ at' = [at EXCEPT ![c] = "returned"]
      /\ UNCHANGED <<hooks, idx, gone, started, due, snap, cur, run, expired, errs>>
  BY DEF FinishShutdown, Go
<1>2. /\ started
      /\ \A d \in Closers \ {c} : at[d] \notin {"loop", "select"}
      /\ at \in [Closers -> {"idle", "loop", "select", "await", "returned"}]
  BY <1>1, AtLoop
<1>3. HookTypes'
  BY <1>1 DEF ShutdownIInv, HookTypes, Ids
<1>4. Copied' /\ OneRunner'
  BY <1>1, <1>2 DEF ShutdownIInv, Copied, OneRunner
<1>5. Told'
  BY <1>1 DEF ShutdownIInv, HookTypes, Told
<1>6. Turn' /\ LastToFirst'
  BY <1>1, <1>2 DEF ShutdownIInv, Turn, LastToFirst
<1>. QED
  BY <1>1, <1>3, <1>4, <1>5, <1>6, ListKept DEF ShutdownIInv

LEMMA AwaitDoneStep ==
    ASSUME ShutdownIInv, NEW c \in Closers, AwaitDone(c)
    PROVE  ShutdownIInv'
<1>1. /\ at[c] = "await" /\ doneCh
      /\ ret' = [ret EXCEPT ![c] = "nil"] /\ at' = [at EXCEPT ![c] = "returned"]
      /\ UNCHANGED <<hooks, idx, gone, started, doneCh, due, snap, cur, run, expired, errs>>
      /\ at \in [Closers -> {"idle", "loop", "select", "await", "returned"}]
  BY DEF AwaitDone, Go, ShutdownIInv, HookTypes
<1>2. HookTypes'
  BY <1>1 DEF ShutdownIInv, HookTypes, Ids
<1>3. Copied' /\ OneRunner'
  BY <1>1 DEF ShutdownIInv, Copied, OneRunner
<1>4. Told'
  BY <1>1 DEF ShutdownIInv, HookTypes, Told
<1>5. Turn' /\ LastToFirst'
  BY <1>1 DEF ShutdownIInv, Turn, LastToFirst
<1>. QED
  BY <1>1, <1>2, <1>3, <1>4, <1>5, ListKept DEF ShutdownIInv

LEMMA ShutdownNextIInv == ShutdownIInv /\ [ShutdownNext]_shutdownVars => ShutdownIInv'
<1>. SUFFICES ASSUME ShutdownIInv, [ShutdownNext]_shutdownVars PROVE ShutdownIInv'
  OBVIOUS
<1>1. ASSUME NEW h \in Hooks, Register(h) \/ Deregister(h) \/ HookEnds(h)
      PROVE  ShutdownIInv'
  BY <1>1, RegisterStep, DeregisterStep, HookEndsStep
<1>2. ASSUME NEW c \in Closers, CallShutdown(c) \/ ShutdownStep(c)
      PROVE  ShutdownIInv'
  BY <1>2, CallShutdownStep, StartHookStep, SelectStep, FinishShutdownStep, AwaitDoneStep
     DEF ShutdownStep
<1>3. CASE Expire \/ UNCHANGED shutdownVars
  <2>1. /\ UNCHANGED <<hooks, idx, gone, started, doneCh, due, snap, cur, run, errs, at, ret>>
        /\ expired' \in BOOLEAN
    BY <1>3 DEF Expire, shutdownVars, ShutdownIInv, HookTypes
  <2>2. HookTypes'
    BY <2>1 DEF ShutdownIInv, HookTypes, Ids
  <2>. QED
    BY <2>1, <2>2, ListKept, RunKept DEF ShutdownIInv
<1>. QED
  BY <1>1, <1>2, <1>3 DEF ShutdownNext

LEMMA ShutdownInductive == ShutdownSpec => []ShutdownIInv
BY ShutdownInitIInv, ShutdownNextIInv, PTL DEF ShutdownSpec

(* Whatever the hooks do and whenever the context ends, the loop stays     *)
(* within its copy and a hook starts only when every hook registered after *)
(* it has ended or was given up with an error, for any finite set of hooks *)
(* under any names and any callers (shutdown.go:128).                      *)
THEOREM ShutdownInTurn == ShutdownSpec => []HooksInTurn
<1>1. ShutdownIInv => HooksInTurn
  BY DEF ShutdownIInv, HooksInTurn
<1>. QED
  BY <1>1, ShutdownInductive, PTL

(* When no Shutdown returned an error and the names differ, every hook     *)
(* registered in time and not deregistered ran to its end without one,     *)
(* however the deregistrations shifted the indexes (shutdown.go:82, 129).  *)
THEOREM ShutdownTellsAll == ShutdownSpec => []NilMeansAll
<1>1. ShutdownIInv => NilMeansAll
  <2>. SUFFICES ASSUME ShutdownIInv, DistinctNames, doneCh,
                       \A c \in Closers : ret[c] # "error",
                       NEW h \in due \cup Ids(snap)
                PROVE  run[h] = "ok"
    BY DEF NilMeansAll
  <2>1. cur = 0 /\ errs = {}
    BY DEF ShutdownIInv, Told
  <2>2. started /\ snap \in Seq(Hooks)
    BY DEF ShutdownIInv, Copied
  <2>3. h \in Ids(snap)
    BY <2>2 DEF ShutdownIInv, KeptUntilRun
  <2>4. PICK k \in 1..Len(snap) : snap[k] = h
    BY <2>2, <2>3, IdsOf
  <2>5. k > cur
    BY <2>1
  <2>. QED
    BY <2>1, <2>4, <2>5 DEF ShutdownIInv, Turn
<1>. QED
  BY <1>1, ShutdownInductive, PTL

=============================================================================
