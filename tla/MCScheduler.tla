---------------------------- MODULE MCScheduler -----------------------------
(***************************************************************************)
(* A small instance of Scheduler: a periodic job, a one-shot of the same   *)
(* name that replaces it or is replaced by it, behind a limiter of one     *)
(* permit.                                                                 *)
(***************************************************************************)
EXTENDS Scheduler

MCEntries == {"periodic", "once"}
MCNames == {"job"}
MCJobName == [e \in MCEntries |-> "job"]
MCInterval == [e \in MCEntries |-> IF e = "periodic" THEN 1 ELSE 0]
MCAt == [e \in MCEntries |-> IF e = "periodic" THEN 0 ELSE 1]

=============================================================================
