---------------------------- MODULE MCSemaphore -----------------------------
(***************************************************************************)
(* A small instance of Semaphore: more goroutines than the capacity, and   *)
(* requests for one permit and for all of them.                            *)
(***************************************************************************)
EXTENDS Semaphore
=============================================================================
