-------------------------- MODULE MCCircuitBreaker --------------------------
(***************************************************************************)
(* A small instance of CircuitBreaker: three callers, so that two calls    *)
(* admitted when closed can outlive a probe.                               *)
(***************************************************************************)
EXTENDS CircuitBreaker
=============================================================================
