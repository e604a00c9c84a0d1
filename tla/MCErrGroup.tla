----------------------------- MODULE MCErrGroup -----------------------------
(* A limiter of two permits shared by a group of three tasks, which may      *)
(* start one another, and a group of one.                                    *)
EXTENDS ErrGroup, TLC

CONSTANTS t1, t2, t3, u1, g1, g2

MCGroupOf == (t1 :> g1) @@ (t2 :> g1) @@ (t3 :> g1) @@ (u1 :> g2)
=============================================================================
