----------------------------- MODULE MCShutdown -----------------------------
(* Three hooks under names of their own and two callers of Shutdown.         *)
EXTENDS Shutdown

MCNameOf == [h \in Hooks |-> h]
=============================================================================
