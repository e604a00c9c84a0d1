--------------------------- MODULE MCAsyncWriter ----------------------------
(***************************************************************************)
(* A small instance of AsyncWriter: more jobs than the buffer holds, two   *)
(* workers, and two goroutines that flush or close.                        *)
(***************************************************************************)
EXTENDS AsyncWriter
=============================================================================
