-------------------------------- MODULE MCKV --------------------------------
(* Two keys in two shards, two values, two goroutines and the janitor.       *)
EXTENDS KV, TLC

CONSTANTS a, b

MCHash == (a :> 4) @@ (b :> 7)
=============================================================================
