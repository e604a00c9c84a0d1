--------------------------- MODULE MCVersionedDir ---------------------------
(* Two processes; a version without the second token, and three that differ  *)
(* in one token or the other; a file in the entries and one in an extra      *)
(* directory.                                                                *)
EXTENDS VersionedDir

CONSTANTS e, x

MCTokenOrder == <<"version", "grammar">>
MCVersions == {[version |-> 1],
               [version |-> 1, grammar |-> 1],
               [version |-> 1, grammar |-> 2],
               [version |-> 2, grammar |-> 1]}
MCNukeOrder == <<{e}, {x}>>
=============================================================================
