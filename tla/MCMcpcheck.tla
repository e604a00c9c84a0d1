----------------------------- MODULE MCMcpcheck -----------------------------
(***************************************************************************)
(* A small instance of Mcpcheck.  The lists hold a clean tool, a second    *)
(* tool of the same name, an unnamed tool, a destructive tool without and  *)
(* with confirmation, and one whose required names are not all declared.   *)
(***************************************************************************)
EXTENDS Mcpcheck

Plain == [length |-> "full", secret |-> FALSE]
Schema(props, required) ==
    [props |-> props, required |-> required, examples |-> <<>>,
     compiles |-> TRUE]

Clean == [name |-> 1, desc |-> Plain, schema |-> NoSchema]
Twin == [name |-> 1, desc |-> [length |-> "short", secret |-> FALSE],
         schema |-> Schema([url |-> "free", path |-> "constrained"], {"url"})]
Unnamed == [name |-> 0, desc |-> [length |-> "empty", secret |-> FALSE],
            schema |-> [props |-> [path |-> "free"], required |-> {},
                        compiles |-> TRUE,
                        examples |-> <<[valid |-> FALSE, pii |-> TRUE],
                                       [valid |-> FALSE, pii |-> FALSE]>>]]
Deletes == [name |-> 2, desc |-> Plain, schema |-> NoSchema]
Confirms == [name |-> 2, desc |-> [length |-> "full", secret |-> TRUE],
             schema |-> Schema([confirm |-> "other"], {"confirm"})]
Undeclared == [name |-> 3, desc |-> Plain,
               schema |-> Schema([url |-> "constrained"], {"url", "gone"})]

MCToolLists == {<<Clean>>, <<Twin, Unnamed, Clean>>, <<Unnamed, Unnamed>>,
                <<Deletes>>, <<Undeclared, Confirms>>}
MCStaticLists == {<<>>, <<Clean, Confirms>>, <<Confirms, Clean, Twin>>,
                  <<Unnamed, Undeclared>>}

(* Every form of the command line; the formats are told apart without a    *)
(* live intake, whose steps do not depend on them.                         *)
MCCommandLines ==
    {o \in Options : o.live = "command" =>
                        o.format = "text" /\ ~o.listRules /\ o.nargs < 2}

MCSnakeCaseNames == {1, 2}
MCDestructiveNames == {2}
MCConfirmKeys == {"confirm"}
MCURLKeys == {"url"}
MCPathKeys == {"path"}

=============================================================================
