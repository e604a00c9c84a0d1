----------------------------- MODULE MCEventBus -----------------------------
(***************************************************************************)
(* A small instance of EventBus with a buffer of one, in both modes and    *)
(* under two loads: two subscribers and one publisher of two events; one   *)
(* subscriber that may leave, two publishers and a second Close.           *)
(***************************************************************************)
EXTENDS EventBus

CONSTANTS s1, s2, p1, p2, c1, c2

MCLoads ==
    {[subs |-> {s1, s2}, leavers |-> {}, closers |-> {c1},
      events |-> [p \in Publishers |-> IF p = p1 THEN 2 ELSE 0]],
     [subs |-> {s1}, leavers |-> {s1}, closers |-> {c1, c2},
      events |-> [p \in Publishers |-> 1]]}

=============================================================================
