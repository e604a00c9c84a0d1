------------------------------ MODULE Limiter -------------------------------
(* What internal/limiter's Limiter interface promises its clients: at most   *)
(* Capacity permits are out, each request is granted as a whole or not at    *)
(* all, and only a request whose context is cancelled is turned away.  Each  *)
(* operation says how the client's call changes; who is cancelled is the     *)
(* client's affair.                                                          *)
EXTENDS Naturals, FiniteSets

CONSTANTS Clients, Capacity

VARIABLES call,       \* client -> its request: out, asks for n or holds n permits
          cancelled   \* the clients whose context is cancelled

limiterVars == <<call, cancelled>>

Out == [st |-> "out", n |-> 0]

\* One element for every permit that is out.
PermitsOut == {g \in Clients \X (1..Capacity) :
                 call[g[1]].st = "holds" /\ g[2] <= call[g[1]].n}
Fits(n) == Cardinality(PermitsOut) + n <= Capacity

Become(c, st, n) == call' = [call EXCEPT ![c] = [st |-> st, n |-> n]]

\* AcquireN of a context that is not cancelled yet.
Ask(c, n) == /\ call[c] = Out /\ n \in 1..Capacity /\ c \notin cancelled
             /\ Become(c, "asks", n)

Grant(c) == /\ call[c].st = "asks" /\ Fits(call[c].n)
            /\ Become(c, "holds", call[c].n)

Refuse(c) == /\ call[c].st = "asks" /\ c \in cancelled
             /\ Become(c, "out", 0)

\* TryAcquireN, when it succeeds.
Take(c, n) == /\ call[c] = Out /\ n \in 1..Capacity /\ Fits(n)
              /\ Become(c, "holds", n)

GiveBack(c) == /\ call[c].st = "holds"
               /\ Become(c, "out", 0)

Init == call = [c \in Clients |-> Out] /\ cancelled = {}

Cancel(c) == /\ cancelled' = cancelled \union {c}
             /\ UNCHANGED call

Use(c) == /\ \/ \E n \in 1..Capacity : Ask(c, n) \/ Take(c, n)
             \/ Grant(c) \/ Refuse(c) \/ GiveBack(c)
          /\ UNCHANGED cancelled

Next == \E c \in Clients : Use(c) \/ Cancel(c)

Spec == Init /\ [][Next]_limiterVars
=============================================================================
