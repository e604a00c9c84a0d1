------------------------------ MODULE EventBus ------------------------------
(***************************************************************************)
(* internal/eventbus's Async bus: Subscribe, the function it returns,      *)
(* Publish, Close, and one goroutine per subscriber.                       *)
(*                                                                         *)
(* closed is read without mu; Subscribe and Publish are cut between that   *)
(* read and the section under mu, which is one step.  The sends of Publish *)
(* and everything a subscriber's goroutine does happen without mu.         *)
(***************************************************************************)
EXTENDS Naturals, Sequences, FiniteSets, SequencesExt

CONSTANTS
    Subs,        \* the calls of Subscribe, one subscriber each
    Publishers,  \* goroutines that call Publish, one call after the other
    Closers,     \* goroutines that call Close
    BufferSize,  \* AsyncConfig.BufferSize, after its default
    MaxEvents,   \* bound: calls of Publish by each publisher
    Loads        \* bound: who calls, and each publisher how often

Load == [subs : SUBSET Subs, leavers : SUBSET Subs, closers : SUBSET Closers,
         events : [Publishers -> 0..MaxEvents]]
ASSUME LoadsAssumption == Loads \subseteq Load
ASSUME BufferAssumption == BufferSize \in Nat /\ BufferSize >= 1
ASSUME CallsAssumption == MaxEvents \in Nat /\ IsFiniteSet(Subs) /\ IsFiniteSet(Publishers)

VARIABLES
    load,         \* the calls that may be made
    dropWhenFull, \* AsyncConfig.DropWhenFull
    closed,       \* Async.closed
    subs,         \* the subscribers in the map Async.subs
    spc,          \* where each Subscribe is; "off": its Unsubscribe was called
    ch,           \* each subscriber's channel
    stop,         \* the subscribers whose stop channel is closed
    wpc,          \* where each subscriber's goroutine is
    running,      \* the count of closedWg
    ppc,          \* where each publisher is
    n,            \* the number of the publisher's last event
    todo,         \* the subscribers its Publish still has to serve, in order
    dropped,      \* Async.dropped
    cpc,          \* where each Close is
    panicked,     \* closedWg has panicked: the program is gone
    handled,      \* the events each handler was called with, in order
    accepted,     \* pairs of subscriber and event: queued before its stop
    before,       \* pairs of events: the first's Publish had returned when the
                  \* second's was called
    due,          \* the subscribers there when the running Publish was called
    gone,         \* the ones stopped when it was called
    missed,       \* how many due subscribers the Publishes that returned left out
    served        \* the subscribers there when the bus was closed

config == <<load, dropWhenFull>>
busVars == <<closed, subs, stop>>
workVars == <<wpc, handled>>
pubVars == <<ppc, n, todo, before, due, gone, missed>>
closeVars == <<cpc, panicked, served>>
vars == <<config, busVars, spc, ch, workVars, running, pubVars, dropped,
          accepted, closeVars>>

Events == Publishers \X (1..MaxEvents)

(* Every variable keeps its type; no channel holds more than its buffer.   *)
TypeOK ==
    /\ load \in Load
    /\ dropWhenFull \in BOOLEAN /\ closed \in BOOLEAN /\ panicked \in BOOLEAN
    /\ subs \in SUBSET Subs /\ stop \in SUBSET Subs /\ served \in SUBSET Subs
    /\ spc \in [Subs -> {"new", "checked", "listed", "subscribed", "off", "refused"}]
    /\ \A s \in Subs : /\ ch[s] \in Seq(Events) /\ Len(ch[s]) <= BufferSize
                       /\ handled[s] \in Seq(Events)
    /\ wpc \in [Subs -> {"none", "select", "handle", "drain", "drainHandle", "exited"}]
    /\ running \in Nat /\ dropped \in Nat /\ missed \in Nat
    /\ ppc \in [Publishers -> {"idle", "checked", "sending"}]
    /\ n \in [Publishers -> 0..MaxEvents]
    /\ \A p \in Publishers : todo[p] \in Seq(Subs)
    /\ cpc \in [Closers -> {"idle", "swapped", "wait", "parked", "woken",
                            "closed", "returned"}]
    /\ accepted \in SUBSET (Subs \X Events) /\ before \in SUBSET (Events \X Events)
    /\ due \in [Publishers -> SUBSET Subs] /\ gone \in [Publishers -> SUBSET Subs]

Init ==
    /\ load \in Loads /\ dropWhenFull \in BOOLEAN
    /\ closed = FALSE /\ subs = {} /\ stop = {}
    /\ spc = [s \in Subs |-> "new"]
    /\ ch = [s \in Subs |-> <<>>]
    /\ wpc = [s \in Subs |-> "none"] /\ handled = [s \in Subs |-> <<>>]
    /\ running = 0 /\ dropped = 0
    /\ ppc = [p \in Publishers |-> "idle"]
    /\ n = [p \in Publishers |-> 0] /\ todo = [p \in Publishers |-> <<>>]
    /\ cpc = [c \in Closers |-> "idle"] /\ panicked = FALSE
    /\ due = [p \in Publishers |-> {}] /\ gone = [p \in Publishers |-> {}]
    /\ missed = 0 /\ before = {} /\ accepted = {} /\ served = {}

-----------------------------------------------------------------------------
(* Subscribe *)

SubscribeCheck(s) ==
    /\ spc[s] = "new" /\ s \in load.subs
    /\ spc' = [spc EXCEPT ![s] = IF closed THEN "refused" ELSE "checked"]
    /\ UNCHANGED <<config, busVars, ch, workVars, running, pubVars, dropped,
                   accepted, closeVars>>

(* under mu; closed is not looked at again *)
SubscribeList(s) ==
    /\ spc[s] = "checked"
    /\ spc' = [spc EXCEPT ![s] = "listed"]
    /\ subs' = subs \cup {s}
    /\ UNCHANGED <<config, closed, stop, ch, workVars, running, pubVars,
                   dropped, accepted, closeVars>>

(* closedWg.Add and go *)
SubscribeGo(s) ==
    /\ spc[s] = "listed"
    /\ spc' = [spc EXCEPT ![s] = "subscribed"]
    /\ running' = running + 1
    /\ wpc' = [wpc EXCEPT ![s] = "select"]
    /\ UNCHANGED <<config, busVars, ch, handled, pubVars, dropped, accepted,
                   closeVars>>

(* The returned function, under mu: nothing is left to do after a Close.   *)
Unsubscribe(s) ==
    /\ spc[s] = "subscribed" /\ s \in load.leavers
    /\ spc' = [spc EXCEPT ![s] = "off"]
    /\ stop' = stop \cup ({s} \cap subs)
    /\ subs' = subs \ {s}
    /\ UNCHANGED <<config, closed, ch, workVars, running, pubVars, dropped,
                   accepted, closeVars>>

-----------------------------------------------------------------------------
(* Publish *)

(* The Publish of event e has returned.                                    *)
Published(e) == n[e[1]] > e[2] \/ (n[e[1]] = e[2] /\ ppc[e[1]] = "idle")

PublishCheck(p) ==
    /\ ppc[p] = "idle" /\ n[p] < load.events[p]
    /\ n' = [n EXCEPT ![p] = @ + 1]
    /\ IF closed
         THEN UNCHANGED <<ppc, due, gone>>
         ELSE /\ ppc' = [ppc EXCEPT ![p] = "checked"]
              /\ due' = [due EXCEPT ![p] = {s \in Subs \ stop : spc[s] = "subscribed"}]
              /\ gone' = [gone EXCEPT ![p] = stop]
    /\ before' = before \cup {<<e, <<p, n'[p]>>>> : e \in {f \in Events : Published(f)}}
    /\ UNCHANGED <<config, busVars, spc, ch, workVars, running, todo, missed,
                   dropped, accepted, closeVars>>

(* Publish goes on with the subscribers q, or returns.                     *)
GoOn(p, q) ==
    /\ todo' = [todo EXCEPT ![p] = q]
    /\ IF q # <<>>
         THEN ppc' = [ppc EXCEPT ![p] = "sending"] /\ UNCHANGED <<due, gone, missed>>
         ELSE /\ ppc' = [ppc EXCEPT ![p] = "idle"]
              /\ missed' = missed + Cardinality({s \in due[p] \ stop :
                                                   <<s, <<p, n[p]>>>> \notin accepted'})
              /\ due' = [due EXCEPT ![p] = {}] /\ gone' = [gone EXCEPT ![p] = {}]
    /\ UNCHANGED <<n, before>>

(* under mu; the order is that of a Go map, any order *)
PublishCollect(p) ==
    /\ ppc[p] = "checked"
    /\ UNCHANGED <<config, busVars, spc, ch, workVars, running, dropped,
                   accepted, closeVars>>
    /\ \E q \in SetToSeqs(subs) : GoOn(p, q)

(* The event goes into the channel of s.                                   *)
Enqueue(p, s) ==
    /\ ch' = [ch EXCEPT ![s] = Append(@, <<p, n[p]>>)]
    /\ accepted' = IF s \in stop THEN accepted
                   ELSE accepted \cup {<<s, <<p, n[p]>>>>}
    /\ UNCHANGED <<config, busVars, spc, workVars, running, dropped, closeVars>>

(* mutant: the send is done once more *)
PublishSendTwice(p) ==
    /\ ppc[p] = "sending" /\ Len(ch[Head(todo[p])]) < BufferSize
    /\ Enqueue(p, Head(todo[p]))
    /\ GoOn(p, Tail(todo[p])) \/ UNCHANGED pubVars

(* Also with stop closed: a select takes any case that is ready.           *)
PublishSend(p) ==
    /\ ppc[p] = "sending" /\ Len(ch[Head(todo[p])]) < BufferSize
    /\ Enqueue(p, Head(todo[p]))
    /\ GoOn(p, Tail(todo[p]))

(* mutant: the drop is not counted *)
PublishDropSilently(p) ==
    /\ ppc[p] = "sending" /\ dropWhenFull /\ Len(ch[Head(todo[p])]) = BufferSize
    /\ UNCHANGED <<config, busVars, spc, ch, workVars, running, dropped,
                   accepted, closeVars>>
    /\ GoOn(p, Tail(todo[p]))

PublishDrop(p) ==
    /\ ppc[p] = "sending" /\ dropWhenFull /\ Len(ch[Head(todo[p])]) = BufferSize
    /\ dropped' = dropped + 1
    /\ UNCHANGED <<config, busVars, spc, ch, workVars, running, accepted,
                   closeVars>>
    /\ GoOn(p, Tail(todo[p]))

(* mutant: Publish does not listen to stop *)
PublishSkipNever(p) == FALSE /\ UNCHANGED vars

PublishSkip(p) ==
    /\ ppc[p] = "sending" /\ ~dropWhenFull /\ Head(todo[p]) \in stop
    /\ UNCHANGED <<config, busVars, spc, ch, workVars, running, dropped,
                   accepted, closeVars>>
    /\ GoOn(p, Tail(todo[p]))

PublishStep(p) == PublishCollect(p) \/ PublishSend(p) \/ PublishDrop(p) \/ PublishSkip(p)

-----------------------------------------------------------------------------
(* runSub, the goroutine of subscriber s *)

(* The receive of the outer loop or of the drain, and the handler's call   *)
Take(s) ==
    /\ wpc[s] \in {"select", "drain"} /\ ch[s] # <<>>
    /\ wpc' = [wpc EXCEPT ![s] = IF @ = "select" THEN "handle" ELSE "drainHandle"]
    /\ handled' = [handled EXCEPT ![s] = Append(@, Head(ch[s]))]
    /\ ch' = [ch EXCEPT ![s] = Tail(@)]
    /\ UNCHANGED <<config, busVars, spc, running, pubVars, dropped, accepted,
                   closeVars>>

HandlerReturns(s) ==
    /\ wpc[s] \in {"handle", "drainHandle"}
    /\ wpc' = [wpc EXCEPT ![s] = IF @ = "handle" THEN "select" ELSE "drain"]
    /\ UNCHANGED <<config, busVars, spc, ch, handled, running, pubVars, dropped,
                   accepted, closeVars>>

StopSeen(s) ==
    /\ wpc[s] = "select" /\ s \in stop
    /\ wpc' = [wpc EXCEPT ![s] = "drain"]
    /\ UNCHANGED <<config, busVars, spc, ch, handled, running, pubVars, dropped,
                   accepted, closeVars>>

(* closedWg.Done: the one that reaches zero releases the parked Close.     *)
GoroutineEnds(s) ==
    /\ wpc' = [wpc EXCEPT ![s] = "exited"]
    /\ running' = running - 1
    /\ cpc' = [c \in Closers |-> IF running = 1 /\ cpc[c] = "parked" THEN "woken"
                                 ELSE cpc[c]]
    /\ UNCHANGED <<config, busVars, spc, ch, handled, pubVars, dropped, accepted,
                   panicked, served>>

(* mutant: the queue is not drained *)
ExitUndrained(s) == wpc[s] = "drain" /\ GoroutineEnds(s)

Exit(s) == wpc[s] = "drain" /\ ch[s] = <<>> /\ GoroutineEnds(s)

SubscriberStep(s) == Take(s) \/ StopSeen(s) \/ Exit(s)

-----------------------------------------------------------------------------
(* Close *)

(* The first Close goes on, any other returns at once.                     *)
CloseSwap(c) ==
    /\ cpc[c] = "idle" /\ c \in load.closers
    /\ closed' = TRUE
    /\ cpc' = [cpc EXCEPT ![c] = IF closed THEN "returned" ELSE "swapped"]
    /\ served' = IF closed THEN served
                 ELSE {s \in Subs : spc[s] \in {"subscribed", "off"}}
    /\ UNCHANGED <<config, subs, stop, spc, ch, workVars, running, pubVars,
                   dropped, accepted, panicked>>

(* under mu *)
CloseSweep(c) ==
    /\ cpc[c] = "swapped"
    /\ cpc' = [cpc EXCEPT ![c] = "wait"]
    /\ stop' = stop \cup subs /\ subs' = {}
    /\ UNCHANGED <<config, closed, spc, ch, workVars, running, pubVars, dropped,
                   accepted, panicked, served>>

(* closedWg.Wait *)
CloseWait(c) ==
    /\ cpc[c] = "wait"
    /\ cpc' = [cpc EXCEPT ![c] = IF running = 0 THEN "closed" ELSE "parked"]
    /\ UNCHANGED <<config, busVars, spc, ch, workVars, running, pubVars, dropped,
                   accepted, panicked, served>>

(* A WaitGroup that is above zero again when its waiter runs panics.       *)
CloseWakes(c) ==
    /\ cpc[c] = "woken"
    /\ IF running = 0
         THEN cpc' = [cpc EXCEPT ![c] = "closed"] /\ UNCHANGED panicked
         ELSE panicked' = TRUE /\ UNCHANGED cpc
    /\ UNCHANGED <<config, busVars, spc, ch, workVars, running, pubVars, dropped,
                   accepted, served>>

CloseStep(c) == CloseSweep(c) \/ CloseWait(c) \/ CloseWakes(c)

-----------------------------------------------------------------------------

Next ==
    /\ ~panicked
    /\ \/ \E s \in Subs : SubscribeCheck(s) \/ SubscribeList(s) \/ SubscribeGo(s)
                          \/ Unsubscribe(s) \/ SubscriberStep(s) \/ HandlerReturns(s)
       \/ \E p \in Publishers : PublishCheck(p) \/ PublishStep(p)
       \/ \E c \in Closers : CloseSwap(c) \/ CloseStep(c)

(* Goroutines that can run do run; nobody has to call.  Handlers return in *)
(* the blocking mode only: with DropWhenFull one may hang.                 *)
Progress(s) ==
    \/ SubscribeList(s) \/ SubscribeGo(s) \/ SubscriberStep(s)
    \/ ~dropWhenFull /\ HandlerReturns(s)

Spec ==
    /\ Init /\ [][Next]_vars
    /\ \A s \in Subs : WF_vars(~panicked /\ Progress(s))
    /\ \A p \in Publishers : WF_vars(~panicked /\ PublishStep(p))
    /\ \A c \in Closers : WF_vars(~panicked /\ CloseStep(c))

-----------------------------------------------------------------------------
(* Properties *)

(* No event reaches a handler twice, and when one Publish had returned     *)
(* before another was called, by whichever goroutine, every handler gets   *)
(* the events in that order, with drops, skips and drains between.         *)
InOrder ==
    \A s \in Subs :
       LET q == handled[s] \o ch[s]
       IN  \A i, k \in DOMAIN q : i < k => q[i] # q[k] /\ <<q[k], q[i]>> \notin before

(* A Publish that has returned has queued its event with every subscriber  *)
(* that was there when it was called, except the ones stopped since and    *)
(* those counted in dropped; without DropWhenFull nothing is dropped.      *)
MissesCounted == missed <= dropped /\ (~dropWhenFull => missed = 0)

(* A Publish called after Unsubscribe, or after Close stopped the          *)
(* subscriber, never sends to it.                                          *)
NoneAfterOff == \A p \in Publishers : Range(todo[p]) \cap gone[p] = {}

(* When Close has returned, every subscriber that was there when it was    *)
(* called has handled all that was queued before its stop, and is gone,    *)
(* whatever Publish, Unsubscribe and Subscribe did meanwhile.              *)
CloseDrains ==
    (\E c \in Closers : cpc[c] = "closed") =>
      \A s \in served :
         /\ wpc[s] = "exited"
         /\ \A e \in Events : <<s, e>> \in accepted => e \in Range(handled[s])

(* Publish returns: a full queue holds it up only while its subscriber's   *)
(* handler will return, and never once that one is stopped; with           *)
(* DropWhenFull not even handlers that hang do.                            *)
PublishReturns ==
    \A p \in Publishers : (ppc[p] # "idle") ~> (ppc[p] = "idle" \/ panicked)

(* Close returns once the handlers do, as soon as no subscriber is left    *)
(* that Subscribe, past its check of closed, put or can still put into the *)
(* emptied map.                                                            *)
InClose(c) == cpc[c] \notin {"idle", "closed", "returned"}
NoStray == subs = {} /\ \A s \in Subs : spc[s] # "checked"
Closing == \E c \in Closers : InClose(c)
CloseEnds == (Closing /\ NoStray /\ ~dropWhenFull) ~> (~Closing \/ panicked)

(* What Publish sends a subscriber: no more than its queue holds (types),  *)
(* each event once and in order, and nothing once it is unsubscribed.      *)
Delivery == TypeOK /\ InOrder /\ NoneAfterOff

(* The two calls that can block, Publish and Close, return.                *)
CallsReturn == PublishReturns /\ CloseEnds

=============================================================================
