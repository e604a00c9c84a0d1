--------------------------- MODULE EventBusProofs ---------------------------
(***************************************************************************)
(* The Async bus of internal/eventbus for any buffer size, any load and    *)
(* any finite number of subscribers and publishers: what a Publish sends,  *)
(* what it leaves out, and what a Close leaves behind.                     *)
(***************************************************************************)
EXTENDS EventBus, FiniteSetTheorems, SequenceTheorems, TLAPS

-----------------------------------------------------------------------------
(* The inductive invariant *)

(* TypeOK without the flags, with the domains of ch, handled and todo.     *)
Types ==
    /\ load \in Load
    /\ subs \in SUBSET Subs /\ stop \in SUBSET Subs /\ served \in SUBSET Subs
    /\ spc \in [Subs -> {"new", "checked", "listed", "subscribed", "off", "refused"}]
    /\ ch \in [Subs -> Seq(Events)] /\ handled \in [Subs -> Seq(Events)]
    /\ wpc \in [Subs -> {"none", "select", "handle", "drain", "drainHandle", "exited"}]
    /\ running \in Nat /\ dropped \in Nat /\ missed \in Nat
    /\ ppc \in [Publishers -> {"idle", "checked", "sending"}]
    /\ n \in [Publishers -> 0..MaxEvents]
    /\ todo \in [Publishers -> Seq(Subs)]
    /\ cpc \in [Closers -> {"idle", "swapped", "wait", "parked", "woken",
                            "closed", "returned"}]
    /\ accepted \in SUBSET (Subs \X Events) /\ before \in SUBSET (Events \X Events)
    /\ due \in [Publishers -> SUBSET Subs] /\ gone \in [Publishers -> SUBSET Subs]

Flags == dropWhenFull \in BOOLEAN /\ closed \in BOOLEAN /\ panicked \in BOOLEAN

(* No send overfills a channel.                                            *)
Buffered == \A s \in Subs : Len(ch[s]) <= BufferSize

(* A subscriber is in the map or stopped from its listing on, never both;  *)
(* its goroutine leaves the outer loop only after the stop.                *)
There(s) == spc[s] \in {"subscribed", "off"}
Life ==
    \A s \in Subs :
       /\ There(s) \/ spc[s] = "listed" <=> s \in subs \/ s \in stop
       /\ s \in stop => s \notin subs
       /\ wpc[s] = "none" <=> ~There(s)
       /\ wpc[s] \in {"drain", "drainHandle", "exited"} => s \in stop

(* closedWg counts the goroutines that have not ended.                     *)
Active == {s \in Subs : wpc[s] \notin {"none", "exited"}}
Counted == running = Cardinality(Active)

(* What a subscriber was sent, in order: it is handled or still queued.    *)
Log(s) == handled[s] \o ch[s]

(* A Publish in progress: whom it has still to serve has not its event     *)
(* yet, and was not stopped when it was called.                            *)
Unsent(p, s) == <<p, n[p]>> \notin Range(Log(s))
Sending ==
    \A p \in Publishers :
       /\ ppc[p] = "sending" <=> todo[p] # <<>>
       /\ ppc[p] # "idle" => n[p] >= 1
       /\ IsInjective(todo[p])
       /\ ppc[p] = "checked" => \A s \in Subs : Unsent(p, s)
       /\ \A s \in Range(todo[p]) : Unsent(p, s) /\ s \notin gone[p]
       /\ gone[p] \subseteq stop
       /\ \A s \in due[p] : There(s)

(* Only events of calls of Publish are sent, and an event comes before     *)
(* another only if its Publish has returned.                               *)
Issued == \A s \in Subs : \A e \in Range(Log(s)) : e[2] <= n[e[1]]
Past == \A x \in before : Published(x[1])

(* What was queued before the stop is handled or in the queue of a         *)
(* goroutine that has not ended.                                           *)
Kept ==
    \A s \in Subs : \A e \in Events :
       <<s, e>> \in accepted =>
          e \in Range(handled[s]) \/ (e \in Range(ch[s]) /\ wpc[s] # "exited")

(* When Close returns, the goroutines it was called with have ended.       *)
Closes ==
    /\ \A s \in served : There(s)
    /\ \A c \in Closers : cpc[c] # "idle" => closed
    /\ \A c \in Closers : cpc[c] = "closed" => \A s \in served : wpc[s] = "exited"

(* A due subscriber that a Publish in progress has passed without queueing *)
(* its event is counted in dropped already.                                *)
Lost ==
    {x \in Publishers \X Subs :
       /\ ppc[x[1]] = "sending"
       /\ x[2] \in due[x[1]] \ stop
       /\ x[2] \notin Range(todo[x[1]])
       /\ <<x[2], <<x[1], n[x[1]]>>>> \notin accepted}
Accounted ==
    /\ missed + Cardinality(Lost) <= dropped
    /\ ~dropWhenFull => missed + Cardinality(Lost) = 0

IInv ==
    /\ Types /\ Flags /\ Buffered /\ Life /\ Counted
    /\ Sending /\ Issued /\ Past /\ InOrder
    /\ Kept /\ Closes /\ Accounted

-----------------------------------------------------------------------------
(* Sequences *)

(* What an append does to a queue.                                         *)
LEMMA AppendFacts ==
  ASSUME NEW S, NEW q \in Seq(S), NEW e \in S
  PROVE  /\ Append(q, e) \in Seq(S) /\ Len(Append(q, e)) = Len(q) + 1
         /\ Range(Append(q, e)) = Range(q) \cup {e}
  <1>. DEFINE r == Append(q, e)
  <1>1. r \in Seq(S) /\ Len(r) = Len(q) + 1 /\ Len(q) \in Nat
    OBVIOUS
  <1>2. DOMAIN r = 1..(Len(q) + 1) /\ DOMAIN q = 1..Len(q)
        /\ r[Len(q) + 1] = e /\ \A i \in 1..Len(q) : r[i] = q[i]
    OBVIOUS
  <1>. HIDE DEF r
  <1>3. Range(r) \subseteq Range(q) \cup {e}
    <2>. SUFFICES ASSUME NEW i \in 1..(Len(q) + 1) PROVE r[i] \in Range(q) \cup {e}
      BY <1>2 DEF Range
    <2>1. i \in 1..Len(q) \/ i = Len(q) + 1
      BY <1>1
    <2>. QED BY <2>1, <1>2 DEF Range
  <1>4. Range(q) \cup {e} \subseteq Range(r)
    <2>1. Len(q) + 1 \in 1..(Len(q) + 1) /\ \A i \in 1..Len(q) : i \in 1..(Len(q) + 1)
      BY <1>1
    <2>. QED BY <2>1, <1>2 DEF Range
  <1>5. Range(r) = Range(q) \cup {e}
    BY <1>3, <1>4
  <1>. QED BY <1>1, <1>5 DEF r

(* What a receive does to one.                                             *)
LEMMA TailFacts ==
  ASSUME NEW S, NEW q \in Seq(S), q # <<>>
  PROVE  /\ Head(q) \in S /\ Tail(q) \in Seq(S) /\ Len(Tail(q)) = Len(q) - 1
         /\ Range(q) = Range(Tail(q)) \cup {Head(q)}
  <1>1. Len(q) \in Nat \ {0} /\ DOMAIN q = 1..Len(q)
    OBVIOUS
  <1>2. DOMAIN Tail(q) = 1..(Len(q) - 1) /\ \A i \in 1..(Len(q) - 1) : Tail(q)[i] = q[i + 1]
    BY <1>1
  <1>3. Head(q) = q[1]
    OBVIOUS
  <1>4. ASSUME NEW x \in Range(q) PROVE x \in Range(Tail(q)) \cup {Head(q)}
    <2>1. PICK i \in 1..Len(q) : x = q[i]
      BY <1>1 DEF Range
    <2>2. CASE i = 1
      BY <2>1, <2>2, <1>3
    <2>3. CASE i # 1
      <3>1. i - 1 \in 1..(Len(q) - 1) /\ Tail(q)[i - 1] = q[i]
        BY <2>1, <2>3, <1>1, <1>2
      <3>. QED BY <3>1, <1>2, <2>1 DEF Range
    <2>. QED BY <2>2, <2>3
  <1>5. Range(Tail(q)) \cup {Head(q)} \subseteq Range(q)
    BY <1>1, <1>2, <1>3 DEF Range
  <1>6. Range(q) = Range(Tail(q)) \cup {Head(q)}
    BY <1>4, <1>5
  <1>. QED BY <1>1, <1>6

(* The head of a queue without repetitions is not in its tail.             *)
LEMMA TailInjective ==
  ASSUME NEW S, NEW q \in Seq(S), q # <<>>, IsInjective(q)
  PROVE  IsInjective(Tail(q)) /\ Head(q) \notin Range(Tail(q))
  <1>1. Len(q) \in Nat \ {0} /\ DOMAIN q = 1..Len(q)
    OBVIOUS
  <1>2. DOMAIN Tail(q) = 1..(Len(q) - 1) /\ \A i \in 1..(Len(q) - 1) : Tail(q)[i] = q[i + 1]
    BY <1>1
  <1>3. Head(q) = q[1]
    OBVIOUS
  <1>4. ASSUME NEW i \in 1..(Len(q) - 1) PROVE q[i + 1] # q[1]
    BY <1>1 DEF IsInjective
  <1>5. ASSUME NEW i \in 1..(Len(q) - 1), NEW j \in 1..(Len(q) - 1), q[i + 1] = q[j + 1]
        PROVE  i = j
    BY <1>1, <1>5 DEF IsInjective
  <1>. QED BY <1>2, <1>3, <1>4, <1>5 DEF IsInjective, Range

(* A handler's call moves an event from the queue to the handled ones: the *)
(* log stays.                                                              *)
LEMMA TakeLog ==
  ASSUME NEW S, NEW h \in Seq(S), NEW c \in Seq(S), c # <<>>
  PROVE  Append(h, Head(c)) \o Tail(c) = h \o c
  <1>. DEFINE l == Append(h, Head(c)) \o Tail(c)
              r == h \o c
  <1>1. Len(c) \in Nat \ {0} /\ Len(h) \in Nat /\ Head(c) = c[1] /\ Head(c) \in S
    OBVIOUS
  <1>2. Append(h, Head(c)) \in Seq(S) /\ Tail(c) \in Seq(S) /\ Len(Tail(c)) = Len(c) - 1
        /\ Len(Append(h, Head(c))) = Len(h) + 1
    BY <1>1
  <1>3. l \in Seq(S) /\ r \in Seq(S) /\ Len(l) = Len(r) /\ Len(r) = Len(h) + Len(c)
    BY <1>1, <1>2
  <1>4. ASSUME NEW i \in 1..Len(r) PROVE l[i] = r[i]
    <2>1. CASE i <= Len(h)
      BY <2>1, <1>1, <1>2, <1>3
    <2>2. CASE i = Len(h) + 1
      BY <2>2, <1>1, <1>2, <1>3
    <2>3. CASE i > Len(h) + 1
      <3>1. l[i] = Tail(c)[i - (Len(h) + 1)]
        BY <2>3, <1>1, <1>2, <1>3
      <3>2. r[i] = c[i - Len(h)]
        BY <2>3, <1>1, <1>3
      <3>3. i - (Len(h) + 1) \in 1..(Len(c) - 1)
        BY <2>3, <1>1, <1>3
      <3>4. \A j \in 1..(Len(c) - 1) : Tail(c)[j] = c[j + 1]
        BY <1>1
      <3>. QED BY <3>1, <3>2, <3>3, <3>4, <1>1
    <2>. QED BY <2>1, <2>2, <2>3, <1>1, <1>3
  <1>. HIDE DEF l, r
  <1>5. l = r
    BY <1>3, <1>4, SeqEqual
  <1>. QED BY <1>5 DEF l, r

(* A send is an append to the log.                                         *)
LEMMA SendLog ==
  ASSUME NEW S, NEW h \in Seq(S), NEW c \in Seq(S), NEW e \in S
  PROVE  h \o Append(c, e) = Append(h \o c, e)
  <1>. DEFINE l == h \o Append(c, e)
              r == Append(h \o c, e)
  <1>1. l \in Seq(S) /\ r \in Seq(S) /\ Len(l) = Len(r) /\ Len(r) = Len(h) + Len(c) + 1
    OBVIOUS
  <1>2. ASSUME NEW i \in 1..Len(r) PROVE l[i] = r[i]
    BY <1>1
  <1>. HIDE DEF l, r
  <1>3. l = r
    BY <1>1, <1>2, SeqEqual
  <1>. QED BY <1>3 DEF l, r

(* A Go map is walked in any order: each subscriber once, none left out.   *)
LEMMA MapOrder ==
  ASSUME NEW S, IsFiniteSet(S), NEW q \in SetToSeqs(S)
  PROVE  q \in Seq(S) /\ IsInjective(q) /\ Range(q) = S
  <1>. DEFINE D == 1..Cardinality(S)
  <1>1. Cardinality(S) \in Nat
    BY FS_CardinalityType
  <1>2. q \in [D -> S] /\ \A i, j \in D : i # j => q[i] # q[j]
    BY DEF SetToSeqs
  <1>3. q \in Seq(S) /\ IsInjective(q)
    BY <1>1, <1>2 DEF IsInjective
  <1>4. Range(q) \subseteq S
    BY <1>2 DEF Range
  <1>5. q \in Injection(D, Range(q)) /\ q \in Surjection(D, Range(q))
    BY <1>2, <1>3 DEF Injection, Surjection, Range
  <1>6. IsFiniteSet(D) /\ Cardinality(D) = Cardinality(S)
    BY <1>1, FS_Interval
  <1>7. Cardinality(Range(q)) = Cardinality(D)
    BY <1>5, <1>6, FS_Bijection, <1>4, FS_Subset DEF Bijection, ExistsBijection
  <1>8. Range(q) = S
    BY <1>4, <1>6, <1>7, FS_Subset
  <1>. QED BY <1>3, <1>8

-----------------------------------------------------------------------------
(* Types *)

(* A finite number of subscribers.                                         *)
LEMMA FiniteSubsets ==
  ASSUME NEW T \in SUBSET Subs
  PROVE  IsFiniteSet(T) /\ Cardinality(T) \in Nat
  BY CallsAssumption, FS_Subset, FS_CardinalityType

(* The event of a Publish in progress, and the one it begins.              *)
LEMMA CurrentEvent ==
  ASSUME Types, Sending, NEW p \in Publishers, ppc[p] # "idle"
  PROVE  <<p, n[p]>> \in Events
  <1>1. n[p] \in 1..MaxEvents
    BY CallsAssumption DEF Types, Sending
  <1>. QED BY <1>1 DEF Events

(* Publish takes the head of its list.                                     *)
LEMMA HeadOfTodo ==
  ASSUME Types, Sending, NEW p \in Publishers, ppc[p] = "sending"
  PROVE  /\ todo[p] \in Seq(Subs) /\ todo[p] # <<>>
         /\ Head(todo[p]) \in Subs /\ Tail(todo[p]) \in Seq(Subs)
         /\ Range(todo[p]) = Range(Tail(todo[p])) \cup {Head(todo[p])}
         /\ IsInjective(Tail(todo[p]))
         /\ Head(todo[p]) \notin Range(Tail(todo[p]))
  <1>1. todo[p] \in Seq(Subs) /\ todo[p] # <<>> /\ IsInjective(todo[p])
    BY DEF Types, Sending
  <1>. QED BY <1>1, TailFacts, TailInjective

(* The missed count grows by a number.                                     *)
LEMMA GoOnTypes ==
  ASSUME Types, NEW p \in Publishers, NEW q \in Seq(Subs), GoOn(p, q)
  PROVE  /\ todo' = [todo EXCEPT ![p] = q] /\ todo' \in [Publishers -> Seq(Subs)]
         /\ ppc' = [ppc EXCEPT ![p] = IF q # <<>> THEN "sending" ELSE "idle"]
         /\ ppc' \in [Publishers -> {"idle", "checked", "sending"}]
         /\ missed' \in Nat /\ n' = n /\ before' = before
         /\ due' \in [Publishers -> SUBSET Subs] /\ gone' \in [Publishers -> SUBSET Subs]
  <1>. DEFINE M == {s \in due[p] \ stop : <<s, <<p, n[p]>>>> \notin accepted'}
  <1>1. M \in SUBSET Subs
    BY DEF Types
  <1>2. Cardinality(M) \in Nat
    BY <1>1, FiniteSubsets
  <1>. HIDE DEF M
  <1>3. missed' = missed \/ missed' = missed + Cardinality(M)
    BY DEF GoOn, M
  <1>4. missed' \in Nat
    BY <1>2, <1>3 DEF Types
  <1>5. todo' = [todo EXCEPT ![p] = q] /\ todo' \in [Publishers -> Seq(Subs)]
        /\ n' = n /\ before' = before
    BY DEF GoOn, Types
  <1>6. CASE q # <<>>
    <2>1. ppc' = [ppc EXCEPT ![p] = "sending"] /\ due' = due /\ gone' = gone
      BY <1>6 DEF GoOn
    <2>. QED BY <2>1, <1>4, <1>5, <1>6 DEF Types
  <1>7. CASE q = <<>>
    <2>1. ppc' = [ppc EXCEPT ![p] = "idle"] /\ due' = [due EXCEPT ![p] = {}]
          /\ gone' = [gone EXCEPT ![p] = {}]
      BY <1>7 DEF GoOn
    <2>. QED BY <2>1, <1>4, <1>5, <1>7 DEF Types
  <1>. QED BY <1>6, <1>7

(* Every step of Publish goes on with a list of subscribers.               *)
LEMMA PublishGoesOn ==
  ASSUME IInv, NEW p \in Publishers, PublishStep(p)
  PROVE  /\ ppc[p] # "idle"
         /\ UNCHANGED <<config, busVars, spc, workVars, running, closeVars>>
         /\ \E q \in Seq(Subs) :
              /\ GoOn(p, q) /\ IsInjective(q)
              /\ ppc[p] = "checked" => Range(q) = subs
              /\ ppc[p] = "sending" => q = Tail(todo[p])
  <1>. USE DEF IInv
  <1>1. CASE PublishCollect(p)
    <2>1. PICK q \in SetToSeqs(subs) : GoOn(p, q)
      BY <1>1 DEF PublishCollect
    <2>2. subs \in SUBSET Subs
      BY DEF Types
    <2>3. q \in Seq(subs) /\ IsInjective(q) /\ Range(q) = subs
      BY <2>2, FiniteSubsets, MapOrder
    <2>4. q \in Seq(Subs)
      BY <2>2, <2>3
    <2>5. ppc[p] = "checked" /\ UNCHANGED <<config, busVars, spc, workVars, running, closeVars>>
      BY <1>1 DEF PublishCollect
    <2>. QED BY <2>1, <2>3, <2>4, <2>5
  <1>2. CASE PublishSend(p) \/ PublishDrop(p) \/ PublishSkip(p)
    <2>1. /\ ppc[p] = "sending" /\ GoOn(p, Tail(todo[p]))
          /\ UNCHANGED <<config, busVars, spc, workVars, running, closeVars>>
      BY <1>2 DEF PublishSend, PublishDrop, PublishSkip, Enqueue
    <2>. QED BY <2>1, HeadOfTodo
  <1>. QED BY <1>1, <1>2 DEF PublishStep

(* A step is one of the bus's calls.                                       *)
LEMMA NextCases ==
  ASSUME Next
  PROVE  \/ \E s \in Subs :
              \/ SubscribeCheck(s) \/ SubscribeList(s) \/ SubscribeGo(s) \/ Unsubscribe(s)
              \/ Take(s) \/ StopSeen(s) \/ Exit(s) \/ HandlerReturns(s)
         \/ \E p \in Publishers : PublishCheck(p) \/ PublishStep(p)
         \/ \E c \in Closers : CloseSwap(c) \/ CloseSweep(c) \/ CloseWait(c) \/ CloseWakes(c)
  BY DEF Next, SubscriberStep, CloseStep

(* A goroutine that ends was counted.                                      *)
LEMMA ExitCounts ==
  ASSUME IInv, NEW s \in Subs, Exit(s)
  PROVE  /\ s \in Active /\ running >= 1 /\ running' = running - 1
         /\ wpc' = [wpc EXCEPT ![s] = "exited"]
         /\ Cardinality(Active \ {s}) = running - 1
  <1>. USE DEF IInv
  <1>1. s \in Active /\ running' = running - 1 /\ wpc' = [wpc EXCEPT ![s] = "exited"]
    BY DEF Exit, GoroutineEnds, Active
  <1>2. Active \in SUBSET Subs
    BY DEF Active
  <1>3. IsFiniteSet(Active) /\ Cardinality(Active) \in Nat
    BY <1>2, FiniteSubsets
  <1>4. Cardinality(Active \ {s}) = running - 1
    BY <1>1, <1>3, FS_RemoveElement DEF Counted
  <1>5. Cardinality(Active) # 0
    BY <1>1, <1>3, FS_EmptySet
  <1>. QED BY <1>1, <1>3, <1>4, <1>5 DEF Counted

LEMMA TypesStep == IInv /\ Next => Types'
  <1>. SUFFICES ASSUME IInv, Next PROVE Types'
    OBVIOUS
  <1>. USE DEF IInv, config, busVars, workVars, pubVars, closeVars
  <1>1. ASSUME NEW s \in Subs,
               SubscribeCheck(s) \/ SubscribeList(s) \/ SubscribeGo(s) \/ Unsubscribe(s)
        PROVE  Types'
    <2>1. CASE SubscribeCheck(s)
      BY <2>1 DEF SubscribeCheck, Types
    <2>2. CASE SubscribeList(s)
      BY <2>2 DEF SubscribeList, Types
    <2>3. CASE SubscribeGo(s)
      BY <2>3 DEF SubscribeGo, Types
    <2>4. CASE Unsubscribe(s)
      BY <2>4 DEF Unsubscribe, Types
    <2>. QED BY <1>1, <2>1, <2>2, <2>3, <2>4
  <1>2. ASSUME NEW s \in Subs, Take(s) \/ StopSeen(s) \/ Exit(s) \/ HandlerReturns(s)
        PROVE  Types'
    <2>1. CASE Take(s)
      <3>1. ch[s] \in Seq(Events) /\ ch[s] # <<>> /\ handled[s] \in Seq(Events)
        BY <2>1 DEF Take, Types
      <3>2. Append(handled[s], Head(ch[s])) \in Seq(Events) /\ Tail(ch[s]) \in Seq(Events)
        BY <3>1, TailFacts, AppendFacts
      <3>3. ch' = [ch EXCEPT ![s] = Tail(ch[s])]
            /\ handled' = [handled EXCEPT ![s] = Append(handled[s], Head(ch[s]))]
        BY <2>1 DEF Take, Types
      <3>4. ch' \in [Subs -> Seq(Events)] /\ handled' \in [Subs -> Seq(Events)]
        BY <3>2, <3>3 DEF Types
      <3>. QED BY <2>1, <3>4 DEF Take, Types
    <2>2. CASE StopSeen(s)
      BY <2>2 DEF StopSeen, Types
    <2>3. CASE Exit(s)
      <3>1. running' \in Nat
        <4>1. running >= 1 /\ running' = running - 1
          BY <2>3, ExitCounts
        <4>2. running \in Nat
          BY DEF Types
        <4>. QED BY <4>1, <4>2
      <3>. QED BY <2>3, <3>1 DEF Exit, GoroutineEnds, Types
    <2>4. CASE HandlerReturns(s)
      BY <2>4 DEF HandlerReturns, Types
    <2>. QED BY <1>2, <2>1, <2>2, <2>3, <2>4
  <1>3. ASSUME NEW p \in Publishers, PublishCheck(p) PROVE Types'
    <2>1. n[p] + 1 \in 0..MaxEvents
      <3>1. load.events[p] \in 0..MaxEvents /\ n[p] \in 0..MaxEvents /\ n[p] < load.events[p]
        BY <1>3 DEF PublishCheck, Types, Load
      <3>. QED BY <3>1, CallsAssumption
    <2>2. n' = [n EXCEPT ![p] = n[p] + 1]
      BY <1>3 DEF PublishCheck, Types
    <2>3. n' \in [Publishers -> 0..MaxEvents] /\ n'[p] = n[p] + 1
      BY <2>1, <2>2 DEF Types
    <2>4. <<p, n'[p]>> \in Events
      BY <2>1, <2>3, CallsAssumption DEF Events, Types
    <2>5. before' \in SUBSET (Events \X Events)
      <3>. DEFINE e == <<p, n'[p]>>
                  P == {f \in Events : Published(f)}
      <3>1. before' = before \cup {<<f, e>> : f \in P}
        BY <1>3 DEF PublishCheck
      <3>2. P \in SUBSET Events /\ e \in Events
        BY <2>4
      <3>. HIDE DEF e, P
      <3>. QED BY <3>1, <3>2 DEF Types
    <2>6. ppc' \in [Publishers -> {"idle", "checked", "sending"}]
          /\ due' \in [Publishers -> SUBSET Subs] /\ gone' \in [Publishers -> SUBSET Subs]
      <3>. DEFINE D == {s \in Subs \ stop : spc[s] = "subscribed"}
      <3>1. CASE closed
        BY <1>3, <3>1 DEF PublishCheck, Types
      <3>2. CASE ~closed
        <4>1. /\ ppc' = [ppc EXCEPT ![p] = "checked"]
              /\ due' = [due EXCEPT ![p] = D] /\ gone' = [gone EXCEPT ![p] = stop]
          BY <1>3, <3>2 DEF PublishCheck
        <4>2. D \in SUBSET Subs
          OBVIOUS
        <4>. HIDE DEF D
        <4>. QED BY <4>1, <4>2 DEF Types
      <3>. QED BY <3>1, <3>2
    <2>. QED BY <1>3, <2>3, <2>5, <2>6 DEF PublishCheck, Types
  <1>4. ASSUME NEW p \in Publishers, PublishStep(p) PROVE Types'
    <2>1. ppc[p] # "idle" /\ UNCHANGED <<config, busVars, spc, workVars, running, closeVars>>
      BY <1>4, PublishGoesOn
    <2>2. PICK q \in Seq(Subs) : GoOn(p, q)
      BY <1>4, PublishGoesOn
    <2>3. /\ todo' \in [Publishers -> Seq(Subs)]
          /\ ppc' \in [Publishers -> {"idle", "checked", "sending"}]
          /\ missed' \in Nat /\ n' = n /\ before' = before
          /\ due' \in [Publishers -> SUBSET Subs] /\ gone' \in [Publishers -> SUBSET Subs]
      BY <2>2, GoOnTypes
    <2>4. dropped' \in Nat
      BY <1>4 DEF PublishStep, PublishCollect, PublishSend, PublishDrop, PublishSkip, Enqueue, Types
    <2>5. ch' \in [Subs -> Seq(Events)] /\ accepted' \in SUBSET (Subs \X Events)
      <3>1. CASE PublishSend(p)
        <4>. DEFINE s == Head(todo[p])
                    e == <<p, n[p]>>
        <4>1. s \in Subs /\ e \in Events
          BY <3>1, CurrentEvent, HeadOfTodo DEF PublishSend
        <4>2. ch' = [ch EXCEPT ![s] = Append(ch[s], e)]
              /\ (accepted' = accepted \/ accepted' = accepted \cup {<<s, e>>})
          BY <3>1 DEF PublishSend, Enqueue, Types
        <4>. HIDE DEF s, e
        <4>3. Append(ch[s], e) \in Seq(Events)
          BY <4>1, AppendFacts DEF Types
        <4>. QED BY <4>1, <4>2, <4>3 DEF Types
      <3>2. CASE PublishCollect(p) \/ PublishDrop(p) \/ PublishSkip(p)
        BY <3>2 DEF PublishCollect, PublishDrop, PublishSkip, Types
      <3>. QED BY <1>4, <3>1, <3>2 DEF PublishStep
    <2>. QED BY <2>1, <2>3, <2>4, <2>5 DEF Types
  <1>5. ASSUME NEW c \in Closers, CloseSwap(c) \/ CloseSweep(c) \/ CloseWait(c) \/ CloseWakes(c)
        PROVE  Types'
    BY <1>5 DEF CloseSwap, CloseSweep, CloseWait, CloseWakes, Types
  <1>. QED BY <1>1, <1>2, <1>3, <1>4, <1>5, NextCases

LEMMA FlagsStep == IInv /\ Next => Flags'
  <1>. SUFFICES ASSUME IInv, Next PROVE Flags'
    OBVIOUS
  <1>. USE DEF IInv, config, busVars, workVars, pubVars, closeVars
  <1>1. ASSUME NEW s \in Subs,
               \/ SubscribeCheck(s) \/ SubscribeList(s) \/ SubscribeGo(s) \/ Unsubscribe(s)
               \/ Take(s) \/ StopSeen(s) \/ Exit(s) \/ HandlerReturns(s)
        PROVE  Flags'
    <2>1. UNCHANGED <<dropWhenFull, closed, panicked>>
      BY <1>1 DEF SubscribeCheck, SubscribeList, SubscribeGo, Unsubscribe, Take, StopSeen, Exit,
                  GoroutineEnds, HandlerReturns
    <2>. QED BY <2>1 DEF Flags
  <1>2. ASSUME NEW p \in Publishers, PublishCheck(p) \/ PublishStep(p) PROVE Flags'
    <2>1. UNCHANGED <<dropWhenFull, closed, panicked>>
      <3>1. CASE PublishCheck(p)
        BY <3>1 DEF PublishCheck
      <3>2. CASE PublishStep(p)
        BY <3>2, PublishGoesOn
      <3>. QED BY <1>2, <3>1, <3>2
    <2>. QED BY <2>1 DEF Flags
  <1>3. ASSUME NEW c \in Closers, CloseSwap(c) \/ CloseSweep(c) \/ CloseWait(c) \/ CloseWakes(c)
        PROVE  Flags'
    <2>1. /\ dropWhenFull' = dropWhenFull /\ (closed' = closed \/ closed' = TRUE)
          /\ (panicked' = panicked \/ panicked' = TRUE)
      BY <1>3 DEF CloseSwap, CloseSweep, CloseWait, CloseWakes
    <2>. QED BY <2>1 DEF Flags
  <1>. QED BY <1>1, <1>2, <1>3, NextCases

LEMMA BufferedStep == IInv /\ Next => Buffered'
  <1>. SUFFICES ASSUME IInv, Next PROVE Buffered'
    OBVIOUS
  <1>. USE DEF IInv, config, busVars, workVars, pubVars, closeVars
  <1>1. ASSUME NEW s \in Subs, Take(s) PROVE Buffered'
    <2>1. ch[s] \in Seq(Events) /\ ch[s] # <<>> /\ ch' = [ch EXCEPT ![s] = Tail(ch[s])]
      BY <1>1 DEF Take, Types
    <2>2. Len(Tail(ch[s])) <= BufferSize
      BY <2>1, TailFacts, BufferAssumption DEF Buffered
    <2>. QED BY <2>1, <2>2 DEF Buffered, Types
  <1>2. ASSUME NEW p \in Publishers, PublishSend(p) PROVE Buffered'
    <2>. DEFINE s == Head(todo[p])
                e == <<p, n[p]>>
    <2>1. s \in Subs /\ e \in Events
      BY <1>2, CurrentEvent, HeadOfTodo DEF PublishSend
    <2>2. ch' = [ch EXCEPT ![s] = Append(ch[s], e)] /\ Len(ch[s]) < BufferSize
      BY <1>2 DEF PublishSend, Enqueue, Types
    <2>. HIDE DEF s, e
    <2>3. ch[s] \in Seq(Events)
      BY <2>1 DEF Types
    <2>4. Len(Append(ch[s], e)) <= BufferSize
      BY <2>1, <2>2, <2>3, AppendFacts, BufferAssumption
    <2>. QED BY <2>1, <2>2, <2>4 DEF Buffered, Types
  <1>3. CASE UNCHANGED ch
    BY <1>3 DEF Buffered
  <1>4. (\E s \in Subs : Take(s)) \/ (\E p \in Publishers : PublishSend(p)) \/ UNCHANGED ch
    BY NextCases DEF SubscribeCheck, SubscribeList, SubscribeGo, Unsubscribe, StopSeen, Exit,
         GoroutineEnds, HandlerReturns, PublishCheck, PublishStep, PublishCollect, PublishDrop,
         PublishSkip, CloseSwap, CloseSweep, CloseWait, CloseWakes
  <1>. QED BY <1>1, <1>2, <1>3, <1>4

LEMMA LifeStep == IInv /\ Next => Life'
  <1>. SUFFICES ASSUME IInv, Next PROVE Life'
    OBVIOUS
  <1>. USE DEF IInv, config, busVars, workVars, pubVars, closeVars
  <1>1. ASSUME NEW s \in Subs, SubscribeCheck(s) PROVE Life'
    BY <1>1 DEF SubscribeCheck, Types, Life, There
  <1>2. ASSUME NEW s \in Subs, SubscribeList(s) PROVE Life'
    BY <1>2 DEF SubscribeList, Types, Life, There
  <1>3. ASSUME NEW s \in Subs, SubscribeGo(s) PROVE Life'
    BY <1>3 DEF SubscribeGo, Types, Life, There
  <1>4. ASSUME NEW s \in Subs, Unsubscribe(s) PROVE Life'
    BY <1>4 DEF Unsubscribe, Types, Life, There
  <1>5. ASSUME NEW s \in Subs, Take(s) PROVE Life'
    BY <1>5 DEF Take, Types, Life, There
  <1>6. ASSUME NEW s \in Subs, StopSeen(s) PROVE Life'
    BY <1>6 DEF StopSeen, Types, Life, There
  <1>7. ASSUME NEW s \in Subs, Exit(s) PROVE Life'
    BY <1>7 DEF Exit, GoroutineEnds, Types, Life, There
  <1>8. ASSUME NEW s \in Subs, HandlerReturns(s) PROVE Life'
    BY <1>8 DEF HandlerReturns, Types, Life, There
  <1>9. ASSUME NEW p \in Publishers, PublishCheck(p) \/ PublishStep(p) PROVE Life'
    <2>1. UNCHANGED <<spc, subs, stop, wpc>>
      <3>1. CASE PublishCheck(p)
        BY <3>1 DEF PublishCheck
      <3>2. CASE PublishStep(p)
        BY <3>2, PublishGoesOn
      <3>. QED BY <1>9, <3>1, <3>2
    <2>. QED BY <2>1 DEF Life, There
  <1>10. ASSUME NEW c \in Closers, CloseSweep(c) PROVE Life'
    BY <1>10 DEF CloseSweep, Types, Life, There
  <1>11. ASSUME NEW c \in Closers, CloseSwap(c) \/ CloseWait(c) \/ CloseWakes(c) PROVE Life'
    <2>1. UNCHANGED <<spc, subs, stop, wpc>>
      BY <1>11 DEF CloseSwap, CloseWait, CloseWakes
    <2>. QED BY <2>1 DEF Life, There
  <1>. QED BY <1>1, <1>2, <1>3, <1>4, <1>5, <1>6, <1>7, <1>8, <1>9, <1>10, <1>11, NextCases

LEMMA CountedStep == IInv /\ Next => Counted'
  <1>. SUFFICES ASSUME IInv, Next PROVE Counted'
    OBVIOUS
  <1>. USE DEF IInv, config, busVars, workVars, pubVars, closeVars
  <1>0. IsFiniteSet(Active) /\ Cardinality(Active) \in Nat
    <2>1. Active \in SUBSET Subs
      BY DEF Active
    <2>. QED BY <2>1, FiniteSubsets
  <1>1. ASSUME NEW s \in Subs, SubscribeGo(s) PROVE Counted'
    <2>1. running' = running + 1 /\ wpc[s] = "none" /\ wpc' = [wpc EXCEPT ![s] = "select"]
      BY <1>1 DEF SubscribeGo, Life, There
    <2>2. Active' = Active \cup {s} /\ s \notin Active
      BY <2>1 DEF Active, Types
    <2>3. Cardinality(Active') = Cardinality(Active) + 1
      BY <1>0, <2>2, FS_AddElement
    <2>. QED BY <2>1, <2>3 DEF Counted
  <1>2. ASSUME NEW s \in Subs, Exit(s) PROVE Counted'
    <2>1. wpc' = [wpc EXCEPT ![s] = "exited"] /\ running' = running - 1
          /\ Cardinality(Active \ {s}) = running - 1
      BY <1>2, ExitCounts
    <2>2. Active' = Active \ {s}
      BY <2>1 DEF Active, Types
    <2>. QED BY <2>1, <2>2 DEF Counted
  <1>3. ASSUME NEW s \in Subs, Take(s) \/ StopSeen(s) \/ HandlerReturns(s) PROVE Counted'
    <2>1. running' = running /\ Active' = Active
      BY <1>3 DEF Take, StopSeen, HandlerReturns, Active, Types
    <2>. QED BY <2>1 DEF Counted
  <1>4. CASE UNCHANGED <<wpc, running>>
    BY <1>4 DEF Counted, Active
  <1>5. \/ \E s \in Subs : SubscribeGo(s) \/ Exit(s) \/ Take(s) \/ StopSeen(s) \/ HandlerReturns(s)
        \/ UNCHANGED <<wpc, running>>
    BY NextCases, PublishGoesOn
       DEF SubscribeCheck, SubscribeList, Unsubscribe, PublishCheck,
           CloseSwap, CloseSweep, CloseWait, CloseWakes
  <1>. QED BY <1>1, <1>2, <1>3, <1>4, <1>5

(* When the count is zero, a goroutine that was started has ended.         *)
LEMMA AllEnded ==
  ASSUME IInv, running = 0, NEW s \in Subs, There(s)
  PROVE  wpc[s] = "exited"
  <1>1. Active \in SUBSET Subs
    BY DEF Active
  <1>2. IsFiniteSet(Active)
    BY <1>1, FiniteSubsets
  <1>3. Active = {}
    BY <1>2, FS_EmptySet DEF IInv, Counted
  <1>. QED BY <1>3 DEF IInv, Active, Life

LEMMA ClosesStep == IInv /\ Next => Closes'
  <1>. SUFFICES ASSUME IInv, Next PROVE Closes'
    OBVIOUS
  <1>. USE DEF IInv, config, busVars, workVars, pubVars, closeVars
  <1>1. ASSUME NEW s \in Subs,
               SubscribeCheck(s) \/ SubscribeList(s) \/ SubscribeGo(s) \/ Unsubscribe(s)
        PROVE  Closes'
    <2>1. UNCHANGED <<closed, served, cpc>>
      BY <1>1 DEF SubscribeCheck, SubscribeList, SubscribeGo, Unsubscribe
    <2>2. \A t \in Subs : There(t) => There(t)' /\ wpc'[t] = wpc[t]
      BY <1>1 DEF SubscribeCheck, SubscribeList, SubscribeGo, Unsubscribe, There, Types
    <2>. QED BY <2>1, <2>2 DEF Closes, Types
  <1>2. ASSUME NEW s \in Subs, Take(s) \/ StopSeen(s) \/ HandlerReturns(s) PROVE Closes'
    <2>1. UNCHANGED <<closed, served, cpc, spc>>
      BY <1>2 DEF Take, StopSeen, HandlerReturns
    <2>2. \A t \in Subs : wpc[t] = "exited" => wpc'[t] = "exited"
      BY <1>2 DEF Take, StopSeen, HandlerReturns, Types
    <2>. QED BY <2>1, <2>2 DEF Closes, There, Types
  <1>3. ASSUME NEW s \in Subs, Exit(s) PROVE Closes'
    <2>1. UNCHANGED <<closed, served, spc>>
      BY <1>3 DEF Exit, GoroutineEnds
    <2>2. \A t \in Subs : wpc[t] = "exited" => wpc'[t] = "exited"
      BY <1>3 DEF Exit, GoroutineEnds, Types
    <2>3. \A c \in Closers : cpc'[c] = cpc[c] \/ (cpc[c] = "parked" /\ cpc'[c] = "woken")
      BY <1>3 DEF Exit, GoroutineEnds
    <2>. QED BY <2>1, <2>2, <2>3 DEF Closes, There, Types
  <1>4. ASSUME NEW p \in Publishers, PublishCheck(p) \/ PublishStep(p) PROVE Closes'
    <2>1. UNCHANGED <<closed, served, cpc, spc, wpc>>
      <3>1. CASE PublishCheck(p)
        BY <3>1 DEF PublishCheck
      <3>2. CASE PublishStep(p)
        BY <3>2, PublishGoesOn
      <3>. QED BY <1>4, <3>1, <3>2
    <2>. QED BY <2>1 DEF Closes, There
  <1>5. ASSUME NEW c \in Closers, CloseSwap(c) PROVE Closes'
    <2>1. closed' = TRUE /\ UNCHANGED <<spc, wpc>>
      BY <1>5 DEF CloseSwap
    <2>2. CASE closed
      <3>1. served' = served /\ cpc' = [cpc EXCEPT ![c] = "returned"]
        BY <1>5, <2>2 DEF CloseSwap
      <3>. QED BY <2>1, <3>1 DEF Closes, There, Types
    <2>3. CASE ~closed
      <3>1. served' = {s \in Subs : There(s)} /\ cpc' = [cpc EXCEPT ![c] = "swapped"]
        BY <1>5, <2>3 DEF CloseSwap, There
      <3>2. \A d \in Closers : cpc[d] = "idle"
        BY <2>3 DEF Closes
      <3>. QED BY <2>1, <3>1, <3>2 DEF Closes, There, Types
    <2>. QED BY <2>2, <2>3
  <1>6. ASSUME NEW c \in Closers, CloseSweep(c) \/ CloseWait(c) \/ CloseWakes(c) PROVE Closes'
    <2>1. UNCHANGED <<closed, served, spc, wpc>> /\ cpc[c] # "idle"
      BY <1>6 DEF CloseSweep, CloseWait, CloseWakes
    <2>2. \A d \in Closers : d # c => cpc'[d] = cpc[d]
      BY <1>6 DEF CloseSweep, CloseWait, CloseWakes, Types
    <2>3. cpc'[c] = "closed" => running = 0
      BY <1>6 DEF CloseSweep, CloseWait, CloseWakes, Types
    <2>4. cpc'[c] = "closed" => \A s \in served : wpc[s] = "exited"
      BY <2>3, AllEnded DEF Closes, Types
    <2>. QED BY <2>1, <2>2, <2>4 DEF Closes, There
  <1>. QED BY <1>1, <1>2, <1>3, <1>4, <1>5, <1>6, NextCases

-----------------------------------------------------------------------------
(* What the subscribers are sent *)

(* Only a send changes a log, and it appends the publisher's event.        *)
LEMMA LogOfSend ==
  ASSUME IInv, NEW p \in Publishers, PublishSend(p),
         NEW t, t = Head(todo[p]), NEW e, e = <<p, n[p]>>
  PROVE  /\ t \in Subs /\ e \in Events /\ ppc[p] = "sending"
         /\ Log(t) \in Seq(Events) /\ Log(t)' = Append(Log(t), e)
         /\ Range(Log(t)') = Range(Log(t)) \cup {e}
         /\ \A s \in Subs \ {t} : Log(s)' = Log(s)
  <1>. USE DEF IInv
  <1>1. t \in Subs /\ e \in Events /\ ppc[p] = "sending"
    BY CurrentEvent, HeadOfTodo DEF PublishSend
  <1>2. ch' = [ch EXCEPT ![t] = Append(ch[t], e)] /\ handled' = handled
    BY DEF PublishSend, Enqueue, Types, workVars
  <1>3. ch[t] \in Seq(Events) /\ handled[t] \in Seq(Events)
    BY <1>1 DEF Types
  <1>4. Log(t) \in Seq(Events)
    BY <1>3 DEF Log
  <1>5. Log(t)' = Append(Log(t), e)
    <2>1. Log(t)' = handled[t] \o Append(ch[t], e)
      BY <1>1, <1>2 DEF Log, Types
    <2>2. \A h, c \in Seq(Events), f \in Events : h \o Append(c, f) = Append(h \o c, f)
      <3>. TAKE h, c \in Seq(Events), f \in Events
      <3>. QED BY SendLog
    <2>3. handled[t] \o Append(ch[t], e) = Append(handled[t] \o ch[t], e)
      BY <1>1, <1>3, <2>2
    <2>. QED BY <2>1, <2>3 DEF Log
  <1>6. ASSUME NEW s \in Subs \ {t} PROVE Log(s)' = Log(s)
    BY <1>2 DEF Log, Types
  <1>7. Range(Append(Log(t), e)) = Range(Log(t)) \cup {e}
    BY <1>1, <1>4, AppendFacts
  <1>. QED BY <1>1, <1>4, <1>5, <1>6, <1>7

(* A send adds no other event to anyone, and moves its Publish on.         *)
LEMMA SendAdds ==
  ASSUME IInv, NEW p \in Publishers, PublishSend(p), NEW s \in Subs
  PROVE  Range(Log(s)') \subseteq Range(Log(s)) \cup {<<p, n[p]>>} /\ todo'[p] # todo[p]
  <1>1. PICK t, e : t = Head(todo[p]) /\ e = <<p, n[p]>>
    OBVIOUS
  <1>2. s # t => Log(s)' = Log(s)
    BY <1>1, LogOfSend
  <1>3. Range(Log(t)') = Range(Log(t)) \cup {e}
    BY <1>1, LogOfSend
  <1>4. todo[p] \in Seq(Subs) /\ todo[p] # <<>>
    BY HeadOfTodo DEF IInv, PublishSend
  <1>5. Len(Tail(todo[p])) # Len(todo[p])
    BY <1>4
  <1>6. todo'[p] = Tail(todo[p])
    BY DEF PublishSend, GoOn, IInv, Types
  <1>. QED BY <1>1, <1>2, <1>3, <1>5, <1>6

LEMMA LogOfOthers ==
  ASSUME IInv, Next, ~\E p \in Publishers : PublishSend(p)
  PROVE  \A s \in Subs : Log(s)' = Log(s)
  <1>. USE DEF IInv, config, busVars, workVars, pubVars, closeVars
  <1>1. ASSUME NEW t \in Subs, Take(t), NEW s \in Subs PROVE Log(s)' = Log(s)
    <2>1. /\ ch' = [ch EXCEPT ![t] = Tail(ch[t])]
          /\ handled' = [handled EXCEPT ![t] = Append(handled[t], Head(ch[t]))]
          /\ ch[t] # <<>> /\ ch[t] \in Seq(Events) /\ handled[t] \in Seq(Events)
      BY <1>1 DEF Take, Types
    <2>2. CASE s = t
      <3>1. Log(s)' = Append(handled[t], Head(ch[t])) \o Tail(ch[t])
        BY <2>1, <2>2 DEF Log, Types
      <3>. QED BY <2>1, <2>2, <3>1, TakeLog DEF Log
    <2>3. CASE s # t
      BY <2>1, <2>3 DEF Log, Types
    <2>. QED BY <2>2, <2>3
  <1>2. CASE UNCHANGED <<ch, handled>>
    BY <1>2 DEF Log
  <1>3. (\E s \in Subs : Take(s)) \/ UNCHANGED <<ch, handled>>
    BY NextCases DEF SubscribeCheck, SubscribeList, SubscribeGo, Unsubscribe, StopSeen, Exit,
         GoroutineEnds, HandlerReturns, PublishCheck, PublishStep, PublishCollect, PublishDrop,
         PublishSkip, CloseSwap, CloseSweep, CloseWait, CloseWakes
  <1>. QED BY <1>1, <1>2, <1>3

(* A Publish that has returned has returned for ever.                      *)
LEMMA PublishedStays ==
  ASSUME IInv, Next, NEW e \in Events, Published(e)
  PROVE  Published(e)'
  <1>. USE DEF IInv, config, busVars, workVars, pubVars, closeVars
  <1>1. e[1] \in Publishers /\ e[2] \in 1..MaxEvents
    BY DEF Events
  <1>2. ASSUME NEW p \in Publishers, PublishCheck(p) PROVE Published(e)'
    <2>1. n' = [n EXCEPT ![p] = n[p] + 1] /\ \A q \in Publishers : q # p => ppc'[q] = ppc[q]
      BY <1>2 DEF PublishCheck, Types
    <2>2. n[e[1]] \in 0..MaxEvents
      BY <1>1 DEF Types
    <2>3. CASE e[1] = p
      <3>1. n'[e[1]] = n[e[1]] + 1
        BY <1>1, <2>1, <2>3 DEF Types
      <3>. QED BY <1>1, <2>2, <3>1, CallsAssumption DEF Published
    <2>4. CASE e[1] # p
      BY <1>1, <2>1, <2>4 DEF Published, Types
    <2>. QED BY <2>3, <2>4
  <1>3. ASSUME NEW p \in Publishers, PublishStep(p) PROVE Published(e)'
    <2>1. PICK q \in Seq(Subs) : GoOn(p, q)
      BY <1>3, PublishGoesOn
    <2>2. n' = n /\ ppc[p] # "idle" /\ \A r \in Publishers : r # p => ppc'[r] = ppc[r]
      BY <1>3, <2>1, GoOnTypes, PublishGoesOn DEF Types
    <2>. QED BY <1>1, <2>2 DEF Published
  <1>4. CASE UNCHANGED <<n, ppc>>
    BY <1>4 DEF Published
  <1>5. (\E p \in Publishers : PublishCheck(p) \/ PublishStep(p)) \/ UNCHANGED <<n, ppc>>
    BY NextCases DEF SubscribeCheck, SubscribeList, SubscribeGo, Unsubscribe, Take, StopSeen, Exit,
         GoroutineEnds, HandlerReturns, CloseSwap, CloseSweep, CloseWait, CloseWakes
  <1>. QED BY <1>2, <1>3, <1>4, <1>5

(* What a call of Publish begins with.                                     *)
LEMMA PublishBegins ==
  ASSUME IInv, NEW p \in Publishers, PublishCheck(p)
  PROVE  /\ ppc[p] = "idle" /\ n[p] \in Nat
         /\ n' = [n EXCEPT ![p] = n[p] + 1] /\ n'[p] = n[p] + 1
         /\ before' = before \cup {<<f, <<p, n[p] + 1>>>> : f \in {g \in Events : Published(g)}}
         /\ \/ UNCHANGED <<ppc, due, gone>>
            \/ /\ ppc' = [ppc EXCEPT ![p] = "checked"]
               /\ due' = [due EXCEPT ![p] = {s \in Subs \ stop : spc[s] = "subscribed"}]
               /\ gone' = [gone EXCEPT ![p] = stop]
         /\ UNCHANGED <<subs, stop, spc, ch, handled, todo, missed, dropped, dropWhenFull, accepted>>
  <1>. USE DEF IInv, config, busVars, workVars, pubVars, closeVars
  <1>1. n' = [n EXCEPT ![p] = n[p] + 1] /\ n'[p] = n[p] + 1
    BY DEF PublishCheck, Types
  <1>2. n[p] \in Nat
    BY CallsAssumption DEF Types
  <1>. QED BY <1>1, <1>2 DEF PublishCheck

LEMMA PastStep == IInv /\ Next => Past'
  <1>. SUFFICES ASSUME IInv, Next, NEW x \in before' PROVE Published(x[1])'
    BY DEF Past
  <1>. USE DEF IInv, config, busVars, workVars, pubVars, closeVars
  <1>1. CASE x \in before
    <2>1. x[1] \in Events /\ Published(x[1])
      BY <1>1 DEF Past, Types
    <2>. QED BY <2>1, PublishedStays
  <1>2. CASE x \notin before
    <2>1. \E p \in Publishers : PublishCheck(p)
      <3>1. ASSUME NEW p \in Publishers, PublishStep(p) PROVE before' = before
        BY <3>1, PublishGoesOn, GoOnTypes
      <3>. QED BY <1>2, <3>1, NextCases
             DEF SubscribeCheck, SubscribeList, SubscribeGo, Unsubscribe, Take, StopSeen, Exit,
                 GoroutineEnds, HandlerReturns, CloseSwap, CloseSweep, CloseWait, CloseWakes
    <2>2. PICK p \in Publishers : PublishCheck(p)
      BY <2>1
    <2>3. PICK f \in Events : Published(f) /\ x = <<f, <<p, n[p] + 1>>>>
      BY <1>2, <2>2, PublishBegins
    <2>. QED BY <2>3, PublishedStays
  <1>. QED BY <1>1, <1>2

LEMMA IssuedStep == IInv /\ Next => Issued'
  <1>. SUFFICES ASSUME IInv, Next, NEW s \in Subs, NEW e \in Range(Log(s)') PROVE e[2] <= n'[e[1]]
    BY DEF Issued
  <1>. USE DEF IInv, config, busVars, workVars, pubVars, closeVars
  <1>1. \A p \in Publishers : n'[p] \in Nat /\ n[p] \in Nat /\ n[p] <= n'[p]
    <2>1. \A p \in Publishers : n[p] \in Nat
      BY CallsAssumption DEF Types
    <2>2. ASSUME NEW p \in Publishers, PublishCheck(p) PROVE \A q \in Publishers : n'[q] = n[q] \/ n'[q] = n[q] + 1
      BY <2>2, PublishBegins DEF Types
    <2>3. ASSUME NEW p \in Publishers, PublishStep(p) PROVE n' = n
      BY <2>3, PublishGoesOn, GoOnTypes
    <2>4. (\E p \in Publishers : PublishCheck(p)) \/ n' = n
      BY <2>3, NextCases DEF SubscribeCheck, SubscribeList, SubscribeGo, Unsubscribe, Take, StopSeen,
           Exit, GoroutineEnds, HandlerReturns, CloseSwap, CloseSweep, CloseWait, CloseWakes
    <2>. QED BY <2>1, <2>2, <2>4
  <1>2. Log(s) \in Seq(Events)
    BY DEF Log, Types
  <1>3. \A f \in Range(Log(s)) : f[1] \in Publishers /\ f[2] \in Nat
    <2>1. Range(Log(s)) \subseteq Events
      BY <1>2 DEF Range
    <2>. QED BY <2>1 DEF Events
  <1>4. CASE e \in Range(Log(s))
    <2>1. e[2] <= n[e[1]]
      BY <1>4 DEF Issued
    <2>. QED BY <1>1, <1>3, <1>4, <2>1
  <1>5. CASE e \notin Range(Log(s))
    <2>1. PICK p \in Publishers : PublishSend(p)
      BY <1>5, LogOfOthers
    <2>2. e = <<p, n[p]>>
      BY <1>5, <2>1, SendAdds
    <2>. QED BY <1>1, <2>2
  <1>. QED BY <1>4, <1>5

LEMMA InOrderStep == IInv /\ Next => InOrder'
  <1>. USE DEF IInv
  <1>. DEFINE Ranked(q) == \A i, k \in DOMAIN q : i < k => q[i] # q[k] /\ <<q[k], q[i]>> \notin before
  <1>1. InOrder <=> \A s \in Subs : Ranked(Log(s))
    BY DEF InOrder, Log
  <1>2. InOrder' <=> \A s \in Subs : Ranked(Log(s))'
    BY DEF InOrder, Log
  <1>. SUFFICES ASSUME IInv, Next, NEW s \in Subs, NEW i \in DOMAIN Log(s)', NEW k \in DOMAIN Log(s)',
                       i < k
                PROVE  Log(s)'[i] # Log(s)'[k] /\ <<Log(s)'[k], Log(s)'[i]>> \notin before'
    BY <1>2
  <1>3. Log(s) \in Seq(Events)
    BY DEF Log, Types
  <1>4. \A j \in DOMAIN Log(s) : Log(s)[j] \in Events /\ Log(s)[j][1] \in Publishers
                                 /\ Log(s)[j][2] \in Nat /\ Log(s)[j][2] <= n[Log(s)[j][1]]
    <2>1. \A j \in DOMAIN Log(s) : Log(s)[j] \in Events /\ Log(s)[j] \in Range(Log(s))
      BY <1>3 DEF Range
    <2>2. \A e \in Events : e[1] \in Publishers /\ e[2] \in Nat
      BY DEF Events
    <2>. QED BY <2>1, <2>2 DEF Issued
  <1>5. ASSUME NEW p \in Publishers, PublishSend(p)
        PROVE  Log(s)'[i] # Log(s)'[k] /\ <<Log(s)'[k], Log(s)'[i]>> \notin before'
    <2>1. PICK t, e : t = Head(todo[p]) /\ e = <<p, n[p]>>
      OBVIOUS
    <2>2. before' = before
      <3>1. PublishStep(p)
        BY <1>5 DEF PublishStep
      <3>. QED BY <3>1, PublishGoesOn, GoOnTypes
    <2>3. CASE s # t
      <3>1. Log(s)' = Log(s)
        BY <1>5, <2>1, <2>3, LogOfSend
      <3>. QED BY <1>1, <2>2, <3>1
    <2>4. CASE s = t
      <3>1. Log(s)' = Append(Log(s), e) /\ ppc[p] = "sending" /\ e \in Events
        BY <1>5, <2>1, <2>4, LogOfSend
      <3>2. e \notin Range(Log(s))
        <4>1. t \in Range(todo[p])
          BY <3>1, <2>1, HeadOfTodo
        <4>. QED BY <4>1, <2>1, <2>4 DEF Sending, Unsent
      <3>3. ASSUME NEW f PROVE <<e, f>> \notin before
        <4>1. ~Published(e)
          <5>1. n[p] \in Nat
            BY CallsAssumption DEF Types
          <5>. QED BY <5>1, <3>1, <2>1 DEF Published
        <4>. QED BY <4>1 DEF Past
      <3>4. Len(Log(s)) \in Nat /\ DOMAIN Log(s) = 1..Len(Log(s))
            /\ DOMAIN Log(s)' = 1..(Len(Log(s)) + 1)
            /\ Log(s)'[Len(Log(s)) + 1] = e /\ \A j \in 1..Len(Log(s)) : Log(s)'[j] = Log(s)[j]
        BY <1>3, <3>1
      <3>5. i \in DOMAIN Log(s) /\ Log(s)'[i] = Log(s)[i]
        BY <3>4
      <3>6. CASE k = Len(Log(s)) + 1
        BY <3>2, <3>3, <3>4, <3>5, <3>6, <2>2 DEF Range
      <3>7. CASE k \in DOMAIN Log(s)
        BY <1>1, <3>4, <3>5, <3>7, <2>2
      <3>. QED BY <3>4, <3>6, <3>7
    <2>. QED BY <2>3, <2>4
  <1>6. ASSUME NEW p \in Publishers, PublishCheck(p)
        PROVE  Log(s)'[i] # Log(s)'[k] /\ <<Log(s)'[k], Log(s)'[i]>> \notin before'
    <2>1. Log(s)' = Log(s)
      BY <1>6, PublishBegins DEF Log
    <2>2. i \in DOMAIN Log(s) /\ k \in DOMAIN Log(s)
      BY <2>1
    <2>3. Log(s)[i] # Log(s)[k] /\ <<Log(s)[k], Log(s)[i]>> \notin before
      BY <1>1, <2>2
    <2>4. Log(s)[i] # <<p, n[p] + 1>>
      <3>1. n[p] \in Nat
        BY <1>6, PublishBegins
      <3>. QED BY <3>1, <2>2, <1>4
    <2>5. before' = before \cup {<<f, <<p, n[p] + 1>>>> : f \in {g \in Events : Published(g)}}
      BY <1>6, PublishBegins
    <2>. QED BY <2>1, <2>3, <2>4, <2>5
  <1>7. CASE before' = before /\ ~\E p \in Publishers : PublishSend(p)
    <2>1. Log(s)' = Log(s)
      BY <1>7, LogOfOthers
    <2>. QED BY <1>1, <1>7, <2>1
  <1>8. \/ \E p \in Publishers : PublishSend(p) \/ PublishCheck(p)
        \/ before' = before /\ ~\E p \in Publishers : PublishSend(p)
    <2>1. ASSUME NEW p \in Publishers, PublishStep(p) PROVE before' = before
      BY <2>1, PublishGoesOn, GoOnTypes
    <2>. QED BY <2>1, NextCases
           DEF SubscribeCheck, SubscribeList, SubscribeGo, Unsubscribe, Take, StopSeen, Exit,
               GoroutineEnds, HandlerReturns, CloseSwap, CloseSweep, CloseWait, CloseWakes, pubVars
  <1>. QED BY <1>5, <1>6, <1>7, <1>8

LEMMA KeptStep == IInv /\ Next => Kept'
  <1>. USE DEF IInv, config, busVars, workVars, pubVars, closeVars
  <1>. SUFFICES ASSUME IInv, Next, NEW s \in Subs, NEW e \in Events, <<s, e>> \in accepted'
                PROVE  e \in Range(handled'[s]) \/ (e \in Range(ch'[s]) /\ wpc'[s] # "exited")
    BY DEF Kept
  <1>. DEFINE Good == e \in Range(handled'[s]) \/ (e \in Range(ch'[s]) /\ wpc'[s] # "exited")
  <1>1. ASSUME NEW p \in Publishers, PublishSend(p) PROVE Good
    <2>1. PICK t, f : t = Head(todo[p]) /\ f = <<p, n[p]>>
      OBVIOUS
    <2>2. /\ ch' = [ch EXCEPT ![t] = Append(ch[t], f)] /\ UNCHANGED <<handled, wpc>>
          /\ accepted' = IF t \in stop THEN accepted ELSE accepted \cup {<<t, f>>}
      BY <1>1, <2>1 DEF PublishSend, Enqueue, Types
    <2>3. t \in Subs /\ f \in Events
      BY <1>1, <2>1, LogOfSend
    <2>4. Range(ch'[t]) = Range(ch[t]) \cup {f}
      BY <2>2, <2>3, AppendFacts DEF Types
    <2>5. Range(ch[s]) \subseteq Range(ch'[s])
      BY <2>2, <2>3, <2>4 DEF Types
    <2>6. CASE <<s, e>> \in accepted
      BY <2>2, <2>5, <2>6 DEF Kept
    <2>7. CASE <<s, e>> \notin accepted
      <3>1. s = t /\ e = f /\ t \notin stop
        BY <2>2, <2>7
      <3>2. wpc[s] # "exited"
        BY <3>1 DEF Life
      <3>. QED BY <2>2, <2>4, <3>1, <3>2
    <2>. QED BY <2>6, <2>7
  <1>2. ASSUME NEW t \in Subs, Take(t) PROVE Good
    <2>1. /\ ch' = [ch EXCEPT ![t] = Tail(ch[t])] /\ accepted' = accepted
          /\ handled' = [handled EXCEPT ![t] = Append(handled[t], Head(ch[t]))]
          /\ ch[t] # <<>> /\ ch[t] \in Seq(Events) /\ handled[t] \in Seq(Events)
          /\ wpc'[t] # "exited" /\ \A r \in Subs : r # t => wpc'[r] = wpc[r]
      BY <1>2 DEF Take, Types
    <2>2. CASE s = t
      <3>1. Range(ch[t]) = Range(Tail(ch[t])) \cup {Head(ch[t])} /\ Head(ch[t]) \in Events
        BY <2>1, TailFacts
      <3>2. Range(handled'[t]) = Range(handled[t]) \cup {Head(ch[t])}
        BY <2>1, <3>1, AppendFacts DEF Types
      <3>3. ch'[t] = Tail(ch[t])
        BY <2>1 DEF Types
      <3>. QED BY <2>1, <2>2, <3>1, <3>2, <3>3 DEF Kept
    <2>3. CASE s # t
      BY <2>1, <2>3 DEF Kept, Types
    <2>. QED BY <2>2, <2>3
  <1>3. ASSUME NEW t \in Subs, Exit(t) PROVE Good
    <2>1. /\ ch[t] = <<>> /\ UNCHANGED <<ch, handled, accepted>>
          /\ \A r \in Subs : r # t => wpc'[r] = wpc[r]
      BY <1>3 DEF Exit, GoroutineEnds, Types
    <2>2. Range(ch[t]) = {}
      BY <2>1 DEF Range
    <2>. QED BY <2>1, <2>2 DEF Kept
  <1>4. ASSUME NEW t \in Subs, SubscribeGo(t) \/ StopSeen(t) \/ HandlerReturns(t) PROVE Good
    <2>1. /\ UNCHANGED <<ch, handled, accepted>>
          /\ \A r \in Subs : wpc[r] # "exited" => wpc'[r] # "exited"
      BY <1>4 DEF SubscribeGo, StopSeen, HandlerReturns, Types
    <2>. QED BY <2>1 DEF Kept
  <1>5. CASE UNCHANGED <<ch, handled, accepted, wpc>>
    BY <1>5 DEF Kept
  <1>6. \/ \E p \in Publishers : PublishSend(p)
        \/ \E t \in Subs : Take(t) \/ Exit(t) \/ SubscribeGo(t) \/ StopSeen(t) \/ HandlerReturns(t)
        \/ UNCHANGED <<ch, handled, accepted, wpc>>
    BY NextCases DEF SubscribeCheck, SubscribeList, Unsubscribe, PublishCheck, PublishStep,
         PublishCollect, PublishDrop, PublishSkip, CloseSwap, CloseSweep, CloseWait, CloseWakes
  <1>. QED BY <1>1, <1>2, <1>3, <1>4, <1>5, <1>6

(* Sending for one publisher.                                              *)
SendingOf(p) ==
    /\ ppc[p] = "sending" <=> todo[p] # <<>>
    /\ ppc[p] # "idle" => n[p] >= 1
    /\ IsInjective(todo[p])
    /\ ppc[p] = "checked" => \A s \in Subs : Unsent(p, s)
    /\ \A s \in Range(todo[p]) : Unsent(p, s) /\ s \notin gone[p]
    /\ gone[p] \subseteq stop
    /\ \A s \in due[p] : There(s)

(* A step of someone else leaves a Publish as it was: nobody is taken out  *)
(* of stop, nobody else sends its event.                                   *)
LEMMA SendingKept ==
  ASSUME IInv, NEW p \in Publishers, SendingOf(p),
         ppc'[p] = ppc[p], n'[p] = n[p], todo'[p] = todo[p],
         gone'[p] = gone[p], due'[p] = due[p], stop \subseteq stop',
         \A s \in Subs : There(s) => There(s)',
         \A s \in Subs : Unsent(p, s) => Unsent(p, s)'
  PROVE  SendingOf(p)'
  <1>1. Range(todo[p]) \subseteq Subs /\ due[p] \subseteq Subs
    BY DEF IInv, Types, Range
  <1>2. \A s \in due'[p] : There(s)'
    BY <1>1 DEF SendingOf
  <1>3. \A s \in Range(todo'[p]) : Unsent(p, s)' /\ s \notin gone'[p]
    BY <1>1 DEF SendingOf
  <1>4. (ppc[p] = "checked" => \A s \in Subs : Unsent(p, s))'
    BY DEF SendingOf
  <1>5. (ppc[p] # "idle" => n[p] >= 1)' /\ (ppc[p] = "sending" <=> todo[p] # <<>>)'
        /\ IsInjective(todo'[p]) /\ gone'[p] \subseteq stop'
    BY DEF SendingOf
  <1>. QED BY <1>2, <1>3, <1>4, <1>5 DEF SendingOf

LEMMA SendingStep == IInv /\ Next => Sending'
  <1>. SUFFICES ASSUME IInv, Next, NEW r \in Publishers PROVE SendingOf(r)'
    BY DEF Sending, SendingOf
  <1>. USE DEF config, busVars, workVars, pubVars, closeVars
  <1>0. SendingOf(r)
    BY DEF IInv, Sending, SendingOf
  <1>1. \A s \in Subs : Log(s)' = Log(s) /\ n'[r] = n[r] => (Unsent(r, s) => Unsent(r, s)')
    BY DEF Unsent
  <1>2. ASSUME NEW t \in Subs,
               \/ SubscribeCheck(t) \/ SubscribeList(t) \/ SubscribeGo(t) \/ Unsubscribe(t)
               \/ Take(t) \/ StopSeen(t) \/ Exit(t) \/ HandlerReturns(t)
        PROVE  SendingOf(r)'
    <2>1. UNCHANGED pubVars /\ stop \subseteq stop'
      BY <1>2 DEF SubscribeCheck, SubscribeList, SubscribeGo, Unsubscribe, Take, StopSeen, Exit,
                  GoroutineEnds, HandlerReturns
    <2>2. \A s \in Subs : There(s) => There(s)'
      BY <1>2 DEF SubscribeCheck, SubscribeList, SubscribeGo, Unsubscribe, Take, StopSeen, Exit,
                  GoroutineEnds, HandlerReturns, There, IInv, Types
    <2>3. ~\E p \in Publishers : PublishSend(p)
      BY <2>1, SendAdds
    <2>4. \A s \in Subs : Log(s)' = Log(s)
      BY <2>3, LogOfOthers
    <2>. QED BY <1>0, <1>1, <2>1, <2>2, <2>4, SendingKept
  <1>3. ASSUME NEW c \in Closers, CloseSwap(c) \/ CloseSweep(c) \/ CloseWait(c) \/ CloseWakes(c)
        PROVE  SendingOf(r)'
    <2>1. UNCHANGED <<pubVars, spc, ch, handled>> /\ stop \subseteq stop'
      BY <1>3 DEF CloseSwap, CloseSweep, CloseWait, CloseWakes
    <2>2. \A s \in Subs : (There(s) => There(s)') /\ Log(s)' = Log(s)
      BY <2>1 DEF There, Log
    <2>. QED BY <1>0, <1>1, <2>1, <2>2, SendingKept
  <1>4. ASSUME NEW p \in Publishers, PublishCheck(p) PROVE SendingOf(r)'
    <2>1. UNCHANGED <<subs, stop, spc, ch, handled, todo>> /\ n' = [n EXCEPT ![p] = n[p] + 1]
          /\ ppc[p] = "idle" /\ n[p] \in Nat /\ n'[p] = n[p] + 1
      BY <1>4, PublishBegins
    <2>2. \A s \in Subs : (There(s) => There(s)') /\ Log(s)' = Log(s)
      BY <2>1 DEF There, Log
    <2>. DEFINE D == {s \in Subs \ stop : spc[s] = "subscribed"}
    <2>3. \/ UNCHANGED <<ppc, due, gone>>
          \/ /\ ppc' = [ppc EXCEPT ![p] = "checked"] /\ due' = [due EXCEPT ![p] = D]
             /\ gone' = [gone EXCEPT ![p] = stop]
      BY <1>4, PublishBegins
    <2>4. CASE r # p
      <3>1. ppc'[r] = ppc[r] /\ n'[r] = n[r] /\ due'[r] = due[r] /\ gone'[r] = gone[r]
        BY <2>1, <2>3, <2>4 DEF IInv, Types
      <3>. QED BY <1>0, <1>1, <2>1, <2>2, <3>1, SendingKept
    <2>5. CASE r = p
      <3>1. todo'[p] = <<>> /\ todo[p] = <<>> /\ IsInjective(todo'[p])
        BY <1>0, <2>1, <2>5 DEF SendingOf
      <3>2. \A s \in Range(todo'[p]) : FALSE
        BY <3>1 DEF Range
      <3>3. \A s \in Subs : Unsent(p, s)'
        <4>. SUFFICES ASSUME NEW s \in Subs, <<p, n[p] + 1>> \in Range(Log(s)) PROVE FALSE
          BY <2>1, <2>2 DEF Unsent
        <4>1. n[p] + 1 <= n[p]
          BY DEF IInv, Issued
        <4>. QED BY <2>1, <4>1
      <3>4. ppc'[p] \in {"idle", "checked"}
        BY <2>1, <2>3 DEF IInv, Types
      <3>5. gone'[p] \subseteq stop' /\ \A s \in due'[p] : There(s)'
        <4>1. CASE UNCHANGED <<ppc, due, gone>>
          <5>1. due[p] \subseteq Subs
            BY DEF IInv, Types
          <5>. QED BY <1>0, <2>1, <2>2, <2>5, <4>1, <5>1 DEF SendingOf
        <4>2. CASE due' = [due EXCEPT ![p] = D] /\ gone' = [gone EXCEPT ![p] = stop]
          <5>1. due'[p] = D /\ gone'[p] = stop
            BY <4>2 DEF IInv, Types
          <5>. QED BY <2>1, <5>1 DEF There
        <4>. QED BY <2>3, <4>1, <4>2
      <3>. QED BY <2>1, <2>5, <3>1, <3>2, <3>3, <3>4, <3>5 DEF SendingOf
    <2>. QED BY <2>4, <2>5
  <1>5. ASSUME NEW p \in Publishers, PublishStep(p) PROVE SendingOf(r)'
    <2>1. PICK q \in Seq(Subs) :
            /\ GoOn(p, q) /\ IsInjective(q)
            /\ ppc[p] = "checked" => Range(q) = subs
            /\ ppc[p] = "sending" => q = Tail(todo[p])
      BY <1>5, PublishGoesOn
    <2>2. ppc[p] # "idle" /\ UNCHANGED <<subs, stop, spc>>
      BY <1>5, PublishGoesOn
    <2>3. /\ todo' = [todo EXCEPT ![p] = q] /\ n' = n
          /\ ppc' = [ppc EXCEPT ![p] = IF q # <<>> THEN "sending" ELSE "idle"]
      BY <2>1, GoOnTypes DEF IInv
    <2>4. \/ due' = due /\ gone' = gone
          \/ due' = [due EXCEPT ![p] = {}] /\ gone' = [gone EXCEPT ![p] = {}]
      BY <2>1 DEF GoOn
    <2>5. \A s \in Subs : There(s) => There(s)'
      BY <2>2 DEF There
    <2>6. CASE r # p
      <3>1. ppc'[r] = ppc[r] /\ n'[r] = n[r] /\ todo'[r] = todo[r] /\ due'[r] = due[r]
            /\ gone'[r] = gone[r]
        BY <2>3, <2>4, <2>6 DEF IInv, Types
      <3>2. ASSUME NEW s \in Subs, Unsent(r, s) PROVE Unsent(r, s)'
        <4>1. CASE ~\E x \in Publishers : PublishSend(x)
          BY <1>1, <3>1, <3>2, <4>1, LogOfOthers
        <4>2. ASSUME NEW x \in Publishers, PublishSend(x) PROVE Unsent(r, s)'
          <5>1. x = p
            <6>1. todo'[x] # todo[x]
              BY <4>2, SendAdds
            <6>. QED BY <2>3, <6>1 DEF IInv, Types
          <5>2. Range(Log(s)') \subseteq Range(Log(s)) \cup {<<p, n[p]>>}
            BY <4>2, <5>1, SendAdds
          <5>. QED BY <2>3, <2>6, <3>2, <5>2 DEF Unsent
        <4>. QED BY <4>1, <4>2
      <3>. QED BY <1>0, <2>2, <2>5, <3>1, <3>2, SendingKept
    <2>7. CASE r = p
      <3>1. todo'[p] = q /\ n'[p] = n[p] /\ ppc'[p] = IF q # <<>> THEN "sending" ELSE "idle"
        BY <2>3 DEF IInv, Types
      <3>2. gone'[p] \in {gone[p], {}} /\ due'[p] \in {due[p], {}}
        BY <2>4 DEF IInv, Types
      <3>3. gone'[p] \subseteq stop' /\ \A s \in due'[p] : There(s)'
        <4>1. due[p] \subseteq Subs
          BY DEF IInv, Types
        <4>. QED BY <1>0, <2>2, <2>5, <2>7, <3>2, <4>1 DEF SendingOf
      <3>4. ASSUME NEW s \in Range(q) PROVE Unsent(p, s)' /\ s \notin gone'[p]
        <4>1. s \in Subs
          BY <3>4 DEF Range
        <4>2. CASE ppc[p] = "checked"
          <5>1. Unsent(p, s)
            BY <1>0, <2>7, <4>1, <4>2 DEF SendingOf
          <5>2. PublishCollect(p)
            BY <1>5, <4>2 DEF PublishStep, PublishSend, PublishDrop, PublishSkip
          <5>3. Log(s)' = Log(s)
            BY <5>2 DEF PublishCollect, Log
          <5>4. s \notin gone[p]
            BY <1>0, <2>1, <2>7, <4>1, <4>2 DEF SendingOf, IInv, Life
          <5>. QED BY <3>1, <3>2, <5>1, <5>3, <5>4 DEF Unsent
        <4>3. CASE ppc[p] = "sending"
          <5>1. s \in Range(todo[p]) /\ s # Head(todo[p])
            BY <2>1, <4>3, HeadOfTodo DEF IInv
          <5>2. Unsent(p, s) /\ s \notin gone[p]
            BY <1>0, <2>7, <5>1 DEF SendingOf
          <5>3. Log(s)' = Log(s)
            <6>1. CASE PublishSend(p)
              BY <6>1, <4>1, <5>1, LogOfSend
            <6>2. CASE ~PublishSend(p)
              BY <6>2, <1>5 DEF PublishStep, PublishCollect, PublishDrop, PublishSkip, Log
            <6>. QED BY <6>1, <6>2
          <5>. QED BY <3>1, <3>2, <5>2, <5>3 DEF Unsent
        <4>. QED BY <2>2, <4>2, <4>3 DEF IInv, Types
      <3>5. ppc'[p] # "idle" => n'[p] >= 1
        BY <1>0, <2>2, <2>7, <3>1 DEF SendingOf
      <3>. QED BY <2>1, <2>7, <3>1, <3>3, <3>4, <3>5 DEF SendingOf
    <2>. QED BY <2>6, <2>7
  <1>. QED BY <1>2, <1>3, <1>4, <1>5, NextCases

-----------------------------------------------------------------------------
(* What a Publish leaves out *)

LEMMA LostFinite == IsFiniteSet(Lost) /\ Cardinality(Lost) \in Nat
  <1>1. Lost \in SUBSET (Publishers \X Subs)
    BY DEF Lost
  <1>2. IsFiniteSet(Publishers \X Subs)
    BY CallsAssumption, FS_Product
  <1>. QED BY <1>1, <1>2, FS_Subset, FS_CardinalityType

(* When Publish goes on, what it has passed without queueing is in Lost    *)
(* before, or in X; when it returns that is added to missed.               *)
LEMMA Settles ==
  ASSUME IInv, NEW p \in Publishers, NEW q \in Seq(Subs), GoOn(p, q),
         stop' = stop, accepted \subseteq accepted', NEW X, IsFiniteSet(X),
         \A s \in due[p] \ stop :
            s \notin Range(q) /\ <<s, <<p, n[p]>>>> \notin accepted' => <<p, s>> \in Lost \cup X
  PROVE  missed' + Cardinality(Lost') <= missed + Cardinality(Lost \cup X)
  <1>. DEFINE M == {s \in due[p] \ stop : <<s, <<p, n[p]>>>> \notin accepted'}
              L == Lost \cup X
  <1>1. IsFiniteSet(L) /\ Cardinality(L) \in Nat
    BY LostFinite, FS_Union, FS_CardinalityType
  <1>2. missed \in Nat /\ n' = n /\ due[p] \subseteq Subs
    BY GoOnTypes DEF IInv, Types
  <1>3. ASSUME NEW x \in Lost', x[1] # p PROVE x \in Lost
    <2>1. x \in Publishers \X Subs /\ x[1] \in Publishers
      BY DEF Lost
    <2>2. ppc'[x[1]] = ppc[x[1]] /\ todo'[x[1]] = todo[x[1]]
      BY <1>3, <2>1, GoOnTypes DEF IInv, Types
    <2>3. due'[x[1]] = due[x[1]]
      BY <1>3, <2>1 DEF GoOn, IInv, Types
    <2>. QED BY <1>2, <2>1, <2>2, <2>3 DEF Lost
  <1>4. CASE q # <<>>
    <2>1. missed' = missed /\ due' = due /\ todo'[p] = q
      BY <1>4 DEF GoOn, IInv, Types
    <2>2. ASSUME NEW x \in Lost', x[1] = p PROVE x \in L
      <3>1. x = <<p, x[2]>> /\ x[2] \in due[p] \ stop /\ x[2] \notin Range(q)
            /\ <<x[2], <<p, n[p]>>>> \notin accepted'
        BY <1>2, <2>1, <2>2 DEF Lost
      <3>. QED BY <3>1
    <2>3. Lost' \in SUBSET L
      BY <1>3, <2>2
    <2>4. Cardinality(Lost') <= Cardinality(L) /\ Cardinality(Lost') \in Nat
      BY <1>1, <2>3, FS_Subset, FS_CardinalityType
    <2>. QED BY <1>1, <1>2, <2>1, <2>4
  <1>5. CASE q = <<>>
    <2>1. missed' = missed + Cardinality(M) /\ ppc'[p] = "idle"
      BY <1>5 DEF GoOn, IInv, Types
    <2>2. \A x \in Lost' : x[1] # p
      BY <2>1 DEF Lost
    <2>3. M \in SUBSET Subs
      BY <1>2
    <2>4. IsFiniteSet(M) /\ Cardinality(M) \in Nat
      BY <2>3, FiniteSubsets
    <2>. DEFINE N == {p} \X M
    <2>5. IsFiniteSet(N) /\ Cardinality(N) = Cardinality(M)
      <3>1. IsFiniteSet({p}) /\ Cardinality({p}) = 1
        BY FS_Singleton
      <3>. HIDE DEF M
      <3>2. IsFiniteSet(N) /\ Cardinality(N) = Cardinality({p}) * Cardinality(M)
        BY <2>4, <3>1, FS_Product
      <3>. HIDE DEF N
      <3>. QED BY <2>4, <3>1, <3>2
    <2>6. Lost' \in SUBSET L
      BY <1>3, <2>2
    <2>7. N \in SUBSET L
      <3>1. Range(q) = {}
        BY <1>5 DEF Range
      <3>2. \A s \in M : <<p, s>> \in L
        BY <3>1
      <3>. HIDE DEF L, M
      <3>. QED BY <3>2
    <2>8. N \cap Lost' = {}
      <3>. HIDE DEF M
      <3>. QED BY <2>2
    <2>. HIDE DEF L, M, N
    <2>9. IsFiniteSet(Lost') /\ Cardinality(Lost') \in Nat
      BY <1>1, <2>6, FS_Subset, FS_CardinalityType
    <2>10. Cardinality(N \cup Lost') = Cardinality(N) + Cardinality(Lost')
      <3>1. Cardinality(N \cup Lost') = Cardinality(N) + Cardinality(Lost') - Cardinality(N \cap Lost')
        BY <2>5, <2>9, FS_Union
      <3>2. Cardinality(N \cap Lost') = 0
        BY <2>8, FS_EmptySet
      <3>. QED BY <3>1, <3>2, <2>4, <2>5, <2>9
    <2>11. Cardinality(N \cup Lost') <= Cardinality(L)
      BY <1>1, <2>6, <2>7, FS_Subset
    <2>. QED BY <1>1, <1>2, <2>1, <2>4, <2>5, <2>9, <2>10, <2>11 DEF L
  <1>. QED BY <1>4, <1>5

(* Accounted from a bound on what the step adds.                           *)
LEMMA AccountedKept ==
  ASSUME IInv, Types', dropWhenFull' = dropWhenFull, dropped' = dropped,
         missed' + Cardinality(Lost') <= missed + Cardinality(Lost),
         IsFiniteSet(Lost')
  PROVE  Accounted'
  <1>1. Cardinality(Lost') \in Nat /\ Cardinality(Lost) \in Nat
    BY LostFinite, FS_CardinalityType
  <1>2. missed \in Nat /\ missed' \in Nat /\ dropped \in Nat
    BY DEF IInv, Types
  <1>3. missed' + Cardinality(Lost') <= dropped
    BY <1>1, <1>2 DEF IInv, Accounted
  <1>4. missed + Cardinality(Lost) = 0 => missed' + Cardinality(Lost') = 0
    <2>1. \A a, b, c, d \in Nat : a + b <= c + d /\ c + d = 0 => a + b = 0
      OBVIOUS
    <2>. QED BY <1>1, <1>2, <2>1
  <1>. QED BY <1>3, <1>4 DEF IInv, Accounted

LEMMA AccountedStep == IInv /\ Next => Accounted'
  <1>. SUFFICES ASSUME IInv, Next PROVE Accounted'
    OBVIOUS
  <1>. USE DEF config, busVars, workVars, pubVars, closeVars
  <1>0. IsFiniteSet(Lost') /\ Cardinality(Lost') \in Nat /\ Types'
    <2>1. Lost' \in SUBSET (Publishers \X Subs)
      BY DEF Lost
    <2>2. IsFiniteSet(Publishers \X Subs)
      BY CallsAssumption, FS_Product
    <2>. QED BY <2>1, <2>2, FS_Subset, FS_CardinalityType, TypesStep
  <1>1. ASSUME Lost' \subseteq Lost, UNCHANGED <<missed, dropped, dropWhenFull>> PROVE Accounted'
    <2>1. Cardinality(Lost') <= Cardinality(Lost)
      BY <1>1, LostFinite, FS_Subset
    <2>2. missed' + Cardinality(Lost') <= missed + Cardinality(Lost)
      BY <1>0, <1>1, <2>1, LostFinite DEF IInv, Types
    <2>. QED BY <1>0, <1>1, <2>2, AccountedKept
  <1>2. ASSUME NEW t \in Subs,
               \/ SubscribeCheck(t) \/ SubscribeList(t) \/ SubscribeGo(t) \/ Unsubscribe(t)
               \/ Take(t) \/ StopSeen(t) \/ Exit(t) \/ HandlerReturns(t)
        PROVE  Accounted'
    <2>1. UNCHANGED <<pubVars, dropped, dropWhenFull, accepted>> /\ stop \subseteq stop'
      BY <1>2 DEF SubscribeCheck, SubscribeList, SubscribeGo, Unsubscribe, Take, StopSeen, Exit,
                  GoroutineEnds, HandlerReturns
    <2>2. Lost' \subseteq Lost
      BY <2>1 DEF Lost
    <2>. QED BY <1>1, <2>1, <2>2
  <1>3. ASSUME NEW c \in Closers, CloseSwap(c) \/ CloseSweep(c) \/ CloseWait(c) \/ CloseWakes(c)
        PROVE  Accounted'
    <2>1. UNCHANGED <<pubVars, dropped, dropWhenFull, accepted>> /\ stop \subseteq stop'
      BY <1>3 DEF CloseSwap, CloseSweep, CloseWait, CloseWakes
    <2>2. Lost' \subseteq Lost
      BY <2>1 DEF Lost
    <2>. QED BY <1>1, <2>1, <2>2
  <1>4. ASSUME NEW p \in Publishers, PublishCheck(p) PROVE Accounted'
    <2>1. /\ UNCHANGED <<stop, todo, missed, dropped, dropWhenFull, accepted>> /\ ppc[p] = "idle"
          /\ ppc'[p] # "sending"
      BY <1>4, PublishBegins DEF IInv, Types
    <2>2. \A r \in Publishers : r # p => ppc'[r] = ppc[r] /\ due'[r] = due[r] /\ n'[r] = n[r]
      <3>. DEFINE D == {s \in Subs \ stop : spc[s] = "subscribed"}
      <3>1. n' = [n EXCEPT ![p] = n[p] + 1]
        BY <1>4, PublishBegins
      <3>2. \/ UNCHANGED <<ppc, due>>
            \/ ppc' = [ppc EXCEPT ![p] = "checked"] /\ due' = [due EXCEPT ![p] = D]
        BY <1>4, PublishBegins
      <3>. HIDE DEF D
      <3>. QED BY <3>1, <3>2 DEF IInv, Types
    <2>3. Lost' \subseteq Lost
      BY <2>1, <2>2 DEF Lost
    <2>. QED BY <1>1, <2>1, <2>3
  <1>5. ASSUME NEW p \in Publishers, PublishStep(p) PROVE Accounted'
    <2>1. PICK q \in Seq(Subs) :
            /\ GoOn(p, q)
            /\ ppc[p] = "checked" => Range(q) = subs
            /\ ppc[p] = "sending" => q = Tail(todo[p])
      BY <1>5, PublishGoesOn
    <2>2. stop' = stop /\ dropWhenFull' = dropWhenFull
      BY <1>5, PublishGoesOn
    <2>3. ASSUME ppc[p] = "sending", NEW s \in due[p] \ stop, s \notin Range(q),
                 <<s, <<p, n[p]>>>> \notin accepted
          PROVE  <<p, s>> \in Lost \/ s = Head(todo[p])
      <3>1. Range(todo[p]) = Range(q) \cup {Head(todo[p])}
        BY <2>1, <2>3, HeadOfTodo DEF IInv
      <3>2. s \in Subs
        BY <2>3 DEF IInv, Types
      <3>. QED BY <2>3, <3>1, <3>2 DEF Lost
    <2>4. CASE PublishCollect(p)
      <3>1. ppc[p] = "checked" /\ accepted' = accepted /\ dropped' = dropped
        BY <2>4 DEF PublishCollect
      <3>2. \A s \in due[p] \ stop : s \in Range(q)
        <4>1. due[p] \subseteq Subs
          BY DEF IInv, Types
        <4>. QED BY <2>1, <3>1, <4>1 DEF IInv, Sending, Life
      <3>3. IsFiniteSet({})
        BY FS_EmptySet
      <3>4. missed' + Cardinality(Lost') <= missed + Cardinality(Lost \cup {})
        BY <2>1, <2>2, <3>1, <3>2, <3>3, Settles
      <3>. QED BY <1>0, <2>2, <3>1, <3>4, AccountedKept
    <2>5. CASE PublishSend(p) \/ PublishSkip(p)
      <3>1. ppc[p] = "sending" /\ accepted \subseteq accepted' /\ dropped' = dropped
        BY <2>5 DEF PublishSend, PublishSkip, Enqueue
      <3>2. Head(todo[p]) \in stop \/ <<Head(todo[p]), <<p, n[p]>>>> \in accepted'
        BY <2>5 DEF PublishSend, PublishSkip, Enqueue
      <3>3. \A s \in due[p] \ stop :
              s \notin Range(q) /\ <<s, <<p, n[p]>>>> \notin accepted' => <<p, s>> \in Lost \cup {}
        BY <2>3, <3>1, <3>2
      <3>4. IsFiniteSet({})
        BY FS_EmptySet
      <3>5. missed' + Cardinality(Lost') <= missed + Cardinality(Lost \cup {})
        BY <2>1, <2>2, <3>1, <3>3, <3>4, Settles
      <3>. QED BY <1>0, <2>2, <3>1, <3>5, AccountedKept
    <2>6. CASE PublishDrop(p)
      <3>1. ppc[p] = "sending" /\ accepted' = accepted /\ dropped' = dropped + 1 /\ dropWhenFull
        BY <2>6 DEF PublishDrop
      <3>. DEFINE X == {<<p, Head(todo[p])>>}
      <3>2. \A s \in due[p] \ stop :
              s \notin Range(q) /\ <<s, <<p, n[p]>>>> \notin accepted' => <<p, s>> \in Lost \cup X
        BY <2>3, <3>1
      <3>3. IsFiniteSet(X)
        BY FS_Singleton
      <3>4. Cardinality(Lost \cup X) <= Cardinality(Lost) + 1 /\ Cardinality(Lost \cup X) \in Nat
        <4>1. Cardinality(Lost \cup X) = IF <<p, Head(todo[p])>> \in Lost THEN Cardinality(Lost)
                                         ELSE Cardinality(Lost) + 1
          BY LostFinite, FS_AddElement
        <4>. QED BY <4>1, LostFinite
      <3>. HIDE DEF X
      <3>5. missed' + Cardinality(Lost') <= missed + Cardinality(Lost \cup X)
        BY <2>1, <2>2, <3>1, <3>2, <3>3, Settles
      <3>6. missed \in Nat /\ missed' \in Nat /\ dropped \in Nat
        BY <1>0 DEF IInv, Types
      <3>7. missed + Cardinality(Lost) <= dropped
        BY DEF IInv, Accounted
      <3>8. missed' + Cardinality(Lost') <= dropped'
        BY <1>0, <3>1, <3>4, <3>5, <3>6, <3>7, LostFinite
      <3>. QED BY <2>2, <3>1, <3>8 DEF Accounted
    <2>. QED BY <1>5, <2>4, <2>5, <2>6 DEF PublishStep
  <1>. QED BY <1>2, <1>3, <1>4, <1>5, NextCases

-----------------------------------------------------------------------------
(* The theorems *)

LEMMA InitIInv == Init => IInv
  <1>. SUFFICES ASSUME Init PROVE IInv
    OBVIOUS
  <1>1. Types
    BY LoadsAssumption, CallsAssumption DEF Init, Types
  <1>2. Flags
    BY DEF Init, Flags
  <1>3. \A s \in Subs : ch[s] = <<>> /\ handled[s] = <<>> /\ Log(s) = <<>> /\ Range(Log(s)) = {}
    BY DEF Init, Log, Range
  <1>4. Buffered
    BY <1>3, BufferAssumption DEF Buffered
  <1>5. Life
    BY DEF Init, Life, There
  <1>6. Counted
    <2>1. Active = {}
      BY DEF Init, Active
    <2>. QED BY <2>1, FS_EmptySet DEF Init, Counted
  <1>7. Sending
    <2>1. \A p \in Publishers : todo[p] = <<>> /\ Range(todo[p]) = {} /\ ppc[p] = "idle"
                                /\ gone[p] = {} /\ due[p] = {} /\ IsInjective(todo[p])
      BY DEF Init, Range, IsInjective
    <2>. QED BY <2>1 DEF Sending
  <1>8. Issued /\ Past /\ InOrder
    <2>1. InOrder
      <3>1. \A s \in Subs : handled[s] \o ch[s] = <<>>
        BY <1>3, Zenon DEF Log
      <3>2. \A i : i \notin DOMAIN <<>>
        OBVIOUS
      <3>. QED BY <3>1, <3>2, Zenon DEF InOrder
    <2>. QED BY <1>3, <2>1 DEF Issued, Past, Init
  <1>9. Kept /\ Closes
    BY DEF Init, Kept, Closes
  <1>10. Accounted
    <2>1. Lost = {}
      BY DEF Init, Lost
    <2>2. Cardinality(Lost) = 0
      BY <2>1, FS_EmptySet
    <2>. QED BY <2>2 DEF Init, Accounted
  <1>. QED BY <1>1, <1>2, <1>4, <1>5, <1>6, <1>7, <1>8, <1>9, <1>10 DEF IInv

LEMMA Stutter == IInv /\ UNCHANGED vars => IInv'
  <1>. SUFFICES ASSUME IInv, UNCHANGED vars PROVE IInv'
    OBVIOUS
  <1>. USE DEF vars, config, busVars, workVars, pubVars, closeVars
  <1>1. Types' /\ Buffered' /\ Life' /\ Counted' /\ Closes'
    BY DEF IInv, Types, Buffered, Life, There, Counted, Active, Closes
  <1>2. Flags'
    BY DEF IInv, Flags
  <1>3. Sending'
    BY DEF IInv, Sending, Unsent, There, Log
  <1>4. Issued' /\ Past' /\ Kept'
    BY DEF IInv, Log, Issued, Past, Published, Kept
  <1>5. InOrder'
    <2>1. handled' = handled /\ ch' = ch /\ before' = before /\ InOrder
      BY DEF IInv
    <2>. QED BY <2>1, Zenon DEF InOrder
  <1>6. Accounted'
    BY DEF IInv, Accounted, Lost
  <1>. QED BY <1>1, <1>2, <1>3, <1>4, <1>5, <1>6 DEF IInv

LEMMA Inductive == Spec => []IInv
  <1>1. IInv /\ [Next]_vars => IInv'
    BY TypesStep, FlagsStep, BufferedStep, LifeStep, CountedStep, SendingStep, IssuedStep, PastStep,
       InOrderStep, KeptStep, ClosesStep, AccountedStep, Stutter DEF IInv
  <1>. QED BY <1>1, InitIInv, PTL DEF Spec

(* What Publish sends (eventbus.go, Async.Publish): no queue is overfilled, *)
(* no handler gets an event twice or against the order in which the calls  *)
(* returned, and a Publish called after a stop sends nothing there, for    *)
(* any buffer, subscribers and publishers.                                 *)
THEOREM BusDelivers == Spec => []Delivery
  <1>1. IInv => Delivery
    <2>. SUFFICES ASSUME IInv PROVE Delivery
      OBVIOUS
    <2>1. TypeOK
      <3>1. dropWhenFull \in BOOLEAN /\ closed \in BOOLEAN /\ panicked \in BOOLEAN
        BY DEF IInv, Flags
      <3>. QED BY <3>1 DEF IInv, Types, Buffered, TypeOK
    <2>2. NoneAfterOff
      BY DEF IInv, Sending, NoneAfterOff
    <2>. QED BY <2>1, <2>2 DEF IInv, Delivery
  <1>. QED BY <1>1, Inductive, PTL

(* Whom a Publish that has returned left out is stopped or counted in      *)
(* dropped; without DropWhenFull nobody is dropped.                        *)
THEOREM BusCountsMisses == Spec => []MissesCounted
  <1>1. IInv => MissesCounted
    <2>. SUFFICES ASSUME IInv PROVE MissesCounted
      OBVIOUS
    <2>1. missed \in Nat /\ dropped \in Nat /\ Cardinality(Lost) \in Nat
      BY LostFinite DEF IInv, Types
    <2>2. missed <= dropped
      BY <2>1 DEF IInv, Accounted
    <2>3. missed + Cardinality(Lost) = 0 => missed = 0
      BY <2>1
    <2>. QED BY <2>2, <2>3 DEF IInv, Accounted, MissesCounted
  <1>. QED BY <1>1, Inductive, PTL

(* A Close that has returned (Async.Close) leaves no goroutine of the      *)
(* subscribers that were there and nothing unhandled that was queued       *)
(* before their stop.                                                      *)
THEOREM BusCloseDrains == Spec => []CloseDrains
  <1>1. IInv => CloseDrains
    <2>. SUFFICES ASSUME IInv, NEW c \in Closers, cpc[c] = "closed", NEW s \in served
                  PROVE  wpc[s] = "exited"
                         /\ \A e \in Events : <<s, e>> \in accepted => e \in Range(handled[s])
      BY DEF CloseDrains
    <2>1. s \in Subs /\ wpc[s] = "exited"
      BY DEF IInv, Types, Closes
    <2>. QED BY <2>1 DEF IInv, Kept
  <1>. QED BY <1>1, Inductive, PTL

=============================================================================
