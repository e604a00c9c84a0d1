------------------------- MODULE VersionedDirProofs -------------------------
(* Proofs about VersionedDir, for any number of processes, versions, tokens  *)
(* and cache files: no torn file, Open never returns with entries of another *)
(* version, and reopening with the same tokens keeps the cache.              *)
EXTENDS VersionedDir, TLAPS

Paths == Tokens \union Slots

\* Files reach their final names complete and synced.
FilesOK ==
  /\ files = [f \in Paths |-> files[f]]
  /\ \A f \in Paths : /\ files[f] \in Contents(f) \union {None}
                      /\ files[f] # None => files[f].whole /\ files[f].synced

Arrays == /\ at = [p \in Procs |-> at[p]] /\ ver = [p \in Procs |-> ver[p]]
          /\ i = [p \in Procs |-> i[p]] /\ tmp = [p \in Procs |-> tmp[p]]

Positions == {"idle", "check", "nuke", "sidecar", "opened", "clear"} \union Writing

\* The temporary file of a writing process: a sidecar of its version, or an
\* entry of the opened cache, whole and synced before it is renamed.
TempOK(p) ==
  /\ tmp[p].path \in Paths
  /\ tmp[p] = [path |-> tmp[p].path, file |-> tmp[p].file]
  /\ tmp[p].file \in Contents(tmp[p].path)
  /\ at[p] \in {"sync", "rename"} => tmp[p].file.whole
  /\ at[p] = "rename" => tmp[p].file.synced
  /\ tmp[p].path \in Slots => tmp[p].file.val = ver[p]
  /\ tmp[p].path \in Tokens =>
       /\ i[p] \in DOMAIN TokenOrder /\ tmp[p].path = Sidecar(p) /\ Declared(p)
       /\ tmp[p].file.val = ver[p][Sidecar(p)]

ProcOK(p) ==
  /\ at[p] \in Positions
  /\ ver[p] \in Versions \union {None} /\ (ver[p] = None) = (at[p] = "idle")
  /\ i[p] \in 0..(Len(TokenOrder) + Len(NukeOrder) + 1)
  /\ at[p] \in {"check", "sidecar"} => i[p] \in 1..(Len(TokenOrder) + 1)
  /\ at[p] = "nuke" => i[p] \in 1..(Len(NukeOrder) + 1)
  /\ (tmp[p] # None) = (at[p] \in Writing)
  /\ at[p] \in Writing => TempOK(p)

\* Processes that run at the same time have the same version.
SameVersion == \A p, q \in Procs : at[p] # "idle" /\ at[q] # "idle" => ver[p] = ver[q]

\* The sidecar of token t is there and has the value version w gives it.
Says(t, w) == files[t] # None /\ files[t].val = w[t]

\* Every entry is vouched for: the sidecars say what its version said.
Vouched == \A f \in Slots : files[f] # None =>
             \A t \in DOMAIN files[f].val : Says(t, files[f].val)

InSidecar(p) == at[p] = "sidecar" \/ (at[p] \in Writing /\ tmp[p].path \in Tokens)
InOpened(p) == at[p] = "opened" \/ (at[p] \in Writing /\ tmp[p].path \in Slots)

\* The entries agree with process p on the tokens it has compared ...
Compared(p) == at[p] = "check" =>
  \A j \in DOMAIN TokenOrder, f \in Slots :
    j < i[p] /\ files[f] # None =>
      (TokenOrder[j] \in DOMAIN files[f].val /\ TokenOrder[j] \in DOMAIN ver[p] =>
         files[f].val[TokenOrder[j]] = ver[p][TokenOrder[j]])

\* ... in the areas it has cleared ...
Cleared(p) == at[p] = "nuke" =>
  \A j \in DOMAIN NukeOrder : \A f \in NukeOrder[j] :
    j < i[p] /\ files[f] # None => Agree(files[f].val, ver[p])

\* ... and altogether once it writes; the sidecars it has written stay.
Agreeing(p) == InSidecar(p) \/ InOpened(p) =>
  \A f \in Slots : files[f] # None => Agree(files[f].val, ver[p])

Written(p) ==
  /\ InSidecar(p) => \A j \in DOMAIN TokenOrder :
       j < i[p] /\ TokenOrder[j] \in DOMAIN ver[p] => Says(TokenOrder[j], ver[p])
  /\ InOpened(p) => \A t \in DOMAIN ver[p] : Says(t, ver[p])

ProcTrust(p) == Compared(p) /\ Cleared(p) /\ Agreeing(p) /\ Written(p)

Trust == ~cut => Vouched /\ \A p \in Procs : ProcTrust(p)

Bounds == starts \in 0..MaxStarts /\ stops \in 0..MaxStops

Base == FilesOK /\ Arrays /\ (\A p \in Procs : ProcOK(p)) /\ SameVersion
        /\ Bounds /\ cut \in BOOLEAN

IInv == Base /\ Trust

-----------------------------------------------------------------------------
LEMMA Orders ==
  /\ DOMAIN TokenOrder = 1..Len(TokenOrder) /\ Len(TokenOrder) \in Nat
  /\ DOMAIN NukeOrder = 1..Len(NukeOrder) /\ Len(NukeOrder) \in Nat
  /\ \A j \in DOMAIN TokenOrder : TokenOrder[j] \in Tokens
  /\ \A t \in Tokens : \E j \in DOMAIN TokenOrder : TokenOrder[j] = t
  /\ \A j \in DOMAIN NukeOrder : NukeOrder[j] \subseteq Slots
  /\ \A f \in Slots : \E j \in DOMAIN NukeOrder : f \in NukeOrder[j]
  /\ \A w \in Versions : DOMAIN w \subseteq Tokens
  /\ \A t \in Tokens : t \notin Slots
<1>1. /\ TokenOrder \in Seq(Tokens) /\ NukeOrder \in Seq(SUBSET Slots)
      /\ Tokens \intersect Slots = {}
      /\ \A w \in Versions : DOMAIN w \subseteq Tokens
  BY VersionedDirAssumption
<1>. QED
  BY <1>1 DEF Tokens, Slots

LEMMA TempNotNone ==
  ASSUME NEW f \in Paths, NEW y \in Contents(f)
  PROVE  [path |-> f, file |-> y] # None
<1>1. [path |-> f, file |-> y] \in [path : {f}, file : Contents(f)]
  OBVIOUS
<1>. QED
  BY <1>1, NoneAssumption DEF Paths

\* The states of IInv are well-typed, with no torn file, and trusted.
LEMMA IInvImplies == ASSUME IInv PROVE TypeOK /\ NoTornFile /\ TrustedEntries
<1>1. TypeOK
  BY DEF IInv, Base, FilesOK, ProcOK, TempOK, Bounds, TypeOK, Paths, Positions
<1>2. NoTornFile
  BY DEF IInv, Base, FilesOK, NoTornFile
<1>3. TrustedEntries
  BY DEF IInv, Trust, ProcTrust, Agreeing, InOpened, TrustedEntries
<1>. QED
  BY <1>1, <1>2, <1>3

LEMMA InitIInv == Init => IInv
<1> SUFFICES ASSUME Init PROVE IInv
  OBVIOUS
<1>1. FilesOK /\ Arrays /\ SameVersion
  BY DEF Init, FilesOK, Arrays, SameVersion, Paths
<1>2. \A p \in Procs : ProcOK(p)
  BY Orders, NoneAssumption DEF Init, ProcOK, Positions, Writing
<1>3. Bounds
  BY VersionedDirAssumption DEF Init, Bounds
<1>5. cut \in BOOLEAN
  BY DEF Init
<1>4. Vouched /\ \A p \in Procs : ProcTrust(p)
  BY Orders DEF Init, Vouched, ProcTrust, Compared, Cleared, Agreeing, Written, InSidecar, InOpened,
     Writing, Paths
<1>. QED
  BY <1>1, <1>2, <1>3, <1>4, <1>5 DEF IInv, Base, Trust

-----------------------------------------------------------------------------
(* Steps of one process that leave the files alone.                          *)

Unmoved(q) == at'[q] = at[q] /\ ver'[q] = ver[q] /\ i'[q] = i[q] /\ tmp'[q] = tmp[q]

\* What holds of a process goes on holding while it and the files rest.
LEMMA Frame ==
  ASSUME NEW q \in Procs, Unmoved(q), files' = files
  PROVE  /\ ProcOK(q) => ProcOK(q)'
         /\ ProcTrust(q) => ProcTrust(q)'
<1>1. ProcOK(q) => ProcOK(q)'
  BY DEF Unmoved, ProcOK, TempOK, Sidecar, Declared
<1>2. InSidecar(q)' = InSidecar(q) /\ InOpened(q)' = InOpened(q)
  BY DEF Unmoved, InSidecar, InOpened
<1>3. ProcTrust(q) => ProcTrust(q)'
  BY <1>2 DEF Unmoved, ProcTrust, Compared, Cleared, Agreeing, Written, Says
<1>. QED
  BY <1>1, <1>3

\* A running process moves, or ends.
LEMMA LocalStep ==
  ASSUME IInv, NEW p \in Procs, files' = files, cut' = cut, Arrays', Bounds',
         \A q \in Procs : q # p => Unmoved(q),
         at[p] # "idle", ver'[p] = ver[p] \/ at'[p] = "idle",
         ProcOK(p)', ~cut => ProcTrust(p)'
  PROVE  IInv'
<1>1. FilesOK'
  BY DEF IInv, Base, FilesOK
<1>2. \A q \in Procs : ProcOK(q)'
  BY Frame DEF IInv, Base
<1>3. SameVersion'
  BY DEF IInv, Base, SameVersion, Unmoved
<1>4. (cut \in BOOLEAN)'
  BY DEF IInv, Base
<1>5. Vouched => Vouched'
  BY DEF Vouched, Says
<1>6. ~cut => \A q \in Procs : ProcTrust(q)'
  BY Frame DEF IInv, Trust
<1>. QED
  BY <1>1, <1>2, <1>3, <1>4, <1>5, <1>6 DEF IInv, Base, Trust

\* A process that ends has nothing left to keep.
LEMMA LeaveStep ==
  ASSUME IInv, NEW p \in Procs, at[p] # "idle", Leave(p), files' = files, cut' = cut, Bounds',
         tmp' = [tmp EXCEPT ![p] = None]
  PROVE  IInv'
<1>1. Arrays' /\ (\A q \in Procs : q # p => Unmoved(q))
  BY DEF IInv, Base, Arrays, Leave, Go, Count, Unmoved
<1>2. at'[p] = "idle" /\ ver'[p] = None /\ i'[p] = 0 /\ tmp'[p] = None
  BY DEF IInv, Base, Arrays, Leave, Go, Count
<1>3. ProcOK(p)'
  BY <1>2, Orders DEF ProcOK, Positions, Writing
<1>4. ProcTrust(p)'
  BY <1>2 DEF ProcTrust, Compared, Cleared, Agreeing, Written, InSidecar, InOpened, Writing
<1>. QED
  BY <1>1, <1>2, <1>3, <1>4, LocalStep

LEMMA EndSteps ==
  ASSUME IInv, NEW p \in Procs, ClearEnd(p) \/ Exit(p) \/ Kill(p)
  PROVE  IInv'
<1>1. at[p] # "idle" /\ Leave(p) /\ files' = files /\ cut' = cut /\ starts' = starts
  BY DEF ClearEnd, Exit, Kill
<1>2. tmp' = [tmp EXCEPT ![p] = None]
  <2>1. CASE Kill(p)
    BY <2>1 DEF Kill
  <2>2. CASE ClearEnd(p) \/ Exit(p)
    <3>1. tmp' = tmp /\ at[p] \notin Writing
      BY <2>2 DEF ClearEnd, Exit, Writing
    <3>2. tmp[p] = None
      BY <3>1 DEF IInv, Base, ProcOK
    <3>. QED
      BY <3>1, <3>2 DEF IInv, Base, Arrays
  <2>. QED
    BY <2>1, <2>2
<1>3. Bounds'
  BY VersionedDirAssumption DEF IInv, Base, Bounds, ClearEnd, Exit, Kill
<1>. QED
  BY <1>1, <1>2, <1>3, LeaveStep

LEMMA FailStep == ASSUME IInv, NEW p \in Procs, Fail(p) PROVE IInv'
<1>1. /\ at[p] # "idle" /\ files' = files /\ cut' = cut /\ starts' = starts /\ stops' = stops
      /\ tmp' = [tmp EXCEPT ![p] = None]
  BY DEF Fail, Writing
<1>2. Bounds'
  BY <1>1 DEF IInv, Base, Bounds
<1>3. CASE tmp[p] # None /\ tmp[p].path \in Slots
  <2>1. Go(p, "opened") /\ ver' = ver /\ i' = i
    BY <1>3 DEF Fail
  <2>2. Arrays' /\ (\A q \in Procs : q # p => Unmoved(q))
    BY <1>1, <2>1 DEF IInv, Base, Arrays, Go, Unmoved
  <2>3. /\ at'[p] = "opened" /\ ver'[p] = ver[p] /\ i'[p] = i[p] /\ tmp'[p] = None
        /\ InOpened(p) /\ InOpened(p)' /\ ~InSidecar(p)'
    BY <1>1, <1>3, <2>1 DEF IInv, Base, Arrays, ProcOK, Go, InOpened, InSidecar, Writing
  <2>4. ProcOK(p)'
    BY <1>1, <2>3 DEF IInv, Base, ProcOK, Positions, Writing
  <2>5. ~cut => ProcTrust(p)'
    BY <1>1, <2>3 DEF IInv, Trust, ProcTrust, Compared, Cleared, Agreeing, Written, Says
  <2>. QED
    BY <1>1, <1>2, <2>2, <2>3, <2>4, <2>5, LocalStep
<1>4. CASE ~(tmp[p] # None /\ tmp[p].path \in Slots)
  <2>1. Leave(p)
    BY <1>4 DEF Fail
  <2>. QED
    BY <1>1, <1>2, <2>1, LeaveStep
<1>. QED
  BY <1>3, <1>4

\* Open compares the next sidecar: no entry contradicts one that is missing or
\* that says the same.
LEMMA CheckTokenStep == ASSUME IInv, NEW p \in Procs, CheckToken(p) PROVE IInv'
<1>1. /\ at[p] = "check" /\ files' = files /\ cut' = cut /\ starts' = starts /\ stops' = stops
      /\ ver' = ver /\ tmp' = tmp
  BY DEF CheckToken
<1>2. Bounds'
  BY <1>1 DEF IInv, Base, Bounds
<1>3. tmp[p] = None /\ i[p] \in 1..(Len(TokenOrder) + 1) /\ ver[p] \in Versions /\ at[p] \notin Writing
  BY <1>1 DEF IInv, Base, ProcOK, Writing
<1>4. ASSUME NEW l, NEW n, Go(p, l), Count(p, n)
      PROVE  /\ Arrays' /\ (\A q \in Procs : q # p => Unmoved(q))
             /\ at'[p] = l /\ i'[p] = n /\ ver'[p] = ver[p] /\ tmp'[p] = None
  BY <1>1, <1>3, <1>4 DEF IInv, Base, Arrays, Go, Count, Unmoved
<1>5. CASE i[p] > Len(TokenOrder)
  <2>1. Go(p, "sidecar") /\ Count(p, 1)
    BY <1>5 DEF CheckToken
  <2>2. at'[p] = "sidecar" /\ i'[p] = 1 /\ ver'[p] = ver[p] /\ tmp'[p] = None
    BY <1>4, <2>1
  <2>3. ProcOK(p)'
    BY <1>1, <2>2, Orders DEF IInv, Base, ProcOK, Positions, Writing
  <2>4. ~cut => \A f \in Slots : files[f] # None => Agree(files[f].val, ver[p])
    <3> SUFFICES ASSUME ~cut, NEW f \in Slots, files[f] # None,
                        NEW t \in DOMAIN files[f].val \intersect DOMAIN ver[p]
                 PROVE  files[f].val[t] = ver[p][t]
      BY DEF Agree
    <3>1. t \in Tokens
      BY <1>3, Orders
    <3>2. PICK j \in DOMAIN TokenOrder : TokenOrder[j] = t
      BY <3>1, Orders
    <3>3. j < i[p]
      BY <1>3, <1>5, Orders
    <3>. QED
      BY <1>1, <3>2, <3>3 DEF IInv, Trust, ProcTrust, Compared
  <2>5. ~cut => ProcTrust(p)'
    BY <1>1, <2>2, <2>4, Orders
       DEF ProcTrust, Compared, Cleared, Agreeing, Written, InSidecar, InOpened, Writing
  <2>. QED
    BY <1>1, <1>2, <1>4, <2>1, <2>2, <2>3, <2>5, LocalStep
<1>6. CASE /\ i[p] <= Len(TokenOrder)
           /\ Declared(p) /\ files[Sidecar(p)] # None
           /\ files[Sidecar(p)].val # ver[p][Sidecar(p)] \/ ~files[Sidecar(p)].whole
  <2>1. Go(p, "nuke") /\ Count(p, 1)
    BY <1>3, <1>6, Orders DEF CheckToken
  <2>2. at'[p] = "nuke" /\ i'[p] = 1 /\ ver'[p] = ver[p] /\ tmp'[p] = None
    BY <1>4, <2>1
  <2>3. ProcOK(p)'
    BY <1>1, <2>2, Orders DEF IInv, Base, ProcOK, Positions, Writing
  <2>4. ProcTrust(p)'
    BY <1>1, <2>2, Orders
       DEF ProcTrust, Compared, Cleared, Agreeing, Written, InSidecar, InOpened, Writing
  <2>. QED
    BY <1>1, <1>2, <1>4, <2>1, <2>2, <2>3, <2>4, LocalStep
<1>7. CASE /\ i[p] <= Len(TokenOrder)
           /\ ~(/\ Declared(p) /\ files[Sidecar(p)] # None
                /\ files[Sidecar(p)].val # ver[p][Sidecar(p)] \/ ~files[Sidecar(p)].whole)
  <2>1. Count(p, i[p] + 1) /\ at' = at
    BY <1>3, <1>7, Orders DEF CheckToken
  <2>2. Go(p, "check")
    BY <1>1, <2>1 DEF IInv, Base, Arrays, Go
  <2>3. at'[p] = "check" /\ i'[p] = i[p] + 1 /\ ver'[p] = ver[p] /\ tmp'[p] = None
    BY <1>4, <2>1, <2>2
  <2>4. ProcOK(p)'
    BY <1>1, <1>3, <1>7, <2>3, Orders DEF IInv, Base, ProcOK, Positions, Writing
  <2>5. ASSUME ~cut, NEW f \in Slots, files[f] # None,
               Sidecar(p) \in DOMAIN files[f].val, Sidecar(p) \in DOMAIN ver[p]
        PROVE  files[f].val[Sidecar(p)] = ver[p][Sidecar(p)]
    BY <1>7, <2>5 DEF IInv, Trust, Vouched, Says, Declared
  <2>6. ~cut => Compared(p)'
    <3> SUFFICES ASSUME ~cut, NEW j \in DOMAIN TokenOrder, NEW f \in Slots,
                        j < i[p] + 1, files[f] # None,
                        TokenOrder[j] \in DOMAIN files[f].val, TokenOrder[j] \in DOMAIN ver[p]
                 PROVE  files[f].val[TokenOrder[j]] = ver[p][TokenOrder[j]]
      BY <1>1, <2>3 DEF Compared
    <3>1. CASE j = i[p]
      BY <2>5, <3>1 DEF Sidecar
    <3>2. CASE j < i[p]
      BY <1>1, <3>2 DEF IInv, Trust, ProcTrust, Compared
    <3>. QED
      BY <1>3, <3>1, <3>2, Orders
  <2>7. ~cut => ProcTrust(p)'
    BY <2>3, <2>6 DEF ProcTrust, Cleared, Agreeing, Written, InSidecar, InOpened, Writing
  <2>. QED
    BY <1>1, <1>2, <1>4, <2>1, <2>2, <2>3, <2>4, <2>7, LocalStep
<1>. QED
  BY <1>3, <1>5, <1>6, <1>7, Orders

\* Opening is over once all sidecars are written.
LEMMA WriteSidecarStep == ASSUME IInv, NEW p \in Procs, WriteSidecar(p) PROVE IInv'
<1>1. /\ at[p] = "sidecar" /\ files' = files /\ cut' = cut /\ starts' = starts /\ stops' = stops
      /\ ver' = ver
  BY DEF WriteSidecar
<1>2. Bounds'
  BY <1>1 DEF IInv, Base, Bounds
<1>3. /\ tmp[p] = None /\ i[p] \in 1..(Len(TokenOrder) + 1) /\ ver[p] \in Versions
      /\ at[p] \notin Writing /\ InSidecar(p)
  BY <1>1 DEF IInv, Base, ProcOK, Writing, InSidecar
<1>4. CASE i[p] > Len(TokenOrder)
  <2>1. Go(p, "opened") /\ Count(p, 0) /\ tmp' = tmp
    BY <1>4 DEF WriteSidecar
  <2>2. /\ Arrays' /\ (\A q \in Procs : q # p => Unmoved(q))
        /\ at'[p] = "opened" /\ i'[p] = 0 /\ ver'[p] = ver[p] /\ tmp'[p] = None
    BY <1>1, <1>3, <2>1 DEF IInv, Base, Arrays, Go, Count, Unmoved
  <2>3. ProcOK(p)'
    BY <1>1, <2>2, Orders DEF IInv, Base, ProcOK, Positions, Writing
  <2>4. ~cut => \A t \in DOMAIN ver[p] : Says(t, ver[p])
    <3> SUFFICES ASSUME ~cut, NEW t \in DOMAIN ver[p] PROVE Says(t, ver[p])
      OBVIOUS
    <3>1. PICK j \in DOMAIN TokenOrder : TokenOrder[j] = t
      BY <1>3, Orders
    <3>2. j < i[p]
      BY <1>3, <1>4, Orders
    <3>. QED
      BY <1>3, <3>1, <3>2 DEF IInv, Trust, ProcTrust, Written
  <2>5. ~cut => ProcTrust(p)'
    BY <1>1, <1>3, <2>2, <2>4 DEF IInv, Trust, ProcTrust, Compared, Cleared, Agreeing, Written,
       InSidecar, InOpened, Writing, Says
  <2>. QED
    BY <1>1, <1>2, <2>2, <2>3, <2>5, LocalStep
<1>5. CASE i[p] <= Len(TokenOrder) /\ Declared(p)
  <2>. DEFINE body == File(ver[p][Sidecar(p)], FALSE, FALSE)
  <2>1. CreateTemp(p, Sidecar(p), ver[p][Sidecar(p)]) /\ i' = i
    BY <1>3, <1>5, Orders DEF WriteSidecar
  <2>2. /\ Arrays' /\ (\A q \in Procs : q # p => Unmoved(q))
        /\ at'[p] = "payload" /\ i'[p] = i[p] /\ ver'[p] = ver[p]
        /\ tmp'[p] = [path |-> Sidecar(p), file |-> body]
    BY <1>1, <2>1 DEF IInv, Base, Arrays, Go, CreateTemp, Unmoved
  <2>3. i[p] \in DOMAIN TokenOrder /\ Sidecar(p) \in Tokens /\ Sidecar(p) \notin Slots
    BY <1>3, <1>5, Orders DEF Sidecar
  <2>4. body \in Contents(Sidecar(p)) /\ tmp'[p] # None
    <3>1. ver[p][Sidecar(p)] \in Values
      BY <1>3, <1>5 DEF Declared, Values
    <3>2. body \in Contents(Sidecar(p))
      BY <2>3, <3>1 DEF Contents, File
    <3>3. tmp'[p] # None
      <4>. HIDE DEF body
      <4>. QED
        BY <2>2, <2>3, <3>2, TempNotNone DEF Paths
    <3>. QED
      BY <3>2, <3>3
  <2>5. TempOK(p)'
    BY <1>5, <2>2, <2>3, <2>4 DEF TempOK, Paths, Sidecar, Declared, File
  <2>6. ProcOK(p)'
    BY <1>1, <1>3, <2>2, <2>4, <2>5, NoneAssumption DEF IInv, Base, ProcOK, Positions, Writing
  <2>7. InSidecar(p)' /\ ~InOpened(p)'
    BY <2>2, <2>3 DEF InSidecar, InOpened, Writing
  <2>8. ~cut => ProcTrust(p)'
    BY <1>1, <1>3, <2>2, <2>7 DEF IInv, Trust, ProcTrust, Compared, Cleared, Agreeing, Written, Says
  <2>. QED
    BY <1>1, <1>2, <2>2, <2>6, <2>8, LocalStep
<1>6. CASE i[p] <= Len(TokenOrder) /\ ~Declared(p)
  <2>1. Count(p, i[p] + 1) /\ at' = at /\ tmp' = tmp
    BY <1>3, <1>6, Orders DEF WriteSidecar
  <2>2. /\ Arrays' /\ (\A q \in Procs : q # p => Unmoved(q))
        /\ at'[p] = "sidecar" /\ i'[p] = i[p] + 1 /\ ver'[p] = ver[p] /\ tmp'[p] = None
    BY <1>1, <1>3, <2>1 DEF IInv, Base, Arrays, Count, Unmoved
  <2>3. ProcOK(p)'
    BY <1>1, <1>3, <1>6, <2>2, Orders DEF IInv, Base, ProcOK, Positions, Writing
  <2>4. InSidecar(p)' /\ ~InOpened(p)'
    BY <2>2 DEF InSidecar, InOpened, Writing
  <2>5. ~cut => Written(p)'
    <3> SUFFICES ASSUME ~cut, NEW j \in DOMAIN TokenOrder, j < i[p] + 1,
                        TokenOrder[j] \in DOMAIN ver[p]
                 PROVE  Says(TokenOrder[j], ver[p])
      BY <1>1, <2>2, <2>4 DEF Written, Says
    <3>1. j # i[p]
      BY <1>6 DEF Declared, Sidecar
    <3>2. j < i[p]
      BY <1>3, <3>1, Orders
    <3>. QED
      BY <1>3, <3>2 DEF IInv, Trust, ProcTrust, Written
  <2>6. ~cut => ProcTrust(p)'
    BY <1>1, <1>3, <2>2, <2>4, <2>5 DEF IInv, Trust, ProcTrust, Compared, Cleared, Agreeing
  <2>. QED
    BY <1>1, <1>2, <2>2, <2>3, <2>6, LocalStep
<1>. QED
  BY <1>3, <1>4, <1>5, <1>6, Orders

LEMMA WriteEntryStep == ASSUME IInv, NEW p \in Procs, WriteEntry(p) PROVE IInv'
<1>1. /\ at[p] = "opened" /\ files' = files /\ cut' = cut /\ starts' = starts /\ stops' = stops
      /\ ver' = ver /\ i' = i
  BY DEF WriteEntry
<1>2. PICK f \in Slots : CreateTemp(p, f, ver[p])
  BY DEF WriteEntry
<1>3. Bounds'
  BY <1>1 DEF IInv, Base, Bounds
<1>4. ver[p] \in Versions /\ InOpened(p)
  BY <1>1 DEF IInv, Base, ProcOK, Writing, InOpened
<1>. DEFINE body == File(ver[p], FALSE, FALSE)
<1>5. /\ Arrays' /\ (\A q \in Procs : q # p => Unmoved(q))
      /\ at'[p] = "payload" /\ i'[p] = i[p] /\ ver'[p] = ver[p]
      /\ tmp'[p] = [path |-> f, file |-> body]
  BY <1>1, <1>2 DEF IInv, Base, Arrays, Go, CreateTemp, Unmoved
<1>6. body \in Contents(f) /\ body.val = ver[p]
  BY <1>4 DEF Contents, File
<1>7. f \notin Tokens /\ f \in Paths
  BY Orders DEF Paths
<1>8. TempOK(p)' /\ tmp'[p] # None
  <2>. HIDE DEF body
  <2>. QED
    BY <1>5, <1>6, <1>7, TempNotNone DEF TempOK
<1>9. ProcOK(p)'
  BY <1>1, <1>4, <1>5, <1>8, NoneAssumption DEF IInv, Base, ProcOK, Positions, Writing
<1>10. InOpened(p)' /\ ~InSidecar(p)'
  BY <1>5, <1>7 DEF InOpened, InSidecar, Writing
<1>11. ~cut => ProcTrust(p)'
  BY <1>1, <1>4, <1>5, <1>10 DEF IInv, Trust, ProcTrust, Compared, Cleared, Agreeing, Written, Says
<1>. QED
  BY <1>1, <1>3, <1>5, <1>9, <1>11, LocalStep

\* The payload and the sync: the temporary file becomes whole, then durable.
LEMMA FillStep == ASSUME IInv, NEW p \in Procs, Payload(p) \/ Sync(p) PROVE IInv'
<1>1. /\ at[p] \in {"payload", "sync"} /\ files' = files /\ cut' = cut /\ starts' = starts
      /\ stops' = stops /\ ver' = ver /\ i' = i
  BY DEF Payload, Sync
<1>2. Bounds'
  BY <1>1 DEF IInv, Base, Bounds
<1>3. /\ TempOK(p) /\ ver[p] \in Versions /\ tmp[p].path \in Paths
      /\ tmp[p].file \in Contents(tmp[p].path)
  BY <1>1 DEF IInv, Base, ProcOK, TempOK, Writing
<1>. DEFINE t == tmp[p]
            body == IF at[p] = "payload" THEN [t.file EXCEPT !.whole = TRUE]
                                         ELSE [t.file EXCEPT !.synced = TRUE]
<1>4. tmp' = [tmp EXCEPT ![p] = [t EXCEPT !.file = body]]
  BY DEF Payload, Sync
<1>5. at' = [at EXCEPT ![p] = IF at[p] = "payload" THEN "sync" ELSE "rename"]
  BY DEF Payload, Sync, Go
<1>6. /\ Arrays' /\ (\A q \in Procs : q # p => Unmoved(q))
      /\ at'[p] = (IF at[p] = "payload" THEN "sync" ELSE "rename")
      /\ i'[p] = i[p] /\ ver'[p] = ver[p] /\ tmp'[p] = [t EXCEPT !.file = body]
  BY <1>1, <1>4, <1>5 DEF IInv, Base, Arrays, Unmoved
<1>7. tmp'[p] = [path |-> t.path, file |-> body]
  BY <1>3, <1>6 DEF TempOK
<1>8. /\ body \in Contents(t.path) /\ body.val = t.file.val
      /\ body.whole /\ (at[p] = "sync" => body.synced)
  <2>1. t.file = [val |-> t.file.val, whole |-> t.file.whole, synced |-> t.file.synced]
    BY <1>3 DEF Contents
  <2>2. CASE at[p] = "payload"
    BY <1>3, <2>1, <2>2 DEF Contents
  <2>3. CASE at[p] = "sync"
    <3>1. t.file.whole
      BY <1>3, <2>3 DEF TempOK
    <3>. QED
      BY <1>3, <2>1, <2>3, <3>1 DEF Contents
  <2>. QED
    BY <1>1, <2>2, <2>3
<1>9. TempOK(p)' /\ tmp'[p] # None
  <2>. HIDE DEF body
  <2>. QED
    BY <1>1, <1>3, <1>6, <1>7, <1>8, TempNotNone DEF TempOK, Sidecar, Declared
<1>10. ProcOK(p)'
  BY <1>1, <1>3, <1>6, <1>9, NoneAssumption DEF IInv, Base, ProcOK, Positions, Writing
<1>11. InOpened(p)' = InOpened(p) /\ InSidecar(p)' = InSidecar(p)
  BY <1>1, <1>6, <1>7 DEF InOpened, InSidecar, Writing
<1>12. ~cut => ProcTrust(p)'
  BY <1>1, <1>6, <1>11 DEF IInv, Trust, ProcTrust, Compared, Cleared, Agreeing, Written, Says
<1>. QED
  BY <1>1, <1>2, <1>6, <1>10, <1>12, LocalStep

-----------------------------------------------------------------------------
(* Steps that change files.                                                  *)

\* An entry goes: what was said of the others stays true.
LEMMA EntryRemoved ==
  ASSUME IInv, NEW g \in Slots, files' = [files EXCEPT ![g] = None],
         UNCHANGED <<at, ver, i, tmp, starts, stops>>, cut' = cut
  PROVE  IInv'
<1>1. /\ \A f \in Paths : files'[f] = IF f = g THEN None ELSE files[f]
      /\ files' = [f \in Paths |-> files'[f]]
  BY DEF IInv, Base, FilesOK, Paths
<1>2. FilesOK'
  BY <1>1 DEF IInv, Base, FilesOK
<1>3. Arrays' /\ SameVersion' /\ Bounds' /\ (cut \in BOOLEAN)'
  BY DEF IInv, Base, Arrays, SameVersion, Bounds
<1>4. \A q \in Procs : ProcOK(q)'
  BY DEF IInv, Base, ProcOK, TempOK, Sidecar, Declared
<1>5. ASSUME ~cut, Vouched PROVE Vouched'
  <2> SUFFICES ASSUME NEW f \in Slots, files'[f] # None, NEW t \in DOMAIN files'[f].val
               PROVE  files'[t] # None /\ files'[t].val = files'[f].val[t]
    BY DEF Vouched, Says
  <2>1. f # g /\ files'[f] = files[f] /\ files[f].val \in Versions
    BY <1>1 DEF IInv, Base, FilesOK, Contents, Paths
  <2>2. t \in Paths /\ t # g
    BY <2>1, Orders DEF Paths
  <2>. QED
    BY <1>1, <1>5, <2>1, <2>2 DEF Vouched, Says
<1>6. ASSUME NEW q \in Procs, ProcTrust(q) PROVE ProcTrust(q)'
  <2>1. \A f \in Slots : files'[f] # None => files[f] # None /\ files'[f] = files[f]
    BY <1>1 DEF Paths
  <2>2. \A t \in Tokens : files'[t] = files[t]
    BY <1>1, Orders DEF Paths
  <2>3. InSidecar(q)' = InSidecar(q) /\ InOpened(q)' = InOpened(q)
    BY DEF InSidecar, InOpened
  <2>4. Compared(q)' /\ Agreeing(q)'
    BY <1>6, <2>1, <2>3 DEF ProcTrust, Compared, Agreeing
  <2>5. Cleared(q)'
    BY <1>6, <2>1, Orders DEF ProcTrust, Cleared
  <2>6. InOpened(q) => ver[q] \in Versions
    BY DEF IInv, Base, ProcOK, InOpened, Writing
  <2>7. Written(q)'
    BY <1>6, <2>2, <2>3, <2>6, Orders DEF ProcTrust, Written, Says
  <2>. QED
    BY <2>4, <2>5, <2>7 DEF ProcTrust
<1>. QED
  BY <1>2, <1>3, <1>4, <1>5, <1>6 DEF IInv, Base, Trust

\* nukeEntries takes an entry, or goes on when the area is empty.
LEMMA NukeStep == ASSUME IInv, NEW p \in Procs, Nuke(p) PROVE IInv'
<1>1. /\ at[p] = "nuke" /\ cut' = cut /\ starts' = starts /\ stops' = stops
      /\ ver' = ver /\ tmp' = tmp
  BY DEF Nuke
<1>2. Bounds'
  BY <1>1 DEF IInv, Base, Bounds
<1>3. tmp[p] = None /\ i[p] \in 1..(Len(NukeOrder) + 1) /\ ver[p] \in Versions /\ at[p] \notin Writing
  BY <1>1 DEF IInv, Base, ProcOK, Writing
<1>4. CASE i[p] > Len(NukeOrder)
  <2>1. Go(p, "sidecar") /\ Count(p, 1) /\ files' = files
    BY <1>4 DEF Nuke
  <2>2. /\ Arrays' /\ (\A q \in Procs : q # p => Unmoved(q))
        /\ at'[p] = "sidecar" /\ i'[p] = 1 /\ ver'[p] = ver[p] /\ tmp'[p] = None
    BY <1>1, <1>3, <2>1 DEF IInv, Base, Arrays, Go, Count, Unmoved
  <2>3. ProcOK(p)'
    BY <1>1, <2>2, Orders DEF IInv, Base, ProcOK, Positions, Writing
  <2>4. ~cut => \A f \in Slots : files[f] # None => Agree(files[f].val, ver[p])
    <3> SUFFICES ASSUME ~cut, NEW f \in Slots, files[f] # None PROVE Agree(files[f].val, ver[p])
      OBVIOUS
    <3>1. PICK j \in DOMAIN NukeOrder : f \in NukeOrder[j]
      BY Orders
    <3>2. j < i[p]
      BY <1>3, <1>4, Orders
    <3>. QED
      BY <1>1, <3>1, <3>2 DEF IInv, Trust, ProcTrust, Cleared
  <2>5. ~cut => ProcTrust(p)'
    BY <1>1, <2>1, <2>2, <2>4, Orders
       DEF ProcTrust, Compared, Cleared, Agreeing, Written, InSidecar, InOpened, Writing
  <2>. QED
    BY <1>1, <1>2, <2>1, <2>2, <2>3, <2>5, LocalStep
<1>5. CASE i[p] <= Len(NukeOrder) /\ Area(p) = {}
  <2>1. Count(p, i[p] + 1) /\ files' = files /\ at' = at
    BY <1>3, <1>5, Orders DEF Nuke
  <2>2. /\ Arrays' /\ (\A q \in Procs : q # p => Unmoved(q))
        /\ at'[p] = "nuke" /\ i'[p] = i[p] + 1 /\ ver'[p] = ver[p] /\ tmp'[p] = None
    BY <1>1, <1>3, <2>1 DEF IInv, Base, Arrays, Count, Unmoved
  <2>3. ProcOK(p)'
    BY <1>1, <1>3, <1>5, <2>2, Orders DEF IInv, Base, ProcOK, Positions, Writing
  <2>4. ~cut => Cleared(p)'
    <3> SUFFICES ASSUME ~cut, NEW j \in DOMAIN NukeOrder, NEW f \in NukeOrder[j], j < i[p] + 1,
                        files[f] # None
                 PROVE  Agree(files[f].val, ver[p])
      BY <1>1, <2>1, <2>2 DEF Cleared
    <3>1. j # i[p]
      BY <1>5 DEF Area
    <3>2. j < i[p]
      BY <1>3, <3>1, Orders
    <3>. QED
      BY <1>1, <3>2 DEF IInv, Trust, ProcTrust, Cleared
  <2>5. ~cut => ProcTrust(p)'
    BY <2>2, <2>4 DEF ProcTrust, Compared, Agreeing, Written, InSidecar, InOpened, Writing
  <2>. QED
    BY <1>1, <1>2, <2>1, <2>2, <2>3, <2>5, LocalStep
<1>6. CASE i[p] <= Len(NukeOrder) /\ Area(p) # {}
  <2>1. at' = at /\ i' = i /\ \E f \in Area(p) : files' = [files EXCEPT ![f] = None]
    BY <1>3, <1>6, Orders DEF Nuke
  <2>2. PICK f \in Area(p) : files' = [files EXCEPT ![f] = None]
    BY <2>1
  <2>3. f \in Slots
    BY <1>3, <1>6, Orders DEF Area
  <2>. QED
    BY <1>1, <2>1, <2>2, <2>3, EntryRemoved
<1>. QED
  BY <1>3, <1>4, <1>5, <1>6, Orders

\* The new file and where its writer goes on.
LEMMA RenameFacts ==
  ASSUME IInv, NEW p \in Procs, Rename(p)
  PROVE  /\ at[p] = "rename" /\ TempOK(p) /\ ver[p] \in Versions
         /\ \A f \in Paths : files'[f] = IF f = tmp[p].path THEN tmp[p].file ELSE files[f]
         /\ FilesOK' /\ Arrays' /\ Bounds' /\ (cut \in BOOLEAN)' /\ cut' = cut
         /\ \A q \in Procs : q # p => Unmoved(q)
         /\ ver' = ver /\ tmp'[p] = None /\ at'[p] # "idle"
         /\ tmp[p].path \in Tokens => at'[p] = "sidecar" /\ i'[p] = i[p] + 1
         /\ tmp[p].path \in Slots => at'[p] = "opened" /\ i'[p] = i[p]
         /\ \A q \in Procs : ProcOK(q)'
<1>1. at[p] = "rename" /\ TempOK(p) /\ ver[p] \in Versions
  BY DEF Rename, IInv, Base, ProcOK, Writing
<1>2. /\ files' = [files EXCEPT ![tmp[p].path] = tmp[p].file]
      /\ tmp' = [tmp EXCEPT ![p] = None] /\ Resume(p)
      /\ UNCHANGED <<ver, cut, starts, stops>>
  BY DEF Rename
<1>3. /\ \A f \in Paths : files'[f] = IF f = tmp[p].path THEN tmp[p].file ELSE files[f]
      /\ files' = [f \in Paths |-> files'[f]]
  BY <1>1, <1>2 DEF IInv, Base, FilesOK, TempOK
<1>4. FilesOK'
  BY <1>1, <1>3 DEF IInv, Base, FilesOK, TempOK
<1>5. Bounds' /\ (cut \in BOOLEAN)' /\ cut' = cut
  BY <1>2 DEF IInv, Base, Bounds
<1>6. /\ Arrays' /\ (\A q \in Procs : q # p => Unmoved(q))
      /\ tmp'[p] = None /\ at'[p] # "idle"
      /\ tmp[p].path \in Tokens => at'[p] = "sidecar" /\ i'[p] = i[p] + 1
      /\ tmp[p].path \in Slots => at'[p] = "opened" /\ i'[p] = i[p]
  <2>1. CASE tmp[p].path \in Tokens
    BY <1>2, <2>1, Orders DEF IInv, Base, Arrays, Unmoved, Resume, Go, Count
  <2>2. CASE tmp[p].path \notin Tokens
    BY <1>2, <2>2, Orders DEF IInv, Base, Arrays, Unmoved, Resume, Go, Count
  <2>. QED
    BY <2>1, <2>2
<1>7. ProcOK(p)'
  <2>1. tmp[p].path \in Tokens \/ tmp[p].path \in Slots
    BY <1>1 DEF TempOK, Paths
  <2>2. tmp[p].path \in Tokens => i[p] \in DOMAIN TokenOrder
    BY <1>1 DEF TempOK
  <2>. QED
    BY <1>1, <1>2, <1>6, <2>1, <2>2, Orders, NoneAssumption DEF IInv, Base, ProcOK, Positions, Writing
<1>8. \A q \in Procs : q # p => ProcOK(q)'
  BY <1>6 DEF IInv, Base, Unmoved, ProcOK, TempOK, Sidecar, Declared
<1>. QED
  BY <1>1, <1>2, <1>3, <1>4, <1>5, <1>6, <1>7, <1>8

\* A sidecar is replaced: all entries agree with its writer, and so do the other
\* processes, which have its version.
LEMMA RenameSidecar ==
  ASSUME IInv, NEW p \in Procs, Rename(p), tmp[p].path \in Tokens, ~cut
  PROVE  Vouched' /\ \A q \in Procs : ProcTrust(q)'
<1>. DEFINE s == tmp[p].path
<1>1. /\ at[p] = "rename" /\ TempOK(p) /\ ver[p] \in Versions /\ ver' = ver
      /\ \A f \in Paths : files'[f] = IF f = s THEN tmp[p].file ELSE files[f]
      /\ \A q \in Procs : q # p => Unmoved(q)
      /\ tmp'[p] = None /\ at'[p] = "sidecar" /\ i'[p] = i[p] + 1 /\ FilesOK'
  BY RenameFacts
<1>2. /\ s \in Tokens /\ s \notin Slots /\ s \in Paths /\ s \in DOMAIN ver[p]
      /\ i[p] \in DOMAIN TokenOrder /\ s = TokenOrder[i[p]]
      /\ files'[s] # None /\ files'[s].val = ver[p][s]
  <2>1. tmp[p].file # None
    BY <1>1, NoneAssumption DEF TempOK, Paths
  <2>. QED
    BY <1>1, <2>1, Orders DEF TempOK, Sidecar, Declared, Paths
<1>3. /\ \A f \in Slots : files'[f] = files[f]
      /\ \A t \in Tokens : t # s => files'[t] = files[t]
  BY <1>1, <1>2 DEF Paths
<1>4. InSidecar(p) /\ ~InOpened(p) /\ InSidecar(p)' /\ ~InOpened(p)'
  BY <1>1, <1>2 DEF InSidecar, InOpened, Writing
<1>5. \A f \in Slots : files[f] # None => files[f].val \in Versions /\ Agree(files[f].val, ver[p])
  BY <1>4 DEF IInv, Base, FilesOK, Contents, Paths, Trust, ProcTrust, Agreeing
<1>6. Vouched'
  <2> SUFFICES ASSUME NEW f \in Slots, files[f] # None, NEW t \in DOMAIN files[f].val
               PROVE  files'[t] # None /\ files'[t].val = files[f].val[t]
    BY <1>3 DEF Vouched, Says
  <2>1. CASE t = s
    BY <1>2, <1>5, <2>1 DEF Agree
  <2>2. CASE t # s
    <3>1. t \in Tokens
      BY <1>5, Orders
    <3>. QED
      BY <1>3, <2>2, <3>1 DEF IInv, Trust, Vouched, Says
  <2>. QED
    BY <2>1, <2>2
<1>7. ProcTrust(p)'
  <2>1. Agreeing(p)'
    BY <1>1, <1>3, <1>5 DEF Agreeing
  <2>2. ASSUME NEW j \in DOMAIN TokenOrder, j < i[p] + 1, TokenOrder[j] \in DOMAIN ver[p]
        PROVE  files'[TokenOrder[j]] # None /\ files'[TokenOrder[j]].val = ver[p][TokenOrder[j]]
    <3>1. CASE TokenOrder[j] = s
      BY <1>2, <3>1
    <3>2. CASE TokenOrder[j] # s
      <4>1. j < i[p] /\ TokenOrder[j] \in Tokens
        BY <1>2, <2>2, <3>2, Orders
      <4>. QED
        BY <1>3, <1>4, <2>2, <3>2, <4>1 DEF IInv, Trust, ProcTrust, Written, Says
    <3>. QED
      BY <3>1, <3>2
  <2>3. Written(p)'
    BY <1>1, <1>4, <2>2 DEF Written, Says
  <2>. QED
    BY <1>1, <2>1, <2>3 DEF ProcTrust, Compared, Cleared
<1>8. ASSUME NEW q \in Procs, q # p PROVE ProcTrust(q)'
  <2>1. Unmoved(q) /\ ProcTrust(q) /\ ProcOK(q)
    BY <1>1, <1>8 DEF IInv, Base, Trust
  <2>2. InSidecar(q)' = InSidecar(q) /\ InOpened(q)' = InOpened(q)
    BY <2>1 DEF Unmoved, InSidecar, InOpened
  <2>3. Compared(q)' /\ Agreeing(q)'
    BY <1>3, <2>1, <2>2 DEF Unmoved, ProcTrust, Compared, Agreeing
  <2>4. Cleared(q)'
    BY <1>3, <2>1, Orders DEF Unmoved, ProcTrust, Cleared
  <2>5. InSidecar(q) \/ InOpened(q) => ver[q] = ver[p] /\ ver[q] \in Versions
    BY <1>1 DEF IInv, Base, SameVersion, InSidecar, InOpened, Writing
  <2>6. ASSUME InSidecar(q) \/ InOpened(q), NEW t \in DOMAIN ver[q], Says(t, ver[q])
        PROVE  files'[t] # None /\ files'[t].val = ver[q][t]
    BY <1>2, <1>3, <2>5, <2>6, Orders DEF Says
  <2>7. Written(q)'
    BY <2>1, <2>2, <2>6 DEF Unmoved, ProcTrust, Written, Says
  <2>. QED
    BY <2>3, <2>4, <2>7 DEF ProcTrust
<1>. QED
  BY <1>6, <1>7, <1>8

\* An entry of the running version is added: the sidecars say what it says.
LEMMA RenameEntry ==
  ASSUME IInv, NEW p \in Procs, Rename(p), tmp[p].path \in Slots, ~cut
  PROVE  Vouched' /\ \A q \in Procs : ProcTrust(q)'
<1>. DEFINE e == tmp[p].path
<1>1. /\ at[p] = "rename" /\ TempOK(p) /\ ver[p] \in Versions /\ ver' = ver
      /\ \A f \in Paths : files'[f] = IF f = e THEN tmp[p].file ELSE files[f]
      /\ \A q \in Procs : q # p => Unmoved(q)
      /\ tmp'[p] = None /\ at'[p] = "opened" /\ i'[p] = i[p]
  BY RenameFacts
<1>2. e \in Slots /\ e \notin Tokens /\ e \in Paths /\ files'[e].val = ver[p]
  BY <1>1, Orders DEF TempOK, Paths
<1>3. /\ \A f \in Slots : f # e => files'[f] = files[f]
      /\ \A t \in Tokens : files'[t] = files[t]
  BY <1>1, <1>2 DEF Paths
<1>4. InOpened(p) /\ ~InSidecar(p) /\ InOpened(p)' /\ ~InSidecar(p)'
  BY <1>1, <1>2 DEF InSidecar, InOpened, Writing
<1>5. \A f \in Slots : files[f] # None => files[f].val \in Versions /\ Agree(files[f].val, ver[p])
  BY <1>4 DEF IInv, Base, FilesOK, Contents, Paths, Trust, ProcTrust, Agreeing
<1>6. \A f \in Slots : files'[f] # None =>
        files'[f].val = ver[p] \/ (files[f] # None /\ files'[f] = files[f])
  BY <1>2, <1>3
<1>7. Agree(ver[p], ver[p])
  BY DEF Agree
<1>8. Vouched'
  <2> SUFFICES ASSUME NEW f \in Slots, files'[f] # None, NEW t \in DOMAIN files'[f].val
               PROVE  files'[t] # None /\ files'[t].val = files'[f].val[t]
    BY DEF Vouched, Says
  <2>1. CASE files'[f].val = ver[p]
    <3>1. t \in Tokens /\ Says(t, ver[p])
      BY <1>1, <1>4, <2>1, Orders DEF IInv, Trust, ProcTrust, Written
    <3>. QED
      BY <1>3, <2>1, <3>1 DEF Says
  <2>2. CASE files[f] # None /\ files'[f] = files[f]
    <3>1. t \in Tokens /\ Says(t, files[f].val)
      BY <1>5, <2>2, Orders DEF IInv, Trust, Vouched
    <3>. QED
      BY <1>3, <2>2, <3>1 DEF Says
  <2>. QED
    BY <1>6, <2>1, <2>2
<1>9. ASSUME NEW q \in Procs PROVE ProcTrust(q)'
  <2>1. /\ ver'[q] = ver[q] /\ (at'[q] # "idle" => ver[q] = ver[p])
        /\ (InSidecar(q) \/ InOpened(q) => ver[q] \in Versions)
    BY <1>1 DEF IInv, Base, ProcOK, SameVersion, Unmoved, InSidecar, InOpened, Writing
  <2>2. InSidecar(q)' = InSidecar(q) /\ InOpened(q)' = InOpened(q)
    BY <1>1, <1>4 DEF Unmoved, InSidecar, InOpened
  <2>3. /\ at'[q] = "check" => at[q] = "check" /\ i'[q] = i[q]
        /\ at'[q] = "nuke" => at[q] = "nuke" /\ i'[q] = i[q]
        /\ i'[q] = i[q]
    BY <1>1 DEF Unmoved
  <2>4. ProcTrust(q)
    BY DEF IInv, Trust
  <2>5. Compared(q)'
    BY <1>6, <2>1, <2>3, <2>4 DEF ProcTrust, Compared
  <2>6. Cleared(q)'
    BY <1>6, <1>7, <2>1, <2>3, <2>4, Orders DEF ProcTrust, Cleared
  <2>7. Agreeing(q)'
    BY <1>6, <1>7, <2>1, <2>2, <2>4 DEF ProcTrust, Agreeing, InSidecar, InOpened, Writing
  <2>8. Written(q)'
    BY <1>3, <2>1, <2>2, <2>3, <2>4, Orders DEF ProcTrust, Written, Says
  <2>. QED
    BY <2>5, <2>6, <2>7, <2>8 DEF ProcTrust
<1>. QED
  BY <1>8, <1>9

LEMMA RenameStep == ASSUME IInv, NEW p \in Procs, Rename(p) PROVE IInv'
<1>1. Base'
  <2>1. SameVersion'
    BY RenameFacts DEF IInv, Base, SameVersion, Unmoved
  <2>. QED
    BY <2>1, RenameFacts DEF Base
<1>2. tmp[p].path \in Tokens \/ tmp[p].path \in Slots
  BY RenameFacts DEF TempOK, Paths
<1>3. Trust'
  BY <1>2, RenameFacts, RenameSidecar, RenameEntry DEF Trust
<1>. QED
  BY <1>1, <1>3 DEF IInv

\* Clear takes a file.  A sidecar that goes while entries or other processes are
\* there sets cut; otherwise nothing depends on it.
LEMMA ClearStepStep == ASSUME IInv, NEW p \in Procs, ClearStep(p) PROVE IInv'
<1>1. /\ at[p] = "clear" /\ UNCHANGED <<at, ver, i, tmp, starts, stops>>
  BY DEF ClearStep
<1>2. PICK g \in Paths :
        /\ files' = [files EXCEPT ![g] = None]
        /\ cut' = (cut \/ (g \in Tokens /\ (Cached # {} \/ Others(p) # {})))
  BY DEF ClearStep, Paths
<1>3. CASE g \in Slots
  <2>1. cut' = cut
    BY <1>2, <1>3, Orders DEF IInv, Base
  <2>. QED
    BY <1>1, <1>2, <1>3, <2>1, EntryRemoved
<1>4. CASE g \in Tokens
  <2>1. /\ \A f \in Paths : files'[f] = IF f = g THEN None ELSE files[f]
        /\ files' = [f \in Paths |-> files'[f]]
    BY <1>2 DEF IInv, Base, FilesOK
  <2>2. FilesOK'
    BY <2>1 DEF IInv, Base, FilesOK
  <2>3. Arrays' /\ SameVersion' /\ Bounds'
    BY <1>1 DEF IInv, Base, Arrays, SameVersion, Bounds
  <2>4. (cut \in BOOLEAN)'
    BY <1>2 DEF IInv, Base
  <2>5. \A q \in Procs : ProcOK(q)'
    BY <1>1 DEF IInv, Base, ProcOK, TempOK, Sidecar, Declared
  <2>6. ASSUME ~cut' PROVE Vouched' /\ \A q \in Procs : ProcTrust(q)'
    <3>1. Cached = {} /\ Others(p) = {}
      BY <1>2, <1>4, <2>6
    <3>2. \A f \in Slots : files'[f] = None
      BY <2>1, <3>1 DEF Cached, Paths
    <3>3. \A q \in Procs : at'[q] \in {"idle", "clear"}
      BY <1>1, <3>1 DEF Others
    <3>4. Vouched'
      BY <3>2 DEF Vouched
    <3>. QED
      BY <3>3, <3>4 DEF ProcTrust, Compared, Cleared, Agreeing, Written, InSidecar, InOpened, Writing
  <2>. QED
    BY <2>2, <2>3, <2>4, <2>5, <2>6 DEF IInv, Base, Trust
<1>. QED
  BY <1>3, <1>4 DEF Paths

\* A process starts.  With nothing cached and nobody else at work, what a cut off
\* Clear left behind is forgotten.
LEMMA StartStep == ASSUME IInv, NEW p \in Procs, Start(p) PROVE IInv'
<1>1. /\ at[p] = "idle" /\ starts < MaxStarts /\ starts' = starts + 1 /\ stops' = stops
      /\ files' = files /\ tmp' = tmp /\ Count(p, 1)
      /\ cut' = (cut /\ (Cached # {} \/ Others(p) # {}))
  BY DEF Start
<1>2. PICK w \in Versions, l \in {"check", "clear"} :
        /\ \A q \in Others(p) : ver[q] = w
        /\ ver' = [ver EXCEPT ![p] = w] /\ Go(p, l)
  BY DEF Start
<1>3. tmp[p] = None
  BY <1>1 DEF IInv, Base, ProcOK, Writing
<1>4. /\ Arrays' /\ (\A q \in Procs : q # p => Unmoved(q))
      /\ at'[p] = l /\ i'[p] = 1 /\ ver'[p] = w /\ tmp'[p] = None
  BY <1>1, <1>2, <1>3 DEF IInv, Base, Arrays, Go, Count, Unmoved
<1>5. FilesOK'
  BY <1>1 DEF IInv, Base, FilesOK
<1>6. Bounds'
  BY <1>1, VersionedDirAssumption DEF IInv, Base, Bounds
<1>7. (cut \in BOOLEAN)'
  BY <1>1 DEF IInv, Base
<1>8. ProcOK(p)'
  BY <1>4, Orders, NoneAssumption DEF ProcOK, Positions, Writing
<1>9. \A q \in Procs : ProcOK(q)'
  BY <1>1, <1>4, <1>8, Frame DEF IInv, Base
<1>10. SameVersion'
  BY <1>2, <1>4 DEF IInv, Base, SameVersion, Unmoved, Others
<1>11. ProcTrust(p)'
  BY <1>4, Orders DEF ProcTrust, Compared, Cleared, Agreeing, Written, InSidecar, InOpened, Writing
<1>12. Trust'
  <2>1. CASE ~cut
    <3>1. Vouched /\ \A q \in Procs : ProcTrust(q)
      BY <2>1 DEF IInv, Trust
    <3>2. Vouched'
      BY <1>1, <3>1 DEF Vouched, Says
    <3>3. \A q \in Procs : ProcTrust(q)'
      BY <1>1, <1>4, <1>11, <3>1, Frame
    <3>. QED
      BY <3>2, <3>3 DEF Trust
  <2>2. CASE Cached = {} /\ Others(p) = {}
    <3>1. Vouched'
      BY <1>1, <2>2 DEF Vouched, Cached
    <3>2. \A q \in Procs : q # p => at'[q] = "idle"
      BY <1>4, <2>2 DEF Others, Unmoved
    <3>3. \A q \in Procs : ProcTrust(q)'
      BY <1>11, <3>2 DEF ProcTrust, Compared, Cleared, Agreeing, Written, InSidecar, InOpened, Writing
    <3>. QED
      BY <3>1, <3>3 DEF Trust
  <2>3. CASE cut /\ ~(Cached = {} /\ Others(p) = {})
    BY <1>1, <2>3 DEF Trust
  <2>. QED
    BY <2>1, <2>2, <2>3
<1>. QED
  BY <1>4, <1>5, <1>6, <1>7, <1>9, <1>10, <1>12 DEF IInv, Base

\* The power goes: nothing under a final name was unsynced.
LEMMA PowerLossStep == ASSUME IInv, PowerLoss PROVE IInv'
<1>1. /\ at' = [p \in Procs |-> "idle"] /\ ver' = [p \in Procs |-> None]
      /\ i' = [p \in Procs |-> 0] /\ tmp' = [p \in Procs |-> None]
      /\ stops < MaxStops /\ stops' = stops + 1 /\ starts' = starts /\ cut' = cut
  BY DEF PowerLoss
<1>2. files' = files
  <2>1. PICK lost \in SUBSET {f \in DOMAIN files : files[f] # None /\ ~files[f].synced} :
          files' = [f \in DOMAIN files |->
                      IF f \in lost THEN [files[f] EXCEPT !.whole = FALSE] ELSE files[f]]
    BY DEF PowerLoss
  <2>2. DOMAIN files = Paths /\ lost = {}
    BY DEF IInv, Base, FilesOK
  <2>. QED
    BY <2>1, <2>2 DEF IInv, Base, FilesOK
<1>3. FilesOK' /\ Arrays' /\ SameVersion'
  BY <1>1, <1>2 DEF IInv, Base, FilesOK, Arrays, SameVersion
<1>4. Bounds'
  BY <1>1, VersionedDirAssumption DEF IInv, Base, Bounds
<1>5. (cut \in BOOLEAN)'
  BY <1>1 DEF IInv, Base
<1>6. \A p \in Procs : ProcOK(p)'
  BY <1>1, Orders, NoneAssumption DEF ProcOK, Positions, Writing
<1>7. Vouched => Vouched'
  BY <1>2 DEF Vouched, Says
<1>8. \A p \in Procs : ProcTrust(p)'
  BY <1>1 DEF ProcTrust, Compared, Cleared, Agreeing, Written, InSidecar, InOpened, Writing
<1>. QED
  BY <1>1, <1>3, <1>4, <1>5, <1>6, <1>7, <1>8 DEF IInv, Base, Trust

LEMMA StutterStep == ASSUME IInv, UNCHANGED vars PROVE IInv'
<1>1. UNCHANGED <<files, at, ver, i, tmp, cut, starts, stops>>
  BY DEF vars
<1>2. FilesOK' /\ Arrays' /\ SameVersion' /\ Bounds' /\ (cut \in BOOLEAN)'
  BY <1>1 DEF IInv, Base, FilesOK, Arrays, SameVersion, Bounds
<1>3. \A p \in Procs : Unmoved(p)
  BY <1>1 DEF Unmoved
<1>4. Vouched => Vouched'
  BY <1>1 DEF Vouched, Says
<1>. QED
  BY <1>1, <1>2, <1>3, <1>4, Frame DEF IInv, Base, Trust

\* IInv is inductive: one case per action.
LEMMA NextIInv == IInv /\ [Next]_vars => IInv'
<1> SUFFICES ASSUME IInv, [Next]_vars PROVE IInv'
  OBVIOUS
<1>1. CASE UNCHANGED vars
  BY <1>1, StutterStep
<1>2. CASE PowerLoss
  BY <1>2, PowerLossStep
<1>3. ASSUME NEW p \in Procs, Start(p) \/ CheckToken(p) \/ Nuke(p) \/ WriteSidecar(p) PROVE IInv'
  BY <1>3, StartStep, CheckTokenStep, NukeStep, WriteSidecarStep
<1>4. ASSUME NEW p \in Procs, WriteEntry(p) \/ Payload(p) \/ Sync(p) \/ Rename(p) PROVE IInv'
  BY <1>4, WriteEntryStep, FillStep, RenameStep
<1>5. ASSUME NEW p \in Procs, Fail(p) \/ ClearStep(p) \/ ClearEnd(p) \/ Exit(p) \/ Kill(p) PROVE IInv'
  BY <1>5, FailStep, ClearStepStep, EndSteps
<1>. QED
  BY <1>1, <1>2, <1>3, <1>4, <1>5 DEF Next

LEMMA Inductive == Spec => []IInv
BY InitIInv, NextIInv, PTL DEF Spec

-----------------------------------------------------------------------------
\* writeAtomic, for any number of processes, kills and power failures: the
\* types hold, no temporary file is kept by a process that goes on, and no file
\* under its final name is ever incomplete.
THEOREM AtomicWrites == Spec => []FilesWhole
<1>1. IInv => FilesWhole
  BY IInvImplies DEF FilesWhole
<1>. QED
  BY <1>1, Inductive, PTL

\* Once Open has returned, no entry contradicts the opener's schema tokens,
\* whatever versions opened the directory before and wherever calls failed or
\* processes were killed (but for a Clear that was cut off).
THEOREM OpenIsTrusted == Spec => []TrustedEntries
<1>1. IInv => TrustedEntries
  BY IInvImplies
<1>. QED
  BY <1>1, Inductive, PTL

\* Open decides to remove the entries only when none is of its own version.
THEOREM ReopenKeeps == Spec => KeepsEntries
<1>1. ASSUME IInv, [Next]_vars, NEW p \in Procs, ~cut, at[p] = "check", at'[p] = "nuke",
             NEW f \in Slots, files[f] # None
      PROVE  files[f].val # ver[p]
  <2>1. CheckToken(p)
    <3>1. at' # at
      BY <1>1
    <3>2. ASSUME NEW q \in Procs, NEW l, Go(q, l), l # "nuke" PROVE FALSE
      BY <1>1, <3>2 DEF Go, IInv, Base, Arrays
    <3>3. ~PowerLoss /\ ~UNCHANGED vars
      BY <1>1, <3>1 DEF PowerLoss, vars
    <3>4. \A q \in Procs : ~Start(q) /\ ~WriteSidecar(q) /\ ~WriteEntry(q) /\ ~Payload(q) /\ ~Sync(q)
      BY <3>1, <3>2 DEF Start, WriteSidecar, WriteEntry, Payload, Sync, CreateTemp
    <3>5. \A q \in Procs : ~Nuke(q) /\ ~Rename(q) /\ ~Fail(q) /\ ~ClearStep(q)
      BY <3>1, <3>2 DEF Nuke, Rename, Resume, Fail, Leave, ClearStep
    <3>6. \A q \in Procs : ~ClearEnd(q) /\ ~Exit(q) /\ ~Kill(q)
      BY <3>2 DEF ClearEnd, Exit, Kill, Leave
    <3>7. PICK q \in Procs : CheckToken(q)
      BY <1>1, <3>3, <3>4, <3>5, <3>6 DEF Next
    <3>8. q = p
      BY <1>1, <3>7 DEF CheckToken, Go, IInv, Base, Arrays
    <3>. QED
      BY <3>7, <3>8
  <2>2. /\ i[p] <= Len(TokenOrder) /\ Declared(p) /\ files[Sidecar(p)] # None
        /\ files[Sidecar(p)].val # ver[p][Sidecar(p)] \/ ~files[Sidecar(p)].whole
        /\ i[p] \in DOMAIN TokenOrder
    <3>1. i[p] \in 1..(Len(TokenOrder) + 1)
      BY <1>1 DEF IInv, Base, ProcOK
    <3>2. ~(i[p] > Len(TokenOrder))
      BY <1>1, <2>1 DEF CheckToken, Go, IInv, Base, Arrays
    <3>3. at' # at
      BY <1>1
    <3>. QED
      BY <2>1, <3>1, <3>2, <3>3, Orders DEF CheckToken
  <2>3. files[Sidecar(p)].whole
    <3>1. Sidecar(p) \in Paths
      BY <2>2, Orders DEF Sidecar, Paths
    <3>. QED
      BY <1>1, <2>2, <3>1 DEF IInv, Base, FilesOK
  <2>4. \A t \in DOMAIN files[f].val : files[t].val = files[f].val[t]
    BY <1>1 DEF IInv, Trust, Vouched, Says
  <2>. QED
    BY <2>2, <2>3, <2>4 DEF Declared
<1>2. IInv /\ [Next]_vars =>
        [\A p \in Procs : ~cut /\ at[p] = "check" /\ at'[p] = "nuke" =>
           \A f \in Slots : files[f] # None => files[f].val # ver[p]]_vars
  BY <1>1
<1>. QED
  BY <1>2, Inductive, PTL DEF KeepsEntries, Spec

=============================================================================
