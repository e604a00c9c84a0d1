---------------------------- MODULE VersionedDir ----------------------------
(* internal/cacheutil/versioned_dir.go over internal/fsutil/atomic.go: a     *)
(* cache directory that processes of different versions open in turn, on a   *)
(* file system where each call may fail, processes are killed and the power  *)
(* goes.  Processes that run at the same time have the same version.         *)
(* Directories are not represented: a call that finds its directory missing  *)
(* is one of the calls that fail.  Directory operations are durable in order;*)
(* file contents are durable once synced.                                    *)
EXTENDS Integers, Sequences, FiniteSets

CONSTANTS Procs,      \* processes
          TokenOrder, \* names of all schema tokens, in the order they are declared
          Versions,   \* versions of the program: token -> value, for the tokens declared
          NukeOrder,  \* the cache's files: EntriesDir, then ExtraDirs, then ExtraFiles
          None,
          MaxStarts,  \* bound of process starts
          MaxStops    \* bound of kills and power failures

Tokens == {TokenOrder[i] : i \in DOMAIN TokenOrder}
Slots == UNION {NukeOrder[i] : i \in DOMAIN NukeOrder}

ASSUME VersionedDirAssumption ==
  /\ \A w \in Versions : DOMAIN w \subseteq Tokens /\ DOMAIN w # {}
  /\ \A i, j \in DOMAIN TokenOrder : TokenOrder[i] = TokenOrder[j] => i = j
  /\ TokenOrder \in Seq(Tokens) /\ NukeOrder \in Seq(SUBSET Slots)
  /\ Tokens \intersect Slots = {} /\ MaxStarts \in Nat /\ MaxStops \in Nat

VARIABLES files,  \* path -> what is there, or None
          at,     \* where each process is
          ver,    \* its version
          i,      \* its index into the tokens or the areas
          tmp,    \* the temporary file it writes, or None
          cut,    \* history: a Clear took a sidecar away from files it still
                  \* vouches for, or from a process at work
          starts, stops

vars == <<files, at, ver, i, tmp, cut, starts, stops>>

\* The contents of a file, none of it durable until it is synced.
File(v, w, s) == [val |-> v, whole |-> w, synced |-> s]

Sidecar(p) == TokenOrder[i[p]]
Declared(p) == Sidecar(p) \in DOMAIN ver[p]

Init == /\ files = [f \in Tokens \union Slots |-> None]
        /\ at = [p \in Procs |-> "idle"]
        /\ ver = [p \in Procs |-> None]
        /\ i = [p \in Procs |-> 0]
        /\ tmp = [p \in Procs |-> None]
        /\ cut = FALSE
        /\ starts = 0 /\ stops = 0

Go(p, l) == at' = [at EXCEPT ![p] = l]
Count(p, n) == i' = [i EXCEPT ![p] = n]

Cached == {f \in Slots : files[f] # None}
Others(p) == {q \in Procs \ {p} : at[q] # "idle"}

\* A process starts to Open or to Clear the directory.  Those that run have
\* the same version.
Start(p) == /\ at[p] = "idle" /\ starts < MaxStarts
            /\ \E w \in Versions, l \in {"check", "clear"} :
                 /\ \A q \in Others(p) : ver[q] = w
                 /\ ver' = [ver EXCEPT ![p] = w]
                 /\ Go(p, l)
            /\ Count(p, 1)
            /\ starts' = starts + 1
            /\ cut' = (cut /\ (Cached # {} \/ Others(p) # {}))
            /\ UNCHANGED <<files, tmp, stops>>

\* The process gives up or ends; nothing of it is left but the files.
Leave(p) == /\ Go(p, "idle")
            /\ ver' = [ver EXCEPT ![p] = None]
            /\ Count(p, 0)

\* Open's look at the next sidecar: a missing one is no mismatch.  After the
\* last one the sidecars are written.
CheckToken(p) ==
  /\ at[p] = "check"
  /\ IF i[p] > Len(TokenOrder)
     THEN Go(p, "sidecar") /\ Count(p, 1)
     ELSE LET f == files[Sidecar(p)]
              mismatch == Declared(p) /\ f # None
                          /\ (f.val # ver[p][Sidecar(p)] \/ ~f.whole)
          IN IF mismatch THEN Go(p, "nuke") /\ Count(p, 1)
             ELSE Count(p, i[p] + 1) /\ UNCHANGED at
  /\ UNCHANGED <<files, ver, tmp, cut, starts, stops>>

Area(p) == {f \in NukeOrder[i[p]] : files[f] # None}

\* Mutant: an error on the way is not passed on, and the sidecars follow.
NukeHasty(p) ==
  /\ at[p] = "nuke"
  /\ \/ Go(p, "sidecar") /\ Count(p, 1) /\ UNCHANGED files
     \/ /\ i[p] <= Len(NukeOrder) /\ UNCHANGED at
        /\ IF Area(p) = {}
           THEN Count(p, i[p] + 1) /\ UNCHANGED files
           ELSE /\ \E f \in Area(p) : files' = [files EXCEPT ![f] = None]
                /\ UNCHANGED i
  /\ UNCHANGED <<ver, tmp, cut, starts, stops>>

\* nukeEntries: RemoveAll takes the files of an area one by one, in an order of
\* its own; then the next area, and after the last one the sidecars.
Nuke(p) ==
  /\ at[p] = "nuke"
  /\ IF i[p] > Len(NukeOrder)
     THEN Go(p, "sidecar") /\ Count(p, 1) /\ UNCHANGED files
     ELSE /\ UNCHANGED at
          /\ IF Area(p) = {}
             THEN Count(p, i[p] + 1) /\ UNCHANGED files
             ELSE /\ \E f \in Area(p) : files' = [files EXCEPT ![f] = None]
                  /\ UNCHANGED i
  /\ UNCHANGED <<ver, tmp, cut, starts, stops>>

-----------------------------------------------------------------------------
(* writeAtomic: temporary file, payload, sync and close, rename.             *)
CreateTemp(p, path, v) == /\ tmp' = [tmp EXCEPT ![p] = [path |-> path, file |-> File(v, FALSE, FALSE)]]
                          /\ Go(p, "payload")

\* Mutant: a sidecar that exists is left as it is.
WriteSidecarOnce(p) ==
  /\ at[p] = "sidecar"
  /\ IF i[p] > Len(TokenOrder)
     THEN Go(p, "opened") /\ Count(p, 0) /\ UNCHANGED tmp
     ELSE IF Declared(p) /\ files[Sidecar(p)] = None
          THEN CreateTemp(p, Sidecar(p), ver[p][Sidecar(p)]) /\ UNCHANGED i
          ELSE Count(p, i[p] + 1) /\ UNCHANGED <<at, tmp>>
  /\ UNCHANGED <<files, ver, cut, starts, stops>>

\* Open writes the next sidecar, and returns after the last one.
WriteSidecar(p) ==
  /\ at[p] = "sidecar"
  /\ IF i[p] > Len(TokenOrder)
     THEN Go(p, "opened") /\ Count(p, 0) /\ UNCHANGED tmp
     ELSE IF Declared(p)
          THEN CreateTemp(p, Sidecar(p), ver[p][Sidecar(p)]) /\ UNCHANGED i
          ELSE Count(p, i[p] + 1) /\ UNCHANGED <<at, tmp>>
  /\ UNCHANGED <<files, ver, cut, starts, stops>>

\* A user of the opened cache writes one of its files.
WriteEntry(p) == /\ at[p] = "opened"
                 /\ \E f \in Slots : CreateTemp(p, f, ver[p])
                 /\ UNCHANGED <<files, ver, i, cut, starts, stops>>

Payload(p) == /\ at[p] = "payload"
              /\ tmp' = [tmp EXCEPT ![p].file.whole = TRUE]
              /\ Go(p, "sync")
              /\ UNCHANGED <<files, ver, i, cut, starts, stops>>

\* Mutant: the contents are not synced before the rename.
SyncNot(p) == /\ at[p] = "sync"
              /\ Go(p, "rename")
              /\ UNCHANGED <<files, ver, i, tmp, cut, starts, stops>>

Sync(p) == /\ at[p] = "sync"
           /\ tmp' = [tmp EXCEPT ![p].file.synced = TRUE]
           /\ Go(p, "rename")
           /\ UNCHANGED <<files, ver, i, cut, starts, stops>>

\* Where a process goes on after its write.
Resume(p) == IF tmp[p].path \in Tokens
             THEN Go(p, "sidecar") /\ Count(p, i[p] + 1)
             ELSE Go(p, "opened") /\ UNCHANGED i

Rename(p) == /\ at[p] = "rename"
             /\ files' = [files EXCEPT ![tmp[p].path] = tmp[p].file]
             /\ tmp' = [tmp EXCEPT ![p] = None]
             /\ Resume(p)
             /\ UNCHANGED <<ver, cut, starts, stops>>

Writing == {"payload", "sync", "rename"}

\* A call fails.  A write removes its temporary file and returns the error;
\* Open passes every error on, and the process goes without the cache.
Fail(p) ==
  /\ at[p] \in {"check", "nuke", "sidecar"} \union Writing
  /\ tmp' = [tmp EXCEPT ![p] = None]
  /\ IF tmp[p] # None /\ tmp[p].path \in Slots
     THEN Go(p, "opened") /\ UNCHANGED <<ver, i>>
     ELSE Leave(p)
  /\ UNCHANGED <<files, cut, starts, stops>>

-----------------------------------------------------------------------------
\* Clear: RemoveAll of the whole root, in an order of its own, until nothing
\* is left or a call fails.
ClearStep(p) ==
  /\ at[p] = "clear"
  /\ \E f \in Tokens \union Slots :
       /\ files[f] # None
       /\ files' = [files EXCEPT ![f] = None]
       /\ cut' = (cut \/ (f \in Tokens /\ (Cached # {} \/ Others(p) # {})))
  /\ UNCHANGED <<at, ver, i, tmp, starts, stops>>

ClearEnd(p) == /\ at[p] = "clear"
               /\ Leave(p)
               /\ UNCHANGED <<files, tmp, cut, starts, stops>>

Exit(p) == /\ at[p] = "opened"
           /\ Leave(p)
           /\ UNCHANGED <<files, tmp, cut, starts, stops>>

-----------------------------------------------------------------------------
\* The process is killed; its temporary file stays behind, under a name nobody
\* reads.
Kill(p) == /\ at[p] # "idle" /\ stops < MaxStops
           /\ Leave(p)
           /\ tmp' = [tmp EXCEPT ![p] = None]
           /\ stops' = stops + 1
           /\ UNCHANGED <<files, cut, starts>>

\* The power goes: every process ends, and a file that was not synced may have
\* lost some of its contents.
PowerLoss ==
  /\ stops < MaxStops /\ stops' = stops + 1
  /\ at' = [p \in Procs |-> "idle"]
  /\ ver' = [p \in Procs |-> None]
  /\ i' = [p \in Procs |-> 0]
  /\ tmp' = [p \in Procs |-> None]
  /\ \E lost \in SUBSET {f \in DOMAIN files : files[f] # None /\ ~files[f].synced} :
       files' = [f \in DOMAIN files |->
                   IF f \in lost THEN [files[f] EXCEPT !.whole = FALSE] ELSE files[f]]
  /\ UNCHANGED <<cut, starts>>

Next == \/ \E p \in Procs :
             \/ Start(p) \/ CheckToken(p) \/ Nuke(p) \/ WriteSidecar(p)
             \/ WriteEntry(p) \/ Payload(p) \/ Sync(p) \/ Rename(p)
             \/ Fail(p) \/ ClearStep(p) \/ ClearEnd(p) \/ Exit(p) \/ Kill(p)
        \/ PowerLoss

Spec == Init /\ [][Next]_vars

-----------------------------------------------------------------------------
Values == UNION {{w[t] : t \in DOMAIN w} : w \in Versions}
Contents(f) == [val : IF f \in Slots THEN Versions ELSE Values, whole : BOOLEAN, synced : BOOLEAN]

\* None is no version, no file and no temporary file.
ASSUME NoneAssumption ==
  /\ None \notin Versions
  /\ \A f \in Tokens \union Slots :
       None \notin Contents(f) /\ None \notin [path : {f}, file : Contents(f)]

\* Types; a process out of writeAtomic has no temporary file, whichever of its
\* calls failed (atomic.go:60).
TypeOK ==
  /\ \A f \in Tokens \union Slots : files[f] \in Contents(f) \union {None}
  /\ \A p \in Procs :
       /\ at[p] \in {"idle", "check", "nuke", "sidecar", "opened", "clear"} \union Writing
       /\ ver[p] \in Versions \union {None} /\ (ver[p] = None) = (at[p] = "idle")
       /\ i[p] \in 0..(Len(TokenOrder) + Len(NukeOrder) + 1)
       /\ (tmp[p] # None) = (at[p] \in Writing)
       /\ tmp[p] # None => tmp[p].file \in Contents(tmp[p].path)
  /\ cut \in BOOLEAN /\ starts \in 0..MaxStarts /\ stops \in 0..MaxStops

Agree(v, w) == \A t \in DOMAIN v \intersect DOMAIN w : v[t] = w[t]

\* Once Open has returned, no file of the cache was written under another value
\* of a token that both versions declare: whatever calls failed, whenever
\* processes were killed on the way, the entries of another version are gone
\* before the sidecars say otherwise (versioned_dir.go:52).  Excepted is a Clear
\* that is cut off after a sidecar went and before the entries did, or that runs
\* beside a process using the cache.
TrustedEntries == ~cut =>
  \A p \in Procs, f \in Slots :
    at[p] = "opened" /\ files[f] # None => Agree(files[f].val, ver[p])

\* No file under its final name is ever incomplete, for a reader or after a
\* power failure (atomic.go:11).
NoTornFile == \A f \in DOMAIN files : files[f] # None => files[f].whole

\* Open decides to remove the entries only when none of them is its own
\* version's: reopening with the same tokens keeps the cache, also after an
\* Open that was cut off (versioned_dir.go:28).  Exception as above.
KeepsEntries ==
  [][\A p \in Procs : ~cut /\ at[p] = "check" /\ at'[p] = "nuke" =>
       \A f \in Slots : files[f] # None => files[f].val # ver[p]]_vars

\* writeAtomic leaves no temporary file behind in a process that goes on (types)
\* and no torn file, whatever fails or stops it (atomic.go:50).
FilesWhole == TypeOK /\ NoTornFile

=============================================================================
