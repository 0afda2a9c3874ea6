--------------------------- MODULE CompilerIdentity ---------------------------
(***************************************************************************)
(* The identity gate of the persistent cache (python/swage/_runtime.py).   *)
(* A process runs the code it loaded, but names cache entries after the    *)
(* files it finds on disk.  Installers rewrite and remove those files one  *)
(* at a time, before, during and after the import, the derivation of the   *)
(* identity, the lookup and the compile.  A process trusts its identity    *)
(* only while every file it names is older than the process and unchanged. *)
(*                                                                         *)
(* One action reads, stats or loads one file.  The code of a file stands   *)
(* for its contents and for what identifies them, a build id or a digest;  *)
(* the digest of a set of files is the function from the files to their    *)
(* code, Gone for a file it does not list.                                 *)
(* Times are ticks of the file system clock.                               *)
(***************************************************************************)
EXTENDS Integers, Sequences, FiniteSets, SequencesExt

CONSTANTS
  Procs,       \* processes, started or forked
  Frontend,    \* the sources of the package, in sorted order
  Lazy,        \* the sources a process loads only when it compiles
  Native,      \* the native libraries, the nanobind extension first
  Versions,    \* what the bytes of a file can be
  Kernels,     \* kernels that are launched
  Revision,    \* whether a revision is known for the sources
  MaxTick,     \* bound on the clock
  MaxUpdates,  \* bound on the changes of files
  MaxCalls,    \* bound on the cold launches of a process
  Gone, None

Sources == ToSet(Frontend)
Libraries == ToSet(Native)
Names == Sources \cup Libraries
Scanned == Frontend \o Native

ASSUME CompilerIdentityAssumption ==
  /\ MaxTick \in Nat \ {0} /\ MaxUpdates \in Nat /\ MaxCalls \in Nat
  /\ Lazy \subseteq Sources /\ Sources \cap Libraries = {}
  /\ Frontend \in Seq(Sources) \ {<<>>} /\ Native \in Seq(Libraries) \ {<<>>}
  /\ Revision \in BOOLEAN
  /\ Gone \notin Versions /\ None \notin Versions \cup Nat /\ Gone # None

VARIABLES
  clock,     \* the time
  disk,      \* of each file: its code, and _changed_ns
  updates,   \* the changes of files so far
  removed,   \* the libraries that were removed so far
  cache,     \* the published entries: kernel, key, and the code that made each
  \* per process: program counter, _PROCESS_START_NS, the code it loaded, its
  \* identity, _content_identities, whether "identity" is in _cache_off, whether
  \* the bindings are verified
  pc, started, loaded, identity, memo, off, verified,
  \* per process: the call's kernel, what the call is at, the next file to look
  \* at, the digest so far, the library in hand, the artifacts in its memory and
  \* its cold launches
  kernel, work, i, digest, hand, held, calls

world == <<clock, disk, updates, removed, cache>>
vars == <<world, pc, started, loaded, identity, memo, off, verified, kernel,
          work, i, digest, hand, held, calls>>

Put(fn, p, v) == [fn EXCEPT ![p] = v]
Nothing == [f \in Names |-> Gone]
Underived == [is |-> "underived", of |-> Nothing]
Code(f) == disk[f].code
Changed(f) == disk[f].changed

-----------------------------------------------------------------------------
(* Start of a process. *)

\* The cache is empty, or earlier processes of every version have filled it.
Earlier ==
  {[kernel |-> k, key |-> [f \in Names |-> v], by |-> [f \in Names |-> v]] :
     k \in Kernels, v \in Versions}

Init ==
  /\ clock = 1 /\ updates = 0 /\ removed = {} /\ cache \in {{}, Earlier}
  /\ \E v \in Versions : disk = [f \in Names |-> [code |-> v, changed |-> 0]]
  /\ pc = [p \in Procs |-> "off"]
  /\ started = [p \in Procs |-> None]
  /\ loaded = [p \in Procs |-> [f \in Names |-> None]]
  /\ identity = [p \in Procs |-> Underived]
  /\ memo = [p \in Procs |-> [f \in Libraries |-> None]]
  /\ off = [p \in Procs |-> FALSE]
  /\ verified = [p \in Procs |-> FALSE]
  /\ kernel = [p \in Procs |-> None]
  /\ work = [p \in Procs |-> "look"]
  /\ i = [p \in Procs |-> 1]
  /\ digest = [p \in Procs |-> Nothing]
  /\ hand = [p \in Procs |-> None]
  /\ held = [p \in Procs |-> {}]
  /\ calls = [p \in Procs |-> 0]

\* The start time is at most one tick early and never late, or unknown.
Start(p) ==
  /\ pc[p] = "off"
  /\ pc' = Put(pc, p, "import")
  /\ \E t \in {clock, clock - 1, None} : started' = Put(started, p, t)
  /\ UNCHANGED <<world, loaded, identity, memo, off, verified, kernel, work, i,
                 digest, hand, held, calls>>

\* `import swage` loads the sources one after the other.
Import(p) ==
  LET rest == {j \in i[p]..Len(Frontend) : Frontend[j] \notin Lazy} IN
  /\ pc[p] = "import"
  /\ \/ /\ rest = {}
        /\ pc' = Put(pc, p, "idle") /\ i' = Put(i, p, 1)
        /\ UNCHANGED loaded
     \/ \E j \in rest :
          /\ \A k \in rest : j <= k
          /\ loaded' = [loaded EXCEPT ![p][Frontend[j]] = Code(Frontend[j])]
          /\ i' = Put(i, p, j + 1)
          /\ pc' = Put(pc, p, IF Code(Frontend[j]) = Gone THEN "failed" ELSE "import")
  /\ UNCHANGED <<world, started, identity, memo, off, verified, kernel, work,
                 digest, hand, held, calls>>

\* A forked child inherits the start time of the process that loaded the code.
StartOfChild(p) == started[p]

Fork(p, q) ==
  /\ pc[p] = "idle" /\ pc[q] = "off"
  /\ pc' = Put(pc, q, "idle")
  /\ started' = Put(started, q, StartOfChild(p))
  /\ loaded' = Put(loaded, q, loaded[p])
  /\ identity' = Put(identity, q, identity[p])
  /\ memo' = Put(memo, q, memo[p])
  /\ off' = Put(off, q, off[p])
  /\ verified' = Put(verified, q, verified[p])
  /\ held' = Put(held, q, held[p])
  /\ calls' = Put(calls, q, calls[p])
  /\ UNCHANGED <<world, kernel, work, i, digest, hand>>

-----------------------------------------------------------------------------
(* A launch of a kernel the process does not hold, and what ends it. *)

Launch(p, k) ==
  /\ pc[p] = "idle" /\ calls[p] < MaxCalls
  /\ k \notin {a.kernel : a \in held[p]}
  /\ kernel' = Put(kernel, p, k)
  /\ calls' = [calls EXCEPT ![p] = @ + 1]
  /\ IF identity[p] = Underived
       THEN pc' = Put(pc, p, "derive") /\ work' = Put(work, p, "derive")
       ELSE pc' = Put(pc, p, "usable") /\ UNCHANGED work
  /\ UNCHANGED <<world, started, loaded, identity, memo, off, verified, i,
                 digest, hand, held>>

\* The call is over: what it was doing is forgotten.
Return(p) ==
  /\ pc' = Put(pc, p, "idle") /\ work' = Put(work, p, "look")
  /\ kernel' = Put(kernel, p, None) /\ i' = Put(i, p, 1)
  /\ digest' = Put(digest, p, Nothing) /\ hand' = Put(hand, p, None)

\* _cache_usable says no: a lookup goes on to a compile that stays in the
\* process, and a compile is over.
Unusable(p) ==
  IF work[p] = "look"
    THEN /\ pc' = Put(pc, p, "load") /\ work' = Put(work, p, "private")
         /\ i' = Put(i, p, 1) /\ digest' = Put(digest, p, Nothing)
         /\ hand' = Put(hand, p, None)
         /\ UNCHANGED kernel
    ELSE Return(p)

GiveUp(p) == off' = Put(off, p, TRUE) /\ Unusable(p)

Continue(p, label) == pc' = Put(pc, p, label) /\ UNCHANGED <<kernel, work, hand>>

-----------------------------------------------------------------------------
(* Deriving the identity, once in the life of a process. *)

\* One source is hashed, or not listed when it is gone; one that is listed and
\* gone when it is read leaves no digest, and neither does a package without a
\* source.
Derive(p) ==
  /\ pc[p] = "derive"
  /\ IF i[p] <= Len(Frontend)
       THEN LET f == Frontend[i[p]] IN
            \/ /\ digest' = [digest EXCEPT ![p][f] = Code(f)]
               /\ i' = [i EXCEPT ![p] = @ + 1]
               /\ UNCHANGED <<pc, identity>>
            \/ /\ Code(f) = Gone
               /\ identity' = [identity EXCEPT ![p].is = "no sources"]
               /\ i' = Put(i, p, Len(Frontend) + 1)
               /\ pc' = Put(pc, p, "sign")
               /\ UNCHANGED digest
       ELSE /\ identity' = IF \A f \in Sources : digest[p][f] = Gone
                             THEN [identity EXCEPT ![p].is = "no sources"]
                             ELSE identity
            /\ pc' = Put(pc, p, "sign")
            /\ UNCHANGED <<i, digest>>
  /\ UNCHANGED <<world, started, loaded, memo, off, verified, kernel, work,
                 hand, held, calls>>

\* _content_identity of one library: its stat, which may find the file in the
\* memo, its contents, and a second stat, which decides whether it is kept.
Sign(p) ==
  /\ pc[p] = "sign" /\ i[p] <= Len(Scanned)
  /\ LET f == Scanned[i[p]] IN
     IF memo[p][f] # None /\ memo[p][f].changed = Changed(f) /\ Code(f) # Gone
       THEN /\ digest' = [digest EXCEPT ![p][f] = memo[p][f].code]
            /\ i' = [i EXCEPT ![p] = @ + 1]
            /\ UNCHANGED <<pc, hand>>
       ELSE /\ hand' = Put(hand, p, [changed |-> Changed(f), code |-> Gone])
            /\ pc' = Put(pc, p, "read")
            /\ UNCHANGED <<i, digest>>
  /\ UNCHANGED <<world, started, loaded, identity, memo, off, verified, kernel,
                 work, held, calls>>

Read(p) ==
  /\ pc[p] = "read"
  /\ hand' = [hand EXCEPT ![p].code = Code(Scanned[i[p]])]
  /\ pc' = Put(pc, p, "keep")
  /\ UNCHANGED <<world, started, loaded, identity, memo, off, verified, kernel,
                 work, i, digest, held, calls>>

TooNew_Later(p, f) == Changed(f) > started[p]
TooNew(p, f) == Changed(f) >= started[p]

Keep(p) ==
  /\ pc[p] = "keep"
  /\ LET f == Scanned[i[p]] IN
     /\ digest' = [digest EXCEPT ![p][f] = hand[p].code]
     /\ memo' = IF /\ hand[p].code # Gone /\ Code(f) # Gone
                   /\ started[p] # None /\ ~TooNew(p, f)
                  THEN [memo EXCEPT ![p][f] = hand[p]] ELSE memo
  /\ i' = [i EXCEPT ![p] = @ + 1]
  /\ hand' = Put(hand, p, None) /\ pc' = Put(pc, p, "sign")
  /\ UNCHANGED <<world, started, loaded, identity, off, verified, kernel, work,
                 held, calls>>

\* Every library is looked at: the identity is complete, or compared.
Matches(p) == digest[p] = identity[p].of

Status(p) ==
  IF digest[p][Head(Native)] = Gone THEN "no compiler"
  ELSE IF identity[p].is = "underived" THEN "known" ELSE "no sources"

Signed(p) ==
  /\ pc[p] = "sign" /\ i[p] > Len(Scanned)
  /\ IF work[p] = "derive"
       THEN /\ identity' = Put(identity, p, [is |-> Status(p), of |-> digest[p]])
            /\ i' = Put(i, p, 1) /\ digest' = Put(digest, p, Nothing)
            /\ pc' = Put(pc, p, "usable") /\ work' = Put(work, p, "look")
            /\ UNCHANGED <<kernel, hand, off>>
       ELSE /\ IF Matches(p)
                 THEN /\ i' = Put(i, p, 1) /\ digest' = Put(digest, p, Nothing)
                      /\ Continue(p, IF work[p] = "look" THEN "lookup"
                                                       ELSE "publish")
                      /\ UNCHANGED off
                 ELSE GiveUp(p)
            /\ UNCHANGED identity
  /\ UNCHANGED <<world, started, loaded, memo, verified, held, calls>>

-----------------------------------------------------------------------------
(* _cache_usable: whether the identity describes the code that is loaded. *)

Usable(p) ==
  /\ pc[p] = "usable"
  /\ IF identity[p].is = "no compiler" \/ off[p]
       THEN Unusable(p) /\ UNCHANGED off
       ELSE IF identity[p].is = "no sources" \/ started[p] = None
              THEN GiveUp(p)
              ELSE Continue(p, "source") /\ UNCHANGED <<i, digest, off>>
  /\ UNCHANGED <<world, started, loaded, identity, memo, verified, held, calls>>

\* The next source is read, then asked for its age; a source that is gone is
\* not listed, or fails the check when it was listed.
CheckSource(p) ==
  /\ pc[p] = "source"
  /\ IF i[p] > Len(Frontend)
       THEN /\ \/ /\ \A f \in Sources : digest[p][f] = identity[p].of[f]
                  /\ Continue(p, "stat") /\ UNCHANGED <<i, digest, off>>
               \/ /\ \E f \in Sources : digest[p][f] # identity[p].of[f]
                  /\ GiveUp(p)
       ELSE LET f == Frontend[i[p]] IN
            \/ /\ digest' = [digest EXCEPT ![p][f] = Code(f)]
               /\ i' = IF Code(f) = Gone THEN [i EXCEPT ![p] = @ + 1] ELSE i
               /\ Continue(p, IF Code(f) = Gone THEN "source" ELSE "age")
               /\ UNCHANGED off
            \/ Code(f) = Gone /\ GiveUp(p)
  /\ UNCHANGED <<world, started, loaded, identity, memo, verified, held, calls>>

CheckAge(p) ==
  /\ pc[p] = "age"
  /\ LET f == Frontend[i[p]] IN
     IF Code(f) = Gone \/ TooNew(p, f)
       THEN GiveUp(p)
       ELSE /\ i' = [i EXCEPT ![p] = @ + 1]
            /\ Continue(p, "source") /\ UNCHANGED <<digest, off>>
  /\ UNCHANGED <<world, started, loaded, identity, memo, verified, held, calls>>

\* Every library is asked for its age before the first one is read again.
CheckLibrary(p) ==
  /\ pc[p] = "stat"
  /\ IF i[p] > Len(Scanned)
       THEN /\ i' = Put(i, p, Len(Frontend) + 1)
            /\ Continue(p, "sign") /\ UNCHANGED <<digest, off>>
       ELSE LET f == Scanned[i[p]] IN
            IF Code(f) # Gone /\ TooNew(p, f)
              THEN GiveUp(p)
              ELSE /\ i' = [i EXCEPT ![p] = @ + 1]
                   /\ Continue(p, "stat") /\ UNCHANGED <<digest, off>>
  /\ UNCHANGED <<world, started, loaded, identity, memo, verified, held, calls>>

-----------------------------------------------------------------------------
(* Lookup, compile and publish. *)

Entries(p) ==
  {e \in cache : e.kernel = kernel[p] /\ e.key = identity[p].of}

Artifact(p, by, from) == [kernel |-> kernel[p], by |-> by, from |-> from]

Lookup(p) ==
  /\ pc[p] = "lookup"
  /\ IF Entries(p) = {}
       THEN /\ work' = Put(work, p, "shared") /\ pc' = Put(pc, p, "load")
            /\ UNCHANGED <<kernel, i, digest, hand, held>>
       ELSE /\ \E e \in Entries(p) :
                 held' = [held EXCEPT ![p] = @ \cup {Artifact(p, e.by, "disk")}]
            /\ Return(p)
  /\ UNCHANGED <<world, started, loaded, identity, memo, off, verified, calls>>

\* A launch loads the sources that are imported where they are used and the
\* libraries, whenever it comes to them, and a compile loads what is missing.
Load(p, f) ==
  /\ pc[p] \in {"idle", "usable", "load"} /\ loaded[p][f] = None
  /\ IF Code(f) = Gone
       THEN pc[p] = "load" /\ Return(p) /\ UNCHANGED loaded
       ELSE /\ loaded' = [loaded EXCEPT ![p][f] = Code(f)]
            /\ UNCHANGED <<pc, kernel, work, i, digest, hand>>
  /\ UNCHANGED <<world, started, identity, memo, off, verified, held, calls>>

\* _pair_problem: the bindings record the front end they were built beside.
\* Without a revision the sources on disk must be that front end; with one, the
\* revisions and git decide.
Beside(p) == loaded[p][Head(Native)]
Fits(p) == Revision \/ \A f \in Sources : Code(f) = Beside(p)
Refusable(p) == Revision \/ ~Fits(p)

Verify(p) ==
  /\ pc[p] = "load" /\ ~verified[p]
  /\ \A f \in Names : loaded[p][f] # None
  /\ \/ /\ Fits(p)
        /\ verified' = Put(verified, p, TRUE)
        /\ UNCHANGED <<pc, kernel, work, i, digest, hand>>
     \/ Refusable(p) /\ Return(p) /\ UNCHANGED verified
  /\ UNCHANGED <<world, started, loaded, identity, memo, off, held, calls>>

\* The artifact is retained before any disk write; what may be published is
\* checked a second time.
Recheck_Skipped == "publish"
Recheck == "usable"

Compile(p) ==
  /\ pc[p] = "load" /\ verified[p]
  /\ \A f \in Names : loaded[p][f] # None
  /\ held' = [held EXCEPT ![p] = @ \cup {Artifact(p, loaded[p], "compile")}]
  /\ IF work[p] = "shared"
       THEN /\ pc' = Put(pc, p, Recheck) /\ work' = Put(work, p, "made")
            /\ UNCHANGED <<kernel, i, digest, hand>>
       ELSE Return(p)
  /\ UNCHANGED <<world, started, loaded, identity, memo, off, verified, calls>>

\* The first entry of a key stays, and a later publisher uses it.
Publish(p) ==
  /\ pc[p] = "publish"
  /\ LET own == Artifact(p, loaded[p], "compile")
         entry == [kernel |-> kernel[p], key |-> identity[p].of, by |-> loaded[p]] IN
     IF Entries(p) = {}
       THEN cache' = cache \cup {entry} /\ UNCHANGED held
       ELSE /\ \E e \in Entries(p) :
                 held' = [held EXCEPT ![p] =
                            (@ \ {own}) \cup {Artifact(p, e.by, "disk")}]
            /\ UNCHANGED cache
  /\ Return(p)
  /\ UNCHANGED <<clock, disk, updates, removed, started, loaded, identity, memo,
                 off, verified, calls>>

-----------------------------------------------------------------------------
(* The installer and the clock. *)

Install(f, v) ==
  /\ updates < MaxUpdates /\ Code(f) # v
  /\ updates' = updates + 1
  /\ disk' = [disk EXCEPT ![f] = [code |-> v, changed |-> clock]]
  /\ UNCHANGED <<clock, removed, cache, pc, started, loaded, identity, memo, off,
                 verified, kernel, work, i, digest, hand, held, calls>>

\* A file that is gone has no time.
Delete(f) ==
  /\ updates < MaxUpdates /\ Code(f) # Gone
  /\ updates' = updates + 1
  /\ disk' = [disk EXCEPT ![f] = [code |-> Gone, changed |-> 0]]
  /\ removed' = removed \cup ({f} \cap Libraries)
  /\ UNCHANGED <<clock, cache, pc, started, loaded, identity, memo, off,
                 verified, kernel, work, i, digest, hand, held, calls>>

Tick ==
  /\ clock < MaxTick
  /\ clock' = clock + 1
  /\ UNCHANGED <<disk, updates, removed, cache, pc, started, loaded, identity, memo, off,
                 verified, kernel, work, i, digest, hand, held, calls>>

-----------------------------------------------------------------------------
Step(p) ==
  \/ Start(p) \/ Import(p) \/ Derive(p) \/ Sign(p) \/ Read(p) \/ Keep(p)
  \/ Signed(p) \/ Usable(p) \/ CheckSource(p) \/ CheckAge(p) \/ CheckLibrary(p)
  \/ Lookup(p) \/ Verify(p) \/ Compile(p) \/ Publish(p)
  \/ \E f \in Lazy \cup Libraries : Load(p, f)

Next ==
  \/ \E p \in Procs : Step(p) \/ \E k \in Kernels : Launch(p, k)
  \/ \E p, q \in Procs : Fork(p, q)
  \/ \E f \in Names : Delete(f) \/ \E v \in Versions : Install(f, v)
  \/ Tick

Spec == Init /\ [][Next]_vars

-----------------------------------------------------------------------------
\* The entry published under a key was made by the code the key names, however
\* the files changed around the import, the derivation, the lookup, the load of
\* the libraries and the publish.  (A file that was removed before the identity
\* was derived is not named by it, and a library that is removed while its age
\* is asked for is back, whatever its age, when its contents are compared.)
EntryMadeByItsKey ==
  \A e \in cache : \A f \in Names :
    e.key[f] \in {Gone, e.by[f]} \/ f \in removed

\* A process that takes an entry from the cache runs the code that made it: what
\* it has loaded by then is what the entry's compiler had loaded.
ServedByOwnCode ==
  [][\A p \in Procs : \A a \in held'[p] \ held[p] :
       a.from = "disk" /\ loaded[p] = loaded'[p] /\ pc[p] # "off"
       => \A f \in Names :
            loaded[p][f] = None \/ identity[p].of[f] = Gone
            \/ a.by[f] = loaded[p][f] \/ f \in removed]_vars
===============================================================================
