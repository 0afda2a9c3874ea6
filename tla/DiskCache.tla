------------------------------ MODULE DiskCache -------------------------------
(***************************************************************************)
(* The persistent kernel cache (python/swage/_runtime.py): processes that  *)
(* share one cache root look an entry up, compile on a miss, publish the   *)
(* entry through a staging directory, remove incomplete entries and trim   *)
(* the root to its bound.  One action is one file-system call, so every    *)
(* interleaving of the calls of two processes, a kill between two of them  *)
(* and an hour's stall of a process inside a call are behaviours.          *)
(*                                                                         *)
(* A directory is an object with a path.  Everything in the code goes by   *)
(* path, so every step asks which directory is there at that moment; only  *)
(* a removal keeps the directory it opened.                                *)
(***************************************************************************)
EXTENDS Integers, Sequences, FiniteSets, SequencesExt

CONSTANTS
  Procs,          \* processes that use the cache root
  Keys,           \* names of entries
  Dirs,           \* directories, and the staging paths they are made at
  MaxEntries,     \* SWAGE_CACHE_MAX_ENTRIES
  ReadOnly,       \* processes with SWAGE_CACHE_READ_ONLY=1
  NoCompile,      \* processes with SWAGE_NO_COMPILE=1
  DebrisKeys,     \* keys whose entry is incomplete at the start
  Faults,         \* the failures that may happen, of FaultKinds
  MaxCalls,       \* bound on the lookups begun
  None

Files == <<"lowered", "ptx", "metadata">>      \* in the order they are written
ReadOrder == <<"metadata", "lowered", "ptx">>  \* in the order they are read
All == {"lowered", "ptx", "metadata"}

\* An hour may pass between the calls ("hour"), or inside them too ("stall").
FaultKinds == {"kill", "read", "write", "hour", "stall"}

ASSUME DiskCacheAssumption ==
  /\ MaxEntries \in Nat \ {0} /\ MaxCalls \in Nat
  /\ ReadOnly \subseteq Procs /\ NoCompile \subseteq Procs
  /\ DebrisKeys \subseteq Keys /\ Faults \subseteq FaultKinds
  /\ IsFiniteSet(Keys)
  /\ None \notin Procs \cup Keys \cup Dirs /\ Keys \cap Dirs = {}

VARIABLES
  path,      \* of each directory: None, a key, or a staging path
  files,     \* the files in it
  content,   \* the compile whose files it holds
  mtimes,    \* the directories by modification time, oldest first
  old,       \* the directories not modified for an hour
  debris,    \* the incomplete entries that were there at the start
  taken,     \* the directories a trim removed from under a live process
  evicted,   \* the keys that were ever trimmed from the root
  \* per process: program counter, key, index of the file, files seen, contents
  \* read, its staging path, the path it sets an entry aside at, the removal in
  \* progress (path, opened directory, files left, where it returns to), the
  \* removals a trim has left and what was an hour old when it began, where a
  \* miss goes on to, _cache_off and the artifact of the call
  pc, key, i, seen, read, staging, aside, rmpath, rmdir, rmleft, rmback, stale,
  aged, victims, miss, off, artifact,
  calls

fsVars == <<path, files, content, mtimes, old, debris, taken, evicted>>
rmVars == <<rmpath, rmdir, rmleft, rmback>>
trimVars == <<stale, aged, victims>>
lookVars == <<i, seen, read>>
callVars == <<key, miss, calls>>
vars == <<fsVars, pc, lookVars, staging, aside, rmVars, trimVars, callVars, off,
          artifact>>

-----------------------------------------------------------------------------
Go(p, label) == pc' = [pc EXCEPT ![p] = label]
Put(f, p, v) == [f EXCEPT ![p] = v]

Exists(n) == \E d \in Dirs : path[d] = n
At(n) == CHOOSE d \in Dirs : path[d] = n
Holds(n, f) == Exists(n) /\ f \in files[At(n)]
AtRest == \A p \in Procs : pc[p] = "idle"
Writable_AlsoReadOnly(p) == "write" \notin off[p]
Writable(p) == "write" \notin off[p] /\ p \notin ReadOnly
NextFile(p) == IF i[p] = 3 THEN 1 ELSE i[p] + 1

\* A change in the directory d sets its modification time.
Modify(d) == /\ mtimes' = Append(SelectSeq(mtimes, LAMBDA x : x # d), d)
             /\ old' = old \ {d}

\* tempfile.mkdtemp with the staging prefix: a new directory at a new path.
Mkdtemp(d) ==
  /\ path[d] = None /\ ~Exists(d)
  /\ \A p \in Procs : d \notin {staging[p], aside[p], rmpath[p], rmdir[p]}
  /\ path' = Put(path, d, d)
  /\ files' = Put(files, d, {})
  /\ content' = Put(content, d, None)
  /\ debris' = debris \ {d} /\ taken' = taken \ {d}
  /\ UNCHANGED evicted
  /\ Modify(d)

\* os.rename of a directory: it replaces an empty directory, fails on another.
CanRename_Over(to) == TRUE
CanRename(to) == Exists(to) => files[At(to)] = {}
Rename(from, to) ==
  path' = [d \in Dirs |-> IF path[d] = from THEN to
                          ELSE IF path[d] = to THEN None ELSE path[d]]

\* shutil.rmtree(n, ignore_errors=True), then on to the label back.
Rmtree(p, n, back) ==
  IF n # None /\ Exists(n)
    THEN /\ rmpath' = Put(rmpath, p, n)
         /\ rmdir' = Put(rmdir, p, At(n))
         /\ rmleft' = Put(rmleft, p, files[At(n)])
         /\ rmback' = Put(rmback, p, back)
         /\ Go(p, "rm")
    ELSE Go(p, back) /\ UNCHANGED rmVars

RmFile(p, f) ==
  /\ pc[p] = "rm" /\ f \in rmleft[p]
  /\ files' = [files EXCEPT ![rmdir[p]] = @ \ {f}]
  /\ rmleft' = [rmleft EXCEPT ![p] = @ \ {f}]
  /\ Modify(rmdir[p])
  /\ UNCHANGED <<path, content, debris, taken, evicted, pc, lookVars, staging,
                 aside, rmpath, rmdir, rmback, trimVars, callVars, off, artifact>>

RmDir(p) ==
  LET n == rmpath[p] IN
  /\ pc[p] = "rm" /\ rmleft[p] = {}
  /\ path' = [d \in Dirs |-> IF path[d] = n /\ files[d] = {} THEN None
                                                             ELSE path[d]]
  /\ rmpath' = Put(rmpath, p, None) /\ rmdir' = Put(rmdir, p, None)
  /\ rmback' = Put(rmback, p, "idle")
  /\ Go(p, rmback[p])
  /\ UNCHANGED <<files, content, mtimes, old, debris, taken, evicted, lookVars,
                 staging, aside, rmleft, trimVars, callVars, off, artifact>>

-----------------------------------------------------------------------------
(* _read_cache_entry. *)

Lookup(p, k) ==
  /\ pc[p] = "idle" /\ calls < MaxCalls
  /\ calls' = calls + 1
  /\ key' = Put(key, p, k) /\ miss' = Put(miss, p, "compile")
  /\ staging' = Put(staging, p, None) /\ aside' = Put(aside, p, None)
  /\ artifact' = Put(artifact, p, None)
  /\ Go(p, IF "read" \in off[p] THEN "compile" ELSE "entry")
  /\ UNCHANGED <<fsVars, lookVars, rmVars, trimVars, off>>

\* A miss ends the lookup: the call compiles, or keeps what it compiled.
Miss(p) == Go(p, miss[p])

LookEntry(p) ==
  /\ pc[p] = "entry"
  /\ i' = Put(i, p, 1) /\ seen' = Put(seen, p, {}) /\ read' = Put(read, p, {})
  /\ IF Exists(key[p]) THEN Go(p, "present") ELSE Miss(p)
  /\ UNCHANGED <<fsVars, staging, aside, rmVars, trimVars, callVars, off,
                 artifact>>

\* The root cannot be inspected: the process reads it no more; a call that
\* was publishing gives writing up instead.
ReadFails(p) ==
  /\ "read" \in Faults /\ pc[p] \in {"entry", "present"}
  /\ off' = [off EXCEPT ![p] = @ \cup {IF miss[p] = "compile" THEN "read"
                                                              ELSE "write"}]
  /\ Miss(p)
  /\ UNCHANGED <<fsVars, lookVars, staging, aside, rmVars, trimVars, callVars,
                 artifact>>

\* os.path.lexists of each file in turn.
LookFile(p) ==
  LET f == ReadOrder[i[p]] IN
  /\ pc[p] = "present"
  /\ seen' = [seen EXCEPT ![p] = @ \cup {x \in {f} : Holds(key[p], x)}]
  /\ i' = Put(i, p, NextFile(p))
  /\ Go(p, IF i[p] = 3 THEN "safe" ELSE "present")
  /\ UNCHANGED <<fsVars, read, staging, aside, rmVars, trimVars, callVars, off,
                 artifact>>

\* _check_safe of each file that was present; an incomplete entry is debris.
LookSafe(p) ==
  LET f == ReadOrder[i[p]] IN
  /\ pc[p] = "safe"
  /\ i' = Put(i, p, NextFile(p))
  /\ IF f \in seen[p] /\ ~Holds(key[p], f) THEN Miss(p)
     ELSE IF i[p] < 3 THEN Go(p, "safe")
     ELSE IF seen[p] = All THEN Go(p, "read")
     ELSE IF Writable(p) THEN Go(p, "debris") ELSE Miss(p)
  /\ UNCHANGED <<fsVars, seen, read, staging, aside, rmVars, trimVars, callVars,
                 off, artifact>>

\* Each file is read by path; the digests hold when all come from one compile.
ReadFile(p) ==
  LET whole == read[p] \cup {content[At(key[p])]} IN
  /\ pc[p] = "read"
  /\ IF ~Holds(key[p], ReadOrder[i[p]])
       THEN Miss(p) /\ UNCHANGED <<i, read, artifact>>
       ELSE /\ read' = Put(read, p, whole)
            /\ i' = Put(i, p, NextFile(p))
            /\ IF i[p] < 3
                 THEN Go(p, "read") /\ UNCHANGED artifact
                 ELSE IF Cardinality(whole) > 1
                 THEN Go(p, "mismatch") /\ UNCHANGED artifact
                 ELSE /\ artifact' = Put(artifact, p, content[At(key[p])])
                      /\ Go(p, "cleanup")
  /\ UNCHANGED <<fsVars, seen, staging, aside, rmVars, trimVars, callVars, off>>

\* An unsafe, unreadable or corrupt file ends the launch with a RuntimeError.
ReadRaises(p) ==
  /\ "read" \in Faults /\ pc[p] \in {"entry", "safe", "read"}
  /\ artifact' = Put(artifact, p, None)
  /\ Go(p, "cleanup")
  /\ UNCHANGED <<fsVars, lookVars, staging, aside, rmVars, trimVars, callVars,
                 off>>

-----------------------------------------------------------------------------
(* _remove_incomplete_entry. *)

DebrisMkdir(p, d) ==
  /\ pc[p] = "debris" /\ Mkdtemp(d)
  /\ aside' = Put(aside, p, d)
  /\ Go(p, "debrisRename")
  /\ UNCHANGED <<lookVars, staging, rmVars, trimVars, callVars, off, artifact>>

\* The entry, whatever it is by now, is renamed to the private path.
DebrisRename(p) ==
  /\ pc[p] = "debrisRename"
  /\ IF Exists(key[p])
       THEN Rename(key[p], aside[p]) /\ Go(p, "debrisJudge") /\ UNCHANGED rmVars
       ELSE Rmtree(p, aside[p], miss[p]) /\ UNCHANGED path
  /\ UNCHANGED <<files, content, mtimes, old, debris, taken, evicted, lookVars,
                 staging, aside, trimVars, callVars, off, artifact>>

\* Debris is removed; an entry that is complete goes back.
DebrisJudge(p) ==
  /\ pc[p] = "debrisJudge"
  /\ IF \A f \in All : Holds(aside[p], f)
       THEN Go(p, "debrisBack") /\ UNCHANGED rmVars
       ELSE Rmtree(p, aside[p], miss[p])
  /\ UNCHANGED <<fsVars, lookVars, staging, aside, trimVars, callVars, off,
                 artifact>>

\* The rename fails when the key was published in the meantime, and writing is
\* given up when the private path is gone.
DebrisBack(p) ==
  /\ pc[p] = "debrisBack"
  /\ IF Exists(aside[p]) /\ CanRename(key[p])
       THEN Rename(aside[p], key[p]) /\ Miss(p) /\ UNCHANGED rmVars
       ELSE Rmtree(p, aside[p], miss[p]) /\ UNCHANGED path
  /\ off' = IF Exists(aside[p]) THEN off
            ELSE [off EXCEPT ![p] = @ \cup {"write"}]
  /\ UNCHANGED <<files, content, mtimes, old, debris, taken, evicted, lookVars,
                 staging, aside, trimVars, callVars, artifact>>

\* A rename that the file system refuses: the private path is removed, with
\* whatever it holds, and the process publishes nothing from now on.
RenameRefused(p) ==
  /\ "write" \in Faults
  /\ pc[p] \in {"debrisRename", "debrisBack", "discardRename"}
  /\ off' = [off EXCEPT ![p] = @ \cup {"write"}]
  /\ Rmtree(p, aside[p], IF pc[p] = "discardRename" THEN "cleanup" ELSE miss[p])
  /\ UNCHANGED <<fsVars, lookVars, staging, aside, trimVars, callVars, artifact>>

-----------------------------------------------------------------------------
(* The compile in _compile_cached and _write_cache_entry. *)

\* No two compiles give the same files.
Content(p) == p

Compile(p) ==
  /\ pc[p] = "compile"
  /\ artifact' = IF p \in NoCompile THEN artifact
                                    ELSE Put(artifact, p, Content(p))
  /\ Go(p, IF p \in NoCompile \/ "read" \in off[p] \/ ~Writable(p) THEN "idle"
                                                                  ELSE "stage")
  /\ UNCHANGED <<fsVars, lookVars, staging, aside, rmVars, trimVars, callVars,
                 off>>

StageMkdir(p, d) ==
  /\ pc[p] = "stage" /\ Mkdtemp(d)
  /\ staging' = Put(staging, p, d)
  /\ i' = Put(i, p, 1)
  /\ Go(p, "write")
  /\ UNCHANGED <<seen, read, aside, rmVars, trimVars, callVars, off, artifact>>

LastFile_Early(p) == i[p] = 2
LastFile(p) == i[p] = 3

\* _atomic_write of each file in turn, while the directory is still there.
StageWrite(p) ==
  LET d == At(staging[p]) IN
  /\ pc[p] = "write" /\ Exists(staging[p])
  /\ files' = [files EXCEPT ![d] = @ \cup {Files[i[p]]}]
  /\ content' = Put(content, d, Content(p))
  /\ Modify(d)
  /\ i' = Put(i, p, NextFile(p))
  /\ Go(p, IF LastFile(p) THEN "publish" ELSE "write")
  /\ UNCHANGED <<path, debris, taken, evicted, seen, read, staging, aside,
                 rmVars, trimVars, callVars, off, artifact>>

AfterConflict_OwnCopy == "cleanup"
AfterConflict == "entry"

\* The rename publishes the entry; when the key is taken, the published entry
\* is read and used instead.
Publish(p) ==
  /\ pc[p] = "publish" /\ Exists(staging[p])
  /\ IF CanRename(key[p])
       THEN Rename(staging[p], key[p]) /\ Go(p, "trim") /\ UNCHANGED miss
       ELSE /\ miss' = Put(miss, p, "cleanup")
            /\ Go(p, AfterConflict) /\ UNCHANGED path
  /\ UNCHANGED <<files, content, mtimes, old, debris, taken, evicted, lookVars,
                 staging, aside, rmVars, trimVars, key, calls, off, artifact>>

\* The staging directory is gone: an error that its caller does not expect.
Unexpected_Conflict(p) ==
  \/ pc[p] \in {"write", "publish"} /\ ~Exists(staging[p])
  \/ pc[p] = "publish" /\ ~CanRename(key[p])
Unexpected(p) == pc[p] \in {"write", "publish"} /\ ~Exists(staging[p])

\* A call that changes the root fails, because the staging directory is gone
\* or the file system refuses: this process publishes nothing from now on.
GiveUp(p) ==
  /\ \/ Unexpected(p)
     \/ /\ "write" \in Faults
        /\ pc[p] \in {"debris", "stage", "write", "publish", "discard"}
  /\ off' = [off EXCEPT ![p] = @ \cup {"write"}]
  /\ Go(p, IF pc[p] = "debris" THEN miss[p] ELSE "cleanup")
  /\ UNCHANGED <<fsVars, lookVars, staging, aside, rmVars, trimVars, callVars,
                 artifact>>

Finally_Skipped(p) == None
Finally(p) == staging[p]

\* The staging path, if any, is removed whatever happened.
Cleanup(p) ==
  /\ pc[p] \in {"cleanup", "mismatch"}
  /\ Rmtree(p, Finally(p), "idle")
  /\ UNCHANGED <<fsVars, lookVars, staging, aside, trimVars, callVars, off,
                 artifact>>

-----------------------------------------------------------------------------
(* _trim_cache and _discard_entry. *)

\* The keys of a set by the age of their directories, oldest first.
Before(c, d) == \E m, n \in DOMAIN mtimes :
                  m < n /\ mtimes[m] = c /\ mtimes[n] = d
ByAge(ks) == {s \in [1..Cardinality(ks) -> ks] :
                \A m, n \in DOMAIN s : m < n => Before(At(s[m]), At(s[n]))}

TrimList(p) ==
  LET ks == {k \in Keys \ {key[p]} : Exists(k)}
      excess == Cardinality(ks) + 1 - MaxEntries
  IN  /\ pc[p] = "trim"
      /\ stale' = Put(stale, p, {n \in Dirs : Exists(n)})
      /\ aged' = Put(aged, p, old)
      /\ \E s \in ByAge(ks) : victims' = Put(victims, p, SubSeq(s, 1, excess))
      /\ Go(p, "trimming")
      /\ UNCHANGED <<fsVars, lookVars, staging, aside, rmVars, callVars, off,
                     artifact>>

\* First the dead staging directories, those not modified for an hour when the
\* trim began, whether or not their writer lives, then the entries over the bound.
Dead(p, n) == Exists(n) /\ At(n) \in old \cap aged[p]
InUse(n) == \E q \in Procs : pc[q] # "idle" /\ n \in {staging[q], aside[q]}

TrimNext(p) ==
  /\ pc[p] = "trimming"
  /\ IF \E n \in stale[p] : Dead(p, n)
       THEN \E n \in stale[p] :
              /\ Dead(p, n)
              /\ stale' = [stale EXCEPT ![p] = @ \ {n}]
              /\ taken' = taken \cup {d \in {At(n)} : InUse(n)}
              /\ Rmtree(p, n, "trimming")
              /\ UNCHANGED aged
       ELSE /\ stale' = Put(stale, p, {}) /\ aged' = Put(aged, p, {})
            /\ Go(p, IF victims[p] = <<>> THEN "cleanup" ELSE "discard")
            /\ UNCHANGED <<taken, rmVars>>
  /\ UNCHANGED <<path, files, content, mtimes, old, debris, evicted, lookVars,
                 staging, aside, victims, callVars, off, artifact>>

DiscardMkdir(p, d) ==
  /\ pc[p] = "discard" /\ Mkdtemp(d)
  /\ aside' = Put(aside, p, d)
  /\ Go(p, "discardRename")
  /\ UNCHANGED <<lookVars, staging, rmVars, trimVars, callVars, off, artifact>>

DiscardRename(p) ==
  LET k == Head(victims[p]) IN
  /\ pc[p] = "discardRename"
  /\ IF Exists(k)
       THEN Rename(k, aside[p]) /\ evicted' = evicted \cup {k}
       ELSE UNCHANGED <<path, evicted>>
  /\ victims' = [victims EXCEPT ![p] = Tail(@)]
  /\ Go(p, "discardRm")
  /\ UNCHANGED <<files, content, mtimes, old, debris, taken, lookVars, staging,
                 aside, rmVars, stale, aged, callVars, off, artifact>>

DiscardRm(p) ==
  /\ pc[p] = "discardRm"
  /\ Rmtree(p, aside[p], "trimming")
  /\ UNCHANGED <<fsVars, lookVars, staging, aside, trimVars, callVars, off,
                 artifact>>

-----------------------------------------------------------------------------
(* The environment. *)

\* The process is killed; another one starts with nothing in memory.
Kill(p) ==
  /\ "kill" \in Faults /\ pc[p] # "idle"
  /\ Go(p, "idle")
  /\ staging' = Put(staging, p, None) /\ aside' = Put(aside, p, None)
  /\ rmpath' = Put(rmpath, p, None) /\ rmdir' = Put(rmdir, p, None)
  /\ rmleft' = Put(rmleft, p, {}) /\ rmback' = Put(rmback, p, "idle")
  /\ stale' = Put(stale, p, {}) /\ aged' = Put(aged, p, {})
  /\ victims' = Put(victims, p, <<>>)
  /\ off' = Put(off, p, {}) /\ artifact' = Put(artifact, p, None)
  /\ UNCHANGED <<fsVars, lookVars, callVars>>

\* An hour passes without a change to d: between the calls, or while a process
\* is stalled inside one.  A trim that runs has computed its limit before.
Hour(d) ==
  /\ ("hour" \in Faults /\ AtRest) \/ "stall" \in Faults
  /\ path[d] # None /\ d \notin old
  /\ \A c \in Dirs \ old : path[c] # None => ~Before(c, d)
  /\ old' = old \cup {d}
  /\ aged' = [p \in Procs |-> aged[p] \ {d}]
  /\ UNCHANGED <<path, files, content, mtimes, debris, taken, evicted, pc,
                 lookVars, staging, aside, rmVars, stale, victims, callVars, off,
                 artifact>>

-----------------------------------------------------------------------------
Init ==
  /\ \E at \in [DebrisKeys -> Dirs], part \in (SUBSET All) \ {All} :
       /\ \A a, b \in DebrisKeys : at[a] = at[b] => a = b
       /\ debris = {at[k] : k \in DebrisKeys}
       /\ path = [d \in Dirs |-> IF \E k \in DebrisKeys : at[k] = d
                                   THEN CHOOSE k \in DebrisKeys : at[k] = d
                                   ELSE None]
       /\ files = [d \in Dirs |-> IF d \in debris THEN part ELSE {}]
       /\ mtimes = SetToSeq(debris)
  /\ content = [d \in Dirs |-> None]
  /\ old = {} /\ evicted = {} /\ taken = {}
  /\ pc = [p \in Procs |-> "idle"]
  /\ key = [p \in Procs |-> None]
  /\ i = [p \in Procs |-> 1]
  /\ seen = [p \in Procs |-> {}] /\ read = [p \in Procs |-> {}]
  /\ staging = [p \in Procs |-> None] /\ aside = [p \in Procs |-> None]
  /\ rmpath = [p \in Procs |-> None] /\ rmdir = [p \in Procs |-> None]
  /\ rmleft = [p \in Procs |-> {}] /\ rmback = [p \in Procs |-> "idle"]
  /\ stale = [p \in Procs |-> {}] /\ aged = [p \in Procs |-> {}]
  /\ victims = [p \in Procs |-> <<>>]
  /\ miss = [p \in Procs |-> "compile"]
  /\ off = [p \in Procs |-> {}]
  /\ artifact = [p \in Procs |-> None]
  /\ calls = 0

Step(p) ==
  \/ LookEntry(p) \/ ReadFails(p) \/ LookFile(p) \/ LookSafe(p) \/ ReadFile(p)
  \/ ReadRaises(p) \/ RenameRefused(p)
  \/ DebrisRename(p) \/ DebrisJudge(p) \/ DebrisBack(p)
  \/ Compile(p) \/ StageWrite(p) \/ Publish(p) \/ Cleanup(p) \/ GiveUp(p)
  \/ TrimList(p) \/ TrimNext(p) \/ DiscardRename(p) \/ DiscardRm(p) \/ RmDir(p)
  \/ \E f \in All : RmFile(p, f)
  \/ \E d \in Dirs : DebrisMkdir(p, d) \/ StageMkdir(p, d) \/ DiscardMkdir(p, d)

Next ==
  \/ \E p \in Procs : Step(p) \/ Kill(p) \/ \E k \in Keys : Lookup(p, k)
  \/ \E d \in Dirs : Hour(d)

Spec == Init /\ [][Next]_vars

-----------------------------------------------------------------------------
Labels == {"idle", "entry", "present", "safe", "read", "mismatch", "debris",
           "debrisRename", "debrisJudge", "debrisBack", "compile", "stage",
           "write", "publish", "cleanup", "trim", "trimming", "discard",
           "discardRename", "discardRm", "rm"}

\* The directories have paths and files, and no two share a path.
TypeOK ==
  /\ path \in [Dirs -> Keys \cup Dirs \cup {None}]
  /\ \A c, d \in Dirs : path[c] = path[d] /\ path[c] # None => c = d
  /\ files \in [Dirs -> SUBSET All]
  /\ content \in [Dirs -> Procs \cup {None}]
  /\ old \subseteq Dirs /\ debris \subseteq Dirs /\ taken \subseteq Dirs
  /\ evicted \subseteq Keys
  /\ pc \in [Procs -> Labels] /\ i \in [Procs -> 1..3]
  /\ off \in [Procs -> SUBSET {"read", "write"}]

\* docs/reference/runtime-environment.md: "a concurrent process sees either no
\* entry or a complete one", also when writers are killed or stall: whatever
\* stands at the name of a key is complete, except debris of an earlier release.
\* For one case the documented claim fails, and it is excepted here: a writer or
\* remover that stalls for an hour inside its call may publish, or put back, the
\* directory whose files a trim removed meanwhile.
EntryNeverPartial ==
  \A d \in Dirs : path[d] \in Keys /\ files[d] # All => d \in debris \cup taken

\* No lookup, publish, removal or trim of one process makes another one give
\* the cache up: each failure that a race can cause is expected by its caller.
RaceNeverDisablesCache == \A p \in Procs : off[p] = {}

\* A process removes every staging directory it made, whatever it raced with.
NoStagingLeftBehind == AtRest => \A d \in Dirs : path[d] \notin Dirs

\* "When several processes compile the same key, the first rename wins and the
\* other processes discard their staged copy and use the published entry": two
\* processes hold the same artifact, unless the key was evicted between them.
\* (A read-only process stages no copy and keeps what it compiled.)
OneArtifactPerKey ==
  \A p, q \in Procs \ ReadOnly :
    /\ pc[p] = "idle" /\ pc[q] = "idle" /\ key[p] = key[q]
    /\ artifact[p] # None /\ artifact[q] # None
    => artifact[p] = artifact[q] \/ key[p] \in evicted

\* A race of publishers is never taken for tampering: the files a lookup reads
\* come from two compiles only when the key was evicted meanwhile.
NoFalseMismatch == \A p \in Procs : pc[p] = "mismatch" => key[p] \in evicted

\* SWAGE_CACHE_READ_ONLY=1: "never changes the cache root": a step of such a
\* process, through every error path, leaves the directories alone.
ReadOnlyNeverWrites ==
  [][\A p \in ReadOnly : pc'[p] # pc[p] => UNCHANGED fsVars]_vars
===============================================================================
