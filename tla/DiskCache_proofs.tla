-------------------------- MODULE DiskCache_proofs ----------------------------
(* Proofs about the persistent kernel cache for any processes, keys and       *)
(* directories, any bound of the root and any interleaving of their calls.    *)
EXTENDS DiskCache, FiniteSetTheorems, SequenceTheorems, TLAPS

-------------------------------------------------------------------------------
(* The inductive invariant. *)

Debrising == {"debris", "debrisRename", "debrisJudge", "debrisBack"}
Staging == {"write", "publish"}
Renaming == {"debrisRename", "discardRename"}
Setting == Renaming \cup {"debrisJudge", "debrisBack", "discardRm"}

FsType ==
    /\ path \in [Dirs -> Keys \cup Dirs \cup {None}]
    /\ \A c, d \in Dirs : path[c] = path[d] /\ path[c] # None => c = d
    /\ files \in [Dirs -> SUBSET All] /\ content \in [Dirs -> Procs \cup {None}]
    /\ old \subseteq Dirs /\ debris \subseteq Dirs /\ taken \subseteq Dirs
    /\ evicted \subseteq Keys
PcType == pc \in [Procs -> Labels]
Backs == {"idle", "trimming", "compile", "cleanup"}
RmType ==
    /\ rmpath \in [Procs -> Dirs \cup {None}] /\ rmdir \in [Procs -> Dirs \cup {None}]
    /\ rmleft \in [Procs -> SUBSET All] /\ rmback \in [Procs -> Backs]
ProcessType ==
    /\ i \in [Procs -> 1..3] /\ key \in [Procs -> Keys \cup {None}]
    /\ seen \in [Procs -> SUBSET All]
    /\ read \in [Procs -> SUBSET (Procs \cup {None})]
    /\ staging \in [Procs -> Dirs \cup {None}] /\ aside \in [Procs -> Dirs \cup {None}]
    /\ stale \in [Procs -> SUBSET Dirs] /\ victims \in [Procs -> Seq(Keys)]
    /\ miss \in [Procs -> {"compile", "cleanup"}]
    /\ off \in [Procs -> SUBSET {"read", "write"}]
    /\ artifact \in [Procs -> Procs \cup {None}]
TypeInv == FsType /\ PcType /\ RmType /\ ProcessType

\* What a process has at each of its steps.
StepInv ==
    \A p \in Procs :
        /\ pc[p] # "idle" => key[p] \in Keys
        /\ pc[p] \in Staging => staging[p] \in Dirs
        /\ pc[p] \in Setting => aside[p] \in Dirs
        /\ pc[p] = "rm" => rmpath[p] \in Dirs /\ rmdir[p] \in Dirs
        /\ pc[p] \in {"discard", "discardRename"} => victims[p] # <<>>

\* No two processes have a private path in common.
NamesInv ==
    \A p, q \in Procs :
        /\ staging[p] # None => staging[p] # aside[q] /\ (p # q => staging[p] # staging[q])
        /\ aside[p] # None /\ p # q => aside[p] # aside[q]

\* The private directory that a process writes, or is about to rename an entry
\* to, is there; it is new and nobody removes it.
Works(p, n) == \/ pc[p] \in Staging /\ n = staging[p]
               \/ pc[p] \in Renaming /\ n = aside[p]
FreshInv ==
    \A p \in Procs : \A n \in Dirs : Works(p, n) =>
        /\ Exists(n) /\ \A d \in Dirs : path[d] = n => d \notin old
        /\ \A q \in Procs : pc[q] = "rm" => rmpath[q] # n

\* What has been staged.
StageInv ==
    \A p \in Procs : \A d \in Dirs : path[d] = staging[p] =>
        /\ pc[p] = "write" => /\ i[p] > 1 => "lowered" \in files[d]
                              /\ i[p] > 2 => "ptx" \in files[d]
        /\ pc[p] = "publish" => files[d] = All /\ content[d] = p

\* Complete, and not modified for an hour.
Aged(d) == d \in old /\ files[d] = All

\* A process removes the directory that is at the path it removes, if any is;
\* unless the path is its own, that one is no complete fresh directory.
RmInv ==
    \A p \in Procs : pc[p] = "rm" =>
        /\ path[rmdir[p]] \in {rmpath[p], None} /\ files[rmdir[p]] \subseteq rmleft[p]
        /\ \A d \in Dirs : path[d] = rmpath[p] => d = rmdir[p]
        /\ \/ rmpath[p] \in {staging[p], aside[p]}
           \/ rmdir[p] \in old \/ files[rmdir[p]] # All

\* A lookup has found the entry of its key incomplete.
Missed(p) ==
    \/ pc[p] = "present" /\ \E j \in 1..(i[p] - 1) : ReadOrder[j] \notin seen[p]
    \/ pc[p] = "safe" /\ seen[p] # All

\* An entry that is set aside as debris is no aged one, and it is complete when
\* it goes back.
AsideInv ==
    \A p \in Procs :
        /\ Missed(p) \/ pc[p] \in {"debris", "debrisRename"} =>
             \A d \in Dirs : path[d] = key[p] => ~Aged(d)
        /\ pc[p] \in {"debrisJudge", "debrisBack"} =>
             \A d \in Dirs : path[d] = aside[p] => ~Aged(d)
        /\ pc[p] = "debrisBack" =>
             \E d \in Dirs : path[d] = aside[p] /\ files[d] = All

\* Without stalls: what stands at the name of a key is complete, except debris.
EntryWhole ==
    \A d \in Dirs : path[d] \in Keys /\ files[d] # All => d \in debris

\* A process with a read-only cache stages and removes nothing.
ReaderInv ==
    \A p \in ReadOnly :
        /\ pc[p] \in {"idle", "entry", "present", "safe", "read", "mismatch",
                      "compile", "cleanup"}
        /\ staging[p] = None /\ miss[p] = "compile"

\* Only a failure of the file system makes a process give the cache up.
OffInv == \A p \in Procs : off[p] # {} => Faults \cap {"read", "write"} # {}

IInv == /\ TypeInv /\ StepInv /\ NamesInv /\ FreshInv /\ StageInv /\ RmInv
        /\ AsideInv /\ EntryWhole /\ ReaderInv /\ OffInv

\* What also holds when a process stalls: of a directory that no trim took from
\* under its process, what is staged of it is there, the removal that opened it
\* removes it at a path that no other process uses, and an entry is put back whole.
MayRemove(p, n) ==
    \/ n \in {staging[p], aside[p]}
    \/ \A q \in Procs : pc[q] # "idle" => n \notin {staging[q], aside[q]}
Intact(p, d) ==
    /\ path[d] = staging[p] =>
         /\ pc[p] = "write" => /\ i[p] > 1 => "lowered" \in files[d]
                               /\ i[p] > 2 => "ptx" \in files[d]
         /\ pc[p] = "publish" => files[d] = All
    /\ path[d] = aside[p] /\ pc[p] = "debrisBack" => files[d] = All
    /\ pc[p] = "rm" /\ rmdir[p] = d =>
         path[d] \in {rmpath[p], None} /\ MayRemove(p, rmpath[p])
StallInv == \A p \in Procs : \A d \in Dirs \ taken : Intact(p, d)

SInv == TypeInv /\ StepInv /\ NamesInv /\ ReaderInv /\ StallInv /\ EntryNeverPartial

-------------------------------------------------------------------------------
(* The directory at a path. *)

\* At names the one directory whose path it is.
LEMMA AtPath ==
  ASSUME TypeInv, NEW n
  PROVE  /\ Exists(n) => At(n) \in Dirs /\ path[At(n)] = n
         /\ \A d \in Dirs : path[d] = n /\ n # None => At(n) = d
<1>1. Exists(n) => At(n) \in Dirs /\ path[At(n)] = n
  BY DEF Exists, At
<1>2. \A d \in Dirs : path[d] = n /\ n # None => At(n) = d
  BY <1>1 DEF TypeInv, FsType, Exists
<1>. QED
  BY <1>1, <1>2

\* ReadOrder and Files list the three files.
LEMMA FileNames ==
  /\ All = {Files[1], Files[2], Files[3]}
  /\ All = {ReadOrder[1], ReadOrder[2], ReadOrder[3]}
  BY DEF All, Files, ReadOrder

\* The file that a process is at is one of the three of an entry.
LEMMA FileNamed ==
  ASSUME TypeInv, NEW p \in Procs
  PROVE  /\ Files[i[p]] \in All /\ ReadOrder[i[p]] \in All
         /\ i[p] \in 1..3 /\ NextFile(p) \in 1..3
<1>1. i[p] \in 1..3
  BY DEF TypeInv, ProcessType
<1>2. \A n \in 1..3 : Files[n] \in All /\ ReadOrder[n] \in All
  BY DEF All, Files, ReadOrder
<1>. QED
  BY <1>1, <1>2 DEF NextFile

\* A removal opens the directory at the path, or ends when none is there.
LEMMA RmtreeEffect ==
  ASSUME TypeInv, NEW p \in Procs, NEW n \in Dirs \cup {None}, NEW back,
         Rmtree(p, n, back)
  PROVE  \/ /\ n \in Dirs
            /\ \E d \in Dirs : /\ path[d] = n
                              /\ rmpath' = Put(rmpath, p, n)
                              /\ rmdir' = Put(rmdir, p, d)
                              /\ rmleft' = Put(rmleft, p, files[d])
                              /\ rmback' = Put(rmback, p, back)
                              /\ Go(p, "rm")
         \/ /\ n = None \/ ~Exists(n)
            /\ Go(p, back) /\ UNCHANGED rmVars
  BY AtPath DEF Rmtree

\* What a removal does to the types.
LEMMA RmtreeType ==
  ASSUME TypeInv, NEW p \in Procs, NEW n \in Dirs \cup {None}, NEW back \in Backs,
         Rmtree(p, n, back)
  PROVE  RmType'
<1>1. CASE UNCHANGED rmVars
  BY <1>1 DEF TypeInv, RmType, rmVars
<1>2. ASSUME NEW d \in Dirs, n \in Dirs, rmpath' = Put(rmpath, p, n),
             rmdir' = Put(rmdir, p, d), rmleft' = Put(rmleft, p, files[d]),
             rmback' = Put(rmback, p, back)
      PROVE  RmType'
  <2>1. files[d] \in SUBSET All
    BY DEF TypeInv, FsType
  <2>. QED
    BY <1>2, <2>1 DEF TypeInv, RmType, Put
<1>. QED
  BY <1>1, <1>2, RmtreeEffect

\* A removal goes on at one of the two steps it may go on at.
LEMMA RmtreePc ==
  ASSUME TypeInv, NEW p \in Procs, NEW n \in Dirs \cup {None}, NEW back \in Labels,
         Rmtree(p, n, back)
  PROVE  PcType'
<1>1. "rm" \in Labels
  BY DEF Labels
<1>2. Go(p, "rm") \/ Go(p, back)
  BY DEF Rmtree
<1>. QED
  BY <1>1, <1>2 DEF TypeInv, PcType, Go

\* A change in a directory makes it a new one.
LEMMA ModifyOld ==
  ASSUME NEW d, Modify(d)
  PROVE  old' = old \ {d}
  BY DEF Modify

\* A rename gives the directory at the path from the path to, and takes it from
\* the one that had it.
LEMMA RenameType ==
  ASSUME TypeInv, NEW from \in Keys \cup Dirs, NEW to \in Keys \cup Dirs,
         Rename(from, to)
  PROVE  /\ path' \in [Dirs -> Keys \cup Dirs \cup {None}]
         /\ \A c, d \in Dirs : path'[c] = path'[d] /\ path'[c] # None => c = d
  BY DiskCacheAssumption DEF Rename, TypeInv, FsType

\* A new directory is at its own path; no process has it as a path.
LEMMA MkdtempType ==
  ASSUME TypeInv, NEW d \in Dirs, Mkdtemp(d)
  PROVE  FsType'
  BY ModifyOld, DiskCacheAssumption DEF Mkdtemp, TypeInv, FsType, Put, Exists

\* A trim removes a dead staging directory, or goes on when there is none.
LEMMA TrimNextCases ==
  ASSUME NEW p \in Procs, TrimNext(p)
  PROVE  /\ pc[p] = "trimming"
         /\ \/ \E n \in stale[p] :
                 /\ Exists(n) /\ At(n) \in old
                 /\ stale' = [stale EXCEPT ![p] = stale[p] \ {n}]
                 /\ taken' = taken \cup {d \in {At(n)} : InUse(n)}
                 /\ Rmtree(p, n, "trimming")
            \/ /\ stale' = [stale EXCEPT ![p] = {}] /\ UNCHANGED rmVars
               /\ taken' = taken
               /\ Go(p, IF victims[p] = <<>> THEN "cleanup" ELSE "discard")
         /\ UNCHANGED <<path, files, content, old, debris, evicted, i, seen, read, key,
                        miss, staging, aside, victims, off, artifact>>
<1>. DEFINE G == \/ \E n \in stale[p] :
                      /\ Exists(n) /\ At(n) \in old
                      /\ stale' = [stale EXCEPT ![p] = stale[p] \ {n}]
                      /\ taken' = taken \cup {d \in {At(n)} : InUse(n)}
                      /\ Rmtree(p, n, "trimming")
                 \/ /\ stale' = [stale EXCEPT ![p] = {}] /\ UNCHANGED rmVars
                    /\ taken' = taken
                    /\ Go(p, IF victims[p] = <<>> THEN "cleanup" ELSE "discard")
<1>1. ASSUME \E n \in stale[p] : Dead(p, n) PROVE G
  <2>1. PICK n \in stale[p] : /\ Dead(p, n)
                             /\ stale' = [stale EXCEPT ![p] = @ \ {n}]
                             /\ taken' = taken \cup {d \in {At(n)} : InUse(n)}
                             /\ Rmtree(p, n, "trimming")
    BY <1>1, Zenon DEF TrimNext
  <2>2. Exists(n) /\ At(n) \in old
    BY <2>1, Zenon DEF Dead
  <2>. QED
    BY <2>1, <2>2, Zenon
<1>2. ASSUME ~\E n \in stale[p] : Dead(p, n) PROVE G
  BY <1>2, Zenon DEF TrimNext, Put
<1>3. UNCHANGED <<path, files, content, old, debris, evicted, i, seen, read, key,
                  miss, staging, aside, victims, off, artifact>>
  BY DEF TrimNext, fsVars, lookVars, callVars
<1>4. pc[p] = "trimming"
  BY DEF TrimNext
<1>. QED
  BY <1>1, <1>2, <1>3, <1>4, Zenon

\* What the other lemmas use of the types.
LEMMA Types ==
  ASSUME TypeInv
  PROVE  /\ pc \in [Procs -> Labels] /\ i \in [Procs -> 1..3]
         /\ key \in [Procs -> Keys \cup {None}]
         /\ staging \in [Procs -> Dirs \cup {None}] /\ aside \in [Procs -> Dirs \cup {None}]
         /\ rmpath \in [Procs -> Dirs \cup {None}] /\ rmdir \in [Procs -> Dirs \cup {None}]
         /\ rmleft \in [Procs -> SUBSET All] /\ rmback \in [Procs -> Backs]
         /\ miss \in [Procs -> {"compile", "cleanup"}]
         /\ \A p \in Procs : /\ stale[p] \subseteq Dirs
                             /\ miss[p] \in {"compile", "cleanup"}
                             /\ rmback[p] \in {"idle", "trimming", "compile", "cleanup"}
  BY DEF TypeInv, PcType, RmType, ProcessType, Backs

\* mkdtemp makes an empty directory at a path that nobody uses.
LEMMA MkdtempEffect ==
  ASSUME NEW d \in Dirs, Mkdtemp(d)
  PROVE  /\ path[d] = None /\ \A c \in Dirs : path[c] # d
         /\ \A p \in Procs : d \notin {staging[p], aside[p], rmpath[p], rmdir[p]}
         /\ path' = [path EXCEPT ![d] = d] /\ files' = [files EXCEPT ![d] = {}]
         /\ content' = [content EXCEPT ![d] = None] /\ debris' = debris \ {d}
         /\ taken' = taken \ {d} /\ old' = old \ {d} /\ UNCHANGED evicted
  BY ModifyOld DEF Mkdtemp, Put, Exists

\* The steps are seen through their abbreviations from here on.
USE DEF Put, Go, fsVars, lookVars, rmVars, trimVars, callVars

\* What a refused rename does: the private path is removed, and nothing else of
\* the file system changes.
LEMMA RefusedEffect ==
  ASSUME TypeInv, NEW p \in Procs, RenameRefused(p)
  PROVE  /\ pc[p] \in {"debrisRename", "debrisBack", "discardRename"}
         /\ "write" \in Faults /\ off' = [off EXCEPT ![p] = @ \cup {"write"}]
         /\ \E back \in {"compile", "cleanup"} :
              /\ back = IF pc[p] = "discardRename" THEN "cleanup" ELSE miss[p]
              /\ Rmtree(p, aside[p], back)
         /\ UNCHANGED <<path, files, content, mtimes, old, debris, taken, evicted, i,
                        seen, read, key, miss, calls, staging, aside, stale, aged,
                        victims, artifact>>
<1>1. miss[p] \in {"compile", "cleanup"}
  BY DEF TypeInv, ProcessType
<1>2. \E back \in {"compile", "cleanup"} :
        /\ back = IF pc[p] = "discardRename" THEN "cleanup" ELSE miss[p]
        /\ Rmtree(p, aside[p], back)
  BY <1>1 DEF RenameRefused
<1>. QED
  BY <1>2 DEF RenameRefused

\* What the check of one file does: it goes on with the next file, or ends.
LEMMA SafeEffect ==
  ASSUME TypeInv, NEW p \in Procs, LookSafe(p)
  PROVE  /\ pc[p] = "safe" /\ i' = [i EXCEPT ![p] = NextFile(p)]
         /\ NextFile(p) \in 1..3
         /\ \/ Go(p, miss[p])
                /\ \/ ReadOrder[i[p]] \in seen[p] /\ ~Holds(key[p], ReadOrder[i[p]])
                   \/ seen[p] # All /\ ~Writable(p)
            \/ i[p] < 3 /\ Go(p, "safe")
            \/ i[p] = 3 /\ NextFile(p) = 1 /\ seen[p] = All /\ Go(p, "read")
            \/ i[p] = 3 /\ seen[p] # All /\ Writable(p) /\ Go(p, "debris")
         /\ UNCHANGED <<path, files, content, mtimes, old, debris, taken, evicted,
                        seen, read, key, miss, calls, staging, aside, stale, aged,
                        victims, artifact, off, rmpath, rmdir, rmleft, rmback>>
<1>1. i[p] \in 1..3 /\ NextFile(p) \in 1..3 /\ (i[p] = 3 => NextFile(p) = 1)
  BY FileNamed DEF NextFile
<1>. QED
  BY <1>1 DEF LookSafe, Miss

\* A removal ends with the path free: the directory there has no files left.
LEMMA RmDirEffect ==
  ASSUME TypeInv, StepInv, RmInv, NEW p \in Procs, RmDir(p)
  PROVE  /\ pc[p] = "rm" /\ Go(p, rmback[p])
         /\ path' = [d \in Dirs |-> IF path[d] = rmpath[p] THEN None ELSE path[d]]
         /\ \A d \in Dirs : path[d] = rmpath[p] => files[d] = {}
         /\ rmpath' = Put(rmpath, p, None) /\ rmback' = Put(rmback, p, "idle")
         /\ UNCHANGED <<files, content, old, key, miss, i, seen, staging, aside>>
<1>1. pc[p] = "rm" /\ files[rmdir[p]] = {}
  BY DEF RmDir, RmInv
<1>2. \A d \in Dirs : path[d] = rmpath[p] => files[d] = {}
  BY <1>1 DEF RmInv
<1>. QED
  BY <1>1, <1>2 DEF RmDir

-------------------------------------------------------------------------------
(* The types. *)

\* The directories keep their types, and no two get the same path.
LEMMA FsTypeStep ==
  ASSUME TypeInv, StepInv, [Next]_vars
  PROVE  FsType'
<1>. USE DiskCacheAssumption
<1>1. ASSUME NEW p \in Procs, LookEntry(p)
     PROVE  FsType'
  BY <1>1, TypeInv, StepInv, ModifyOld DEF LookEntry, Miss, TypeInv, FsType, RmType,
      StepInv
<1>2. ASSUME NEW p \in Procs, ReadFails(p)
     PROVE  FsType'
  BY <1>2, TypeInv, StepInv, ModifyOld DEF ReadFails, Miss, TypeInv, FsType, RmType,
      StepInv
<1>3. ASSUME NEW p \in Procs, LookFile(p)
     PROVE  FsType'
  BY <1>3, TypeInv, StepInv, ModifyOld DEF LookFile, NextFile, Holds, TypeInv,
      FsType, RmType, StepInv
<1>4. ASSUME NEW p \in Procs, LookSafe(p)
     PROVE  FsType'
  BY <1>4, TypeInv, StepInv, ModifyOld DEF LookSafe, Miss, Holds, Writable, TypeInv,
      FsType, RmType, StepInv
<1>5. ASSUME NEW p \in Procs, ReadFile(p)
     PROVE  FsType'
  BY <1>5, TypeInv, StepInv, ModifyOld DEF ReadFile, Miss, NextFile, Holds, TypeInv,
      FsType, RmType, StepInv
<1>6. ASSUME NEW p \in Procs, DebrisRename(p)
     PROVE  FsType'
  <2>1. key[p] \in Keys \cup Dirs /\ aside[p] \in Keys \cup Dirs
    BY <1>6, TypeInv, StepInv DEF TypeInv, ProcessType, PcType, StepInv, Staging,
        Renaming, Setting, DebrisRename
  <2>2. Rename(key[p], aside[p]) \/ UNCHANGED path
    BY <1>6 DEF DebrisRename
  <2>3. UNCHANGED <<files, content, old, debris, taken>> /\ evicted' \in SUBSET Keys
    BY <1>6, <2>1, TypeInv DEF DebrisRename, TypeInv, FsType
  <2>. QED
    BY <2>1, <2>2, <2>3, RenameType, TypeInv DEF TypeInv, FsType
<1>7. ASSUME NEW p \in Procs, DebrisJudge(p)
     PROVE  FsType'
  BY <1>7, TypeInv, StepInv, ModifyOld DEF DebrisJudge, TypeInv, FsType, RmType,
      StepInv
<1>8. ASSUME NEW p \in Procs, DebrisBack(p)
     PROVE  FsType'
  <2>1. aside[p] \in Keys \cup Dirs /\ key[p] \in Keys \cup Dirs
    BY <1>8, TypeInv, StepInv DEF TypeInv, ProcessType, PcType, StepInv, Staging,
        Setting, DebrisBack
  <2>2. Rename(aside[p], key[p]) \/ UNCHANGED path
    BY <1>8 DEF DebrisBack
  <2>3. UNCHANGED <<files, content, old, debris, taken>> /\ evicted' \in SUBSET Keys
    BY <1>8, <2>1, TypeInv DEF DebrisBack, TypeInv, FsType
  <2>. QED
    BY <2>1, <2>2, <2>3, RenameType, TypeInv DEF TypeInv, FsType
<1>9. ASSUME NEW p \in Procs, Compile(p)
     PROVE  FsType'
  BY <1>9, TypeInv, StepInv, ModifyOld DEF Compile, Content, Writable, TypeInv,
      FsType, RmType, StepInv
<1>10. ASSUME NEW p \in Procs, StageWrite(p)
     PROVE  FsType'
  <2>1. staging[p] \in Dirs /\ Exists(staging[p]) /\ At(staging[p]) \in Dirs
    BY <1>10, AtPath, TypeInv, StepInv DEF StageWrite, StepInv, Staging
  <2>2. Files[i[p]] \in All
    BY TypeInv, FileNamed
  <2>3. old' = old \ {At(staging[p])}
    BY <1>10, ModifyOld DEF StageWrite
  <2>4. files' = [files EXCEPT ![At(staging[p])] = @ \cup {Files[i[p]]}]
    BY <1>10 DEF StageWrite
  <2>. QED
    BY <1>10, <2>1, <2>2, <2>3, <2>4, TypeInv DEF TypeInv, FsType, StageWrite,
        Content
<1>11. ASSUME NEW p \in Procs, Publish(p)
     PROVE  FsType'
  <2>1. staging[p] \in Keys \cup Dirs /\ key[p] \in Keys \cup Dirs
    BY <1>11, TypeInv, StepInv DEF TypeInv, ProcessType, PcType, StepInv, Staging,
        Publish
  <2>2. Rename(staging[p], key[p]) \/ UNCHANGED path
    BY <1>11 DEF Publish
  <2>3. UNCHANGED <<files, content, old, debris, taken>> /\ evicted' \in SUBSET Keys
    BY <1>11, <2>1, TypeInv DEF Publish, TypeInv, FsType
  <2>. QED
    BY <2>1, <2>2, <2>3, RenameType, TypeInv DEF TypeInv, FsType
<1>12. ASSUME NEW p \in Procs, Cleanup(p)
     PROVE  FsType'
  BY <1>12, TypeInv, StepInv, ModifyOld DEF Cleanup, TypeInv, FsType, RmType,
      StepInv
<1>13. ASSUME NEW p \in Procs, GiveUp(p)
     PROVE  FsType'
  BY <1>13, TypeInv, StepInv, ModifyOld DEF GiveUp, Unexpected, TypeInv, FsType,
      RmType, StepInv
<1>14. ASSUME NEW p \in Procs, TrimList(p)
     PROVE  FsType'
  BY <1>14, TypeInv, StepInv, ModifyOld DEF TrimList, TypeInv, FsType, RmType,
      StepInv
<1>15. ASSUME NEW p \in Procs, TrimNext(p)
     PROVE  FsType'
  <2>1. UNCHANGED <<path, files, content, old, debris, evicted>>
    BY <1>15, TrimNextCases
  <2>2. taken' \subseteq taken \cup Dirs
    BY <1>15, TrimNextCases, AtPath, TypeInv
  <2>. QED
    BY <2>1, <2>2, TypeInv DEF TypeInv, FsType
<1>16. ASSUME NEW p \in Procs, DiscardRename(p)
     PROVE  FsType'
  <2>1. Head(victims[p]) \in Keys /\ aside[p] \in Dirs
    <3>1. victims[p] \in Seq(Keys) /\ victims[p] # <<>> /\ aside[p] \in Dirs
      BY <1>16, TypeInv, StepInv DEF TypeInv, ProcessType, StepInv, Renaming,
          Setting, DiscardRename
    <3>. QED
      BY <3>1, HeadTailProperties
  <2>2. Rename(Head(victims[p]), aside[p]) \/ UNCHANGED path
    BY <1>16 DEF DiscardRename
  <2>3. UNCHANGED <<files, content, old, debris, taken>> /\ evicted' \in SUBSET Keys
    BY <1>16, <2>1, TypeInv DEF DiscardRename, TypeInv, FsType
  <2>. QED
    BY <2>1, <2>2, <2>3, RenameType, TypeInv DEF TypeInv, FsType
<1>17. ASSUME NEW p \in Procs, DiscardRm(p)
     PROVE  FsType'
  BY <1>17, TypeInv, StepInv, ModifyOld DEF DiscardRm, TypeInv, FsType, RmType,
      StepInv
<1>18. ASSUME NEW p \in Procs, RmDir(p)
     PROVE  FsType'
  BY <1>18, TypeInv, StepInv, ModifyOld DEF RmDir, TypeInv, FsType, RmType, StepInv
<1>19. ASSUME NEW p \in Procs, NEW f \in All, RmFile(p, f)
     PROVE  FsType'
  BY <1>19, TypeInv, StepInv, ModifyOld DEF RmFile, TypeInv, FsType, RmType, StepInv
<1>20. ASSUME NEW p \in Procs, NEW d \in Dirs, DebrisMkdir(p, d)
     PROVE  FsType'
  BY <1>20, MkdtempType, TypeInv DEF DebrisMkdir
<1>21. ASSUME NEW p \in Procs, NEW d \in Dirs, StageMkdir(p, d)
     PROVE  FsType'
  BY <1>21, MkdtempType, TypeInv DEF StageMkdir
<1>22. ASSUME NEW p \in Procs, NEW d \in Dirs, DiscardMkdir(p, d)
     PROVE  FsType'
  BY <1>22, MkdtempType, TypeInv DEF DiscardMkdir
<1>23. ASSUME NEW p \in Procs, Kill(p)
     PROVE  FsType'
  BY <1>23, TypeInv, StepInv, ModifyOld DEF Kill, TypeInv, FsType, RmType, StepInv
<1>24. ASSUME NEW p \in Procs, NEW k \in Keys, Lookup(p, k)
     PROVE  FsType'
  BY <1>24, TypeInv, StepInv, ModifyOld DEF Lookup, TypeInv, FsType, RmType, StepInv
<1>25. ASSUME NEW d \in Dirs, Hour(d)
     PROVE  FsType'
  BY <1>25, TypeInv, StepInv, ModifyOld DEF Hour, TypeInv, FsType, RmType, StepInv
<1>26. CASE UNCHANGED vars
  BY <1>26, TypeInv, StepInv, ModifyOld DEF vars, TypeInv, FsType, RmType, StepInv
<1>27. ASSUME NEW p \in Procs, ReadRaises(p)
     PROVE  FsType'
  BY <1>27, TypeInv, StepInv, ModifyOld DEF ReadRaises, Miss, TypeInv, FsType, RmType,
      StepInv
<1>28. ASSUME NEW p \in Procs, RenameRefused(p)
     PROVE  FsType'
  BY <1>28, TypeInv, StepInv, ModifyOld DEF RenameRefused, TypeInv, FsType, RmType,
      StepInv
<1>. QED
  BY <1>1, <1>2, <1>3, <1>4, <1>5, <1>6, <1>7, <1>8, <1>9, <1>10, <1>11, <1>12,
      <1>13, <1>14, <1>15, <1>16, <1>17, <1>18, <1>19, <1>20, <1>21, <1>22, <1>23,
      <1>24, <1>25, <1>26, <1>27, <1>28 DEF Next, Step

\* Each step of a process goes to one of its labels.
LEMMA PcTypeStep ==
  ASSUME TypeInv, StepInv, [Next]_vars
  PROVE  PcType'
<1>b. \A p \in Procs : miss[p] \in Labels /\ rmback[p] \in Labels
  BY TypeInv DEF TypeInv, ProcessType, RmType, Labels, Backs
<1>c. {"idle", "entry", "present", "safe", "read", "mismatch", "debris",
       "debrisRename", "debrisJudge", "debrisBack", "compile", "stage",
       "write", "publish", "cleanup", "trim", "trimming", "discard",
       "discardRename", "discardRm", "rm"} \subseteq Labels
  BY DEF Labels
<1>1. ASSUME NEW p \in Procs, LookEntry(p)
     PROVE  PcType'
  BY <1>1, TypeInv, <1>b, <1>c DEF LookEntry, Miss, TypeInv, PcType
<1>2. ASSUME NEW p \in Procs, ReadFails(p)
     PROVE  PcType'
  BY <1>2, TypeInv, <1>b, <1>c, RmtreePc DEF ReadFails, Miss, TypeInv, PcType,
      ProcessType
<1>3. ASSUME NEW p \in Procs, LookFile(p)
     PROVE  PcType'
  BY <1>3, TypeInv, <1>b, <1>c, RmtreePc DEF LookFile, NextFile, Holds, TypeInv,
      PcType, ProcessType
<1>4. ASSUME NEW p \in Procs, LookSafe(p)
     PROVE  PcType'
  <2>1. \E l \in Labels : Go(p, l)
    BY <1>4, <1>b, <1>c DEF LookSafe, Miss, Writable
  <2>. QED
    BY <2>1, TypeInv DEF TypeInv, PcType
<1>5. ASSUME NEW p \in Procs, ReadFile(p)
     PROVE  PcType'
  <2>1. \E l \in Labels : Go(p, l)
    BY <1>5, <1>b, <1>c DEF ReadFile, Miss
  <2>. QED
    BY <2>1, TypeInv DEF TypeInv, PcType
<1>6. ASSUME NEW p \in Procs, DebrisRename(p)
     PROVE  PcType'
  <2>1. aside[p] \in Dirs \cup {None} /\ miss[p] \in Labels
    BY <1>b, <1>c, TypeInv DEF TypeInv, ProcessType
  <2>2. Rmtree(p, aside[p], miss[p]) \/ \E l \in Labels : Go(p, l)
    BY <1>6, <1>b, <1>c DEF DebrisRename, Miss
  <2>. QED
    BY <2>1, <2>2, RmtreePc, TypeInv DEF TypeInv, PcType
<1>7. ASSUME NEW p \in Procs, DebrisJudge(p)
     PROVE  PcType'
  <2>1. aside[p] \in Dirs \cup {None} /\ miss[p] \in Labels
    BY <1>b, <1>c, TypeInv DEF TypeInv, ProcessType
  <2>2. Rmtree(p, aside[p], miss[p]) \/ \E l \in Labels : Go(p, l)
    BY <1>7, <1>b, <1>c DEF DebrisJudge, Miss
  <2>. QED
    BY <2>1, <2>2, RmtreePc, TypeInv DEF TypeInv, PcType
<1>8. ASSUME NEW p \in Procs, DebrisBack(p)
     PROVE  PcType'
  <2>1. aside[p] \in Dirs \cup {None} /\ miss[p] \in Labels
    BY <1>b, <1>c, TypeInv DEF TypeInv, ProcessType
  <2>2. Rmtree(p, aside[p], miss[p]) \/ \E l \in Labels : Go(p, l)
    BY <1>8, <1>b, <1>c DEF DebrisBack, Miss
  <2>. QED
    BY <2>1, <2>2, RmtreePc, TypeInv DEF TypeInv, PcType
<1>9. ASSUME NEW p \in Procs, Compile(p)
     PROVE  PcType'
  BY <1>9, TypeInv, <1>b, <1>c, RmtreePc DEF Compile, Content, Writable, TypeInv,
      PcType, ProcessType
<1>10. ASSUME NEW p \in Procs, StageWrite(p)
     PROVE  PcType'
  BY <1>10, TypeInv, <1>b, <1>c, RmtreePc DEF StageWrite, Content, NextFile,
      LastFile, TypeInv, PcType, ProcessType
<1>11. ASSUME NEW p \in Procs, Publish(p)
     PROVE  PcType'
  <2>1. \E l \in Labels : Go(p, l)
    BY <1>11, <1>b, <1>c DEF Publish, Miss, AfterConflict
  <2>. QED
    BY <2>1, TypeInv DEF TypeInv, PcType
<1>12. ASSUME NEW p \in Procs, Cleanup(p)
     PROVE  PcType'
  <2>1. Finally(p) \in Dirs \cup {None} /\ "idle" \in Labels
    BY <1>b, <1>c, TypeInv DEF TypeInv, ProcessType, Finally
  <2>2. Rmtree(p, Finally(p), "idle") \/ \E l \in Labels : Go(p, l)
    BY <1>12, <1>b, <1>c DEF Cleanup, Miss
  <2>. QED
    BY <2>1, <2>2, RmtreePc, TypeInv DEF TypeInv, PcType
<1>13. ASSUME NEW p \in Procs, GiveUp(p)
     PROVE  PcType'
  BY <1>13, TypeInv, <1>b, <1>c, RmtreePc DEF GiveUp, Unexpected, TypeInv, PcType,
      ProcessType
<1>14. ASSUME NEW p \in Procs, TrimList(p)
     PROVE  PcType'
  BY <1>14, TypeInv, <1>b, <1>c, RmtreePc DEF TrimList, TypeInv, PcType, ProcessType
<1>15. ASSUME NEW p \in Procs, TrimNext(p)
     PROVE  PcType'
  <2>1. \A n \in stale[p] : n \in Dirs \cup {None}
    BY TypeInv DEF TypeInv, ProcessType
  <2>2. (\E n \in stale[p] : Rmtree(p, n, "trimming")) \/ \E l \in Labels : Go(p, l)
    BY <1>15, <1>c, TrimNextCases
  <2>. QED
    BY <2>1, <2>2, <1>c, RmtreePc, TypeInv DEF TypeInv, PcType
<1>16. ASSUME NEW p \in Procs, DiscardRename(p)
     PROVE  PcType'
  BY <1>16, TypeInv, <1>b, <1>c, RmtreePc DEF DiscardRename, Rename, TypeInv,
      PcType, ProcessType
<1>17. ASSUME NEW p \in Procs, DiscardRm(p)
     PROVE  PcType'
  <2>1. aside[p] \in Dirs \cup {None} /\ "trimming" \in Labels
    BY <1>b, <1>c, TypeInv DEF TypeInv, ProcessType
  <2>2. Rmtree(p, aside[p], "trimming") \/ \E l \in Labels : Go(p, l)
    BY <1>17, <1>b, <1>c DEF DiscardRm, Miss
  <2>. QED
    BY <2>1, <2>2, RmtreePc, TypeInv DEF TypeInv, PcType
<1>18. ASSUME NEW p \in Procs, RmDir(p)
     PROVE  PcType'
  BY <1>18, TypeInv, <1>b, <1>c, RmtreePc DEF RmDir, TypeInv, PcType, ProcessType
<1>19. ASSUME NEW p \in Procs, NEW f \in All, RmFile(p, f)
     PROVE  PcType'
  BY <1>19, TypeInv, <1>b, <1>c, RmtreePc DEF RmFile, TypeInv, PcType, ProcessType
<1>20. ASSUME NEW p \in Procs, NEW d \in Dirs, DebrisMkdir(p, d)
     PROVE  PcType'
  BY <1>20, TypeInv, <1>b, <1>c, RmtreePc DEF DebrisMkdir, Mkdtemp, TypeInv, PcType,
      ProcessType
<1>21. ASSUME NEW p \in Procs, NEW d \in Dirs, StageMkdir(p, d)
     PROVE  PcType'
  BY <1>21, TypeInv, <1>b, <1>c, RmtreePc DEF StageMkdir, Mkdtemp, TypeInv, PcType,
      ProcessType
<1>22. ASSUME NEW p \in Procs, NEW d \in Dirs, DiscardMkdir(p, d)
     PROVE  PcType'
  BY <1>22, TypeInv, <1>b, <1>c, RmtreePc DEF DiscardMkdir, Mkdtemp, TypeInv,
      PcType, ProcessType
<1>23. ASSUME NEW p \in Procs, Kill(p)
     PROVE  PcType'
  BY <1>23, TypeInv, <1>b, <1>c, RmtreePc DEF Kill, TypeInv, PcType, ProcessType
<1>24. ASSUME NEW p \in Procs, NEW k \in Keys, Lookup(p, k)
     PROVE  PcType'
  BY <1>24, TypeInv, <1>b, <1>c, RmtreePc DEF Lookup, TypeInv, PcType, ProcessType
<1>25. ASSUME NEW d \in Dirs, Hour(d)
     PROVE  PcType'
  BY <1>25, TypeInv, <1>b, <1>c, RmtreePc DEF Hour, TypeInv, PcType, ProcessType
<1>26. CASE UNCHANGED vars
  BY <1>26, TypeInv, <1>b, <1>c, RmtreePc DEF vars, TypeInv, PcType, ProcessType
<1>27. ASSUME NEW p \in Procs, ReadRaises(p)
     PROVE  PcType'
  BY <1>27, TypeInv, <1>b, <1>c, RmtreePc DEF ReadRaises, Miss, TypeInv, PcType,
      ProcessType
<1>28. ASSUME NEW p \in Procs, RenameRefused(p)
     PROVE  PcType'
  <2>1. aside[p] \in Dirs \cup {None} /\ miss[p] \in Labels
    BY <1>b, <1>c, TypeInv DEF TypeInv, ProcessType
  <2>2. \E l \in Labels : Rmtree(p, aside[p], l)
    BY <1>28, <1>c, RefusedEffect, TypeInv
  <2>. QED
    BY <2>1, <2>2, RmtreePc, TypeInv
<1>. QED
  BY <1>1, <1>2, <1>3, <1>4, <1>5, <1>6, <1>7, <1>8, <1>9, <1>10, <1>11, <1>12,
      <1>13, <1>14, <1>15, <1>16, <1>17, <1>18, <1>19, <1>20, <1>21, <1>22, <1>23,
      <1>24, <1>25, <1>26, <1>27, <1>28 DEF Next, Step

\* The removal in progress keeps its type.
LEMMA RmTypeStep ==
  ASSUME TypeInv, StepInv, [Next]_vars
  PROVE  RmType'
<1>1. ASSUME NEW p \in Procs, LookEntry(p)
     PROVE  RmType'
  BY <1>1, TypeInv, StepInv, RmtreeType DEF LookEntry, Miss, TypeInv, FsType,
      RmType, ProcessType, StepInv, Backs, Staging
<1>2. ASSUME NEW p \in Procs, ReadFails(p)
     PROVE  RmType'
  BY <1>2, TypeInv, StepInv, RmtreeType DEF ReadFails, Miss, TypeInv, FsType,
      RmType, ProcessType, StepInv, Backs, Staging
<1>3. ASSUME NEW p \in Procs, LookFile(p)
     PROVE  RmType'
  BY <1>3, TypeInv, StepInv, RmtreeType DEF LookFile, NextFile, Holds, TypeInv,
      FsType, RmType, ProcessType, StepInv, Backs, Staging
<1>4. ASSUME NEW p \in Procs, LookSafe(p)
     PROVE  RmType'
  BY <1>4, TypeInv, StepInv, RmtreeType DEF LookSafe, Miss, Holds, Writable,
      TypeInv, FsType, RmType, ProcessType, StepInv, Backs, Staging
<1>5. ASSUME NEW p \in Procs, ReadFile(p)
     PROVE  RmType'
  BY <1>5, TypeInv, StepInv, RmtreeType DEF ReadFile, Miss, NextFile, Holds,
      TypeInv, FsType, RmType, ProcessType, StepInv, Backs, Staging
<1>6. ASSUME NEW p \in Procs, DebrisRename(p)
     PROVE  RmType'
  <2>1. aside[p] \in Dirs \cup {None} /\ miss[p] \in Backs
    BY TypeInv DEF TypeInv, ProcessType, Backs
  <2>2. Rmtree(p, aside[p], miss[p]) \/ UNCHANGED rmVars
    BY <1>6 DEF DebrisRename
  <2>. QED
    BY <2>1, <2>2, RmtreeType, TypeInv DEF TypeInv, RmType
<1>7. ASSUME NEW p \in Procs, DebrisJudge(p)
     PROVE  RmType'
  <2>1. aside[p] \in Dirs \cup {None} /\ miss[p] \in Backs
    BY TypeInv DEF TypeInv, ProcessType, Backs
  <2>2. Rmtree(p, aside[p], miss[p]) \/ UNCHANGED rmVars
    BY <1>7 DEF DebrisJudge
  <2>. QED
    BY <2>1, <2>2, RmtreeType, TypeInv DEF TypeInv, RmType
<1>8. ASSUME NEW p \in Procs, DebrisBack(p)
     PROVE  RmType'
  <2>1. aside[p] \in Dirs \cup {None} /\ miss[p] \in Backs
    BY TypeInv DEF TypeInv, ProcessType, Backs
  <2>2. Rmtree(p, aside[p], miss[p]) \/ UNCHANGED rmVars
    BY <1>8 DEF DebrisBack
  <2>. QED
    BY <2>1, <2>2, RmtreeType, TypeInv DEF TypeInv, RmType
<1>9. ASSUME NEW p \in Procs, Compile(p)
     PROVE  RmType'
  BY <1>9, TypeInv, StepInv, RmtreeType DEF Compile, Content, Writable, TypeInv,
      FsType, RmType, ProcessType, StepInv, Backs, Staging
<1>10. ASSUME NEW p \in Procs, StageWrite(p)
     PROVE  RmType'
  BY <1>10, TypeInv, StepInv, RmtreeType DEF StageWrite, Content, NextFile,
      LastFile, TypeInv, FsType, RmType, ProcessType, StepInv, Backs, Staging
<1>11. ASSUME NEW p \in Procs, Publish(p)
     PROVE  RmType'
  BY <1>11, TypeInv, StepInv, RmtreeType DEF Publish, CanRename, Rename,
      AfterConflict, TypeInv, FsType, RmType, ProcessType, StepInv, Backs, Staging
<1>12. ASSUME NEW p \in Procs, Cleanup(p)
     PROVE  RmType'
  BY <1>12, TypeInv, StepInv, RmtreeType DEF Cleanup, Finally, TypeInv, FsType,
      RmType, ProcessType, StepInv, Backs, Staging
<1>13. ASSUME NEW p \in Procs, GiveUp(p)
     PROVE  RmType'
  BY <1>13, TypeInv, StepInv, RmtreeType DEF GiveUp, Unexpected, TypeInv, FsType,
      RmType, ProcessType, StepInv, Backs, Staging
<1>14. ASSUME NEW p \in Procs, TrimList(p)
     PROVE  RmType'
  BY <1>14, TypeInv, StepInv, RmtreeType DEF TrimList, TypeInv, FsType, RmType,
      ProcessType, StepInv, Backs, Staging
<1>15. ASSUME NEW p \in Procs, TrimNext(p)
     PROVE  RmType'
  <2>1. \A n \in stale[p] : n \in Dirs \cup {None}
    BY TypeInv DEF TypeInv, ProcessType
  <2>2. "trimming" \in Backs
    BY DEF Backs
  <2>. QED
    BY <1>15, <2>1, <2>2, TrimNextCases, RmtreeType, TypeInv DEF TypeInv, RmType
<1>16. ASSUME NEW p \in Procs, DiscardRename(p)
     PROVE  RmType'
  BY <1>16, TypeInv, StepInv, RmtreeType DEF DiscardRename, Rename, TypeInv, FsType,
      RmType, ProcessType, StepInv, Backs, Staging
<1>17. ASSUME NEW p \in Procs, DiscardRm(p)
     PROVE  RmType'
  BY <1>17, TypeInv, StepInv, RmtreeType DEF DiscardRm, TypeInv, FsType, RmType,
      ProcessType, StepInv, Backs, Staging
<1>18. ASSUME NEW p \in Procs, RmDir(p)
     PROVE  RmType'
  BY <1>18, TypeInv, StepInv, RmtreeType DEF RmDir, TypeInv, FsType, RmType,
      ProcessType, StepInv, Backs, Staging
<1>19. ASSUME NEW p \in Procs, NEW f \in All, RmFile(p, f)
     PROVE  RmType'
  BY <1>19, TypeInv, StepInv, RmtreeType DEF RmFile, TypeInv, FsType, RmType,
      ProcessType, StepInv, Backs, Staging
<1>20. ASSUME NEW p \in Procs, NEW d \in Dirs, DebrisMkdir(p, d)
     PROVE  RmType'
  BY <1>20, TypeInv, StepInv, RmtreeType DEF DebrisMkdir, Mkdtemp, TypeInv, FsType,
      RmType, ProcessType, StepInv, Backs, Staging
<1>21. ASSUME NEW p \in Procs, NEW d \in Dirs, StageMkdir(p, d)
     PROVE  RmType'
  BY <1>21, TypeInv, StepInv, RmtreeType DEF StageMkdir, Mkdtemp, TypeInv, FsType,
      RmType, ProcessType, StepInv, Backs, Staging
<1>22. ASSUME NEW p \in Procs, NEW d \in Dirs, DiscardMkdir(p, d)
     PROVE  RmType'
  BY <1>22, TypeInv, StepInv, RmtreeType DEF DiscardMkdir, Mkdtemp, TypeInv, FsType,
      RmType, ProcessType, StepInv, Backs, Staging
<1>23. ASSUME NEW p \in Procs, Kill(p)
     PROVE  RmType'
  BY <1>23, TypeInv, StepInv, RmtreeType DEF Kill, TypeInv, FsType, RmType,
      ProcessType, StepInv, Backs, Staging
<1>24. ASSUME NEW p \in Procs, NEW k \in Keys, Lookup(p, k)
     PROVE  RmType'
  BY <1>24, TypeInv, StepInv, RmtreeType DEF Lookup, TypeInv, FsType, RmType,
      ProcessType, StepInv, Backs, Staging
<1>25. ASSUME NEW d \in Dirs, Hour(d)
     PROVE  RmType'
  BY <1>25, TypeInv, StepInv, RmtreeType DEF Hour, TypeInv, FsType, RmType,
      ProcessType, StepInv, Backs, Staging
<1>26. CASE UNCHANGED vars
  BY <1>26, TypeInv, StepInv, RmtreeType DEF vars, TypeInv, FsType, RmType,
      ProcessType, StepInv, Backs, Staging
<1>27. ASSUME NEW p \in Procs, ReadRaises(p)
     PROVE  RmType'
  BY <1>27, TypeInv, StepInv, RmtreeType DEF ReadRaises, Miss, TypeInv, FsType,
      RmType, ProcessType, StepInv, Backs, Staging
<1>28. ASSUME NEW p \in Procs, RenameRefused(p)
     PROVE  RmType'
  <2>1. aside[p] \in Dirs \cup {None} /\ miss[p] \in Backs
    BY TypeInv DEF TypeInv, ProcessType, Backs
  <2>2. \E back \in Backs : Rmtree(p, aside[p], back)
    BY <1>28, RefusedEffect, TypeInv DEF Backs
  <2>. QED
    BY <2>1, <2>2, RmtreeType, TypeInv
<1>. QED
  BY <1>1, <1>2, <1>3, <1>4, <1>5, <1>6, <1>7, <1>8, <1>9, <1>10, <1>11, <1>12,
      <1>13, <1>14, <1>15, <1>16, <1>17, <1>18, <1>19, <1>20, <1>21, <1>22, <1>23,
      <1>24, <1>25, <1>26, <1>27, <1>28 DEF Next, Step

\* The rest of what a process has keeps its type.
LEMMA ProcessTypeStep ==
  ASSUME TypeInv, StepInv, [Next]_vars
  PROVE  ProcessType'
<1>. USE DiskCacheAssumption
<1>1. ASSUME NEW p \in Procs, LookEntry(p)
     PROVE  ProcessType'
  BY <1>1, TypeInv, StepInv DEF LookEntry, Miss, TypeInv, ProcessType, RmType,
      StepInv
<1>2. ASSUME NEW p \in Procs, ReadFails(p)
     PROVE  ProcessType'
  BY <1>2, TypeInv, StepInv DEF ReadFails, Miss, TypeInv, ProcessType, RmType,
      StepInv
<1>3. ASSUME NEW p \in Procs, LookFile(p)
     PROVE  ProcessType'
  <2>1. seen' = [seen EXCEPT ![p] = @ \cup {x \in {ReadOrder[i[p]]} : Holds(key[p], x)}]
    BY <1>3 DEF LookFile
  <2>2. ReadOrder[i[p]] \in All /\ NextFile(p) \in 1..3
    BY TypeInv, FileNamed
  <2>3. seen' \in [Procs -> SUBSET All]
    BY <2>1, <2>2, TypeInv DEF TypeInv, ProcessType
  <2>4. i' = [i EXCEPT ![p] = NextFile(p)]
    BY <1>3 DEF LookFile
  <2>5. UNCHANGED <<key, read, staging, aside, stale, victims, miss, off, artifact>>
    BY <1>3 DEF LookFile
  <2>6. i' \in [Procs -> 1..3]
    BY <2>2, <2>4, TypeInv DEF TypeInv, ProcessType
  <2>. QED
    BY <2>3, <2>5, <2>6, TypeInv DEF TypeInv, ProcessType
<1>4. ASSUME NEW p \in Procs, LookSafe(p)
     PROVE  ProcessType'
  <2>1. /\ i' = [i EXCEPT ![p] = NextFile(p)] /\ NextFile(p) \in 1..3
        /\ UNCHANGED <<key, seen, read, staging, aside, stale, victims, miss, off,
                       artifact>>
    BY <1>4, SafeEffect
  <2>. QED
    BY <2>1, TypeInv DEF TypeInv, ProcessType
<1>5. ASSUME NEW p \in Procs, ReadFile(p)
     PROVE  ProcessType'
  <2>. DEFINE whole == read[p] \cup {content[At(key[p])]}
  <2>1. Holds(key[p], ReadOrder[i[p]]) =>
          content[At(key[p])] \in Procs \cup {None} /\ whole \subseteq Procs \cup {None}
    BY AtPath, TypeInv DEF Holds, TypeInv, FsType, ProcessType
  <2>2. NextFile(p) \in 1..3
    BY TypeInv, FileNamed
  <2>3. read' = read \/ (Holds(key[p], ReadOrder[i[p]]) /\ read' = Put(read, p, whole))
    BY <1>5 DEF ReadFile
  <2>4. read' \in [Procs -> SUBSET (Procs \cup {None})]
    <3>1. read \in [Procs -> SUBSET (Procs \cup {None})]
      BY TypeInv DEF TypeInv, ProcessType
    <3>2. CASE whole \subseteq Procs \cup {None} /\ read' = Put(read, p, whole)
      <4>. HIDE DEF whole
      <4>. QED
        BY <3>1, <3>2 DEF Put
    <3>. QED
      BY <2>1, <2>3, <3>1, <3>2
  <2>5. i' = i \/ i' = Put(i, p, NextFile(p))
    BY <1>5 DEF ReadFile
  <2>6. i' \in [Procs -> 1..3]
    <3>1. i \in [Procs -> 1..3]
      BY TypeInv DEF TypeInv, ProcessType
    <3>. QED
      BY <2>2, <2>5, <3>1 DEF Put
  <2>7. artifact' \in [Procs -> Procs \cup {None}]
    BY <1>5, <2>1, TypeInv DEF ReadFile, TypeInv, ProcessType
  <2>8. UNCHANGED <<key, seen, staging, aside, stale, victims, miss, off>>
    BY <1>5 DEF ReadFile
  <2>. QED
    BY <2>4, <2>6, <2>7, <2>8, TypeInv DEF TypeInv, ProcessType
<1>6. ASSUME NEW p \in Procs, DebrisRename(p)
     PROVE  ProcessType'
  BY <1>6, TypeInv, StepInv DEF DebrisRename, Rename, TypeInv, ProcessType, RmType,
      StepInv
<1>7. ASSUME NEW p \in Procs, DebrisJudge(p)
     PROVE  ProcessType'
  BY <1>7, TypeInv, StepInv DEF DebrisJudge, TypeInv, ProcessType, RmType, StepInv
<1>8. ASSUME NEW p \in Procs, DebrisBack(p)
     PROVE  ProcessType'
  BY <1>8, TypeInv, StepInv DEF DebrisBack, Rename, Miss, CanRename, TypeInv,
      ProcessType, RmType, StepInv
<1>9. ASSUME NEW p \in Procs, Compile(p)
     PROVE  ProcessType'
  BY <1>9, TypeInv, StepInv DEF Compile, Content, Writable, TypeInv, ProcessType,
      RmType, StepInv
<1>10. ASSUME NEW p \in Procs, StageWrite(p)
     PROVE  ProcessType'
  <2>1. NextFile(p) \in 1..3
    BY TypeInv, FileNamed
  <2>. QED
    BY <1>10, <2>1, TypeInv DEF TypeInv, ProcessType, StageWrite
<1>11. ASSUME NEW p \in Procs, Publish(p)
     PROVE  ProcessType'
  BY <1>11, TypeInv DEF Publish, TypeInv, ProcessType
<1>12. ASSUME NEW p \in Procs, Cleanup(p)
     PROVE  ProcessType'
  BY <1>12, TypeInv, StepInv DEF Cleanup, TypeInv, ProcessType, RmType, StepInv
<1>13. ASSUME NEW p \in Procs, GiveUp(p)
     PROVE  ProcessType'
  BY <1>13, TypeInv, StepInv DEF GiveUp, Unexpected, TypeInv, ProcessType, RmType,
      StepInv
<1>14. ASSUME NEW p \in Procs, TrimList(p)
     PROVE  ProcessType'
  <2>. DEFINE ks == {k \in Keys \ {key[p]} : Exists(k)}
              n == Cardinality(ks)
  <2>1. n \in Nat
    <3>1. IsFiniteSet(ks)
      BY FS_Subset
    <3>. QED
      BY <3>1, FS_CardinalityType
  <2>2. PICK s \in ByAge(ks) : victims' = Put(victims, p, SubSeq(s, 1, n + 1 - MaxEntries))
    BY <1>14 DEF TrimList
  <2>3. s \in [1..n -> ks]
    BY <2>2 DEF ByAge
  <2>4. SubSeq(s, 1, n + 1 - MaxEntries) \in Seq(Keys)
    <3>. HIDE DEF n
    <3>1. n + 1 - MaxEntries \in Int /\ \A m \in 1..(n + 1 - MaxEntries) : s[m] \in Keys
      BY <2>1, <2>3
    <3>. QED
      BY <3>1, SubSeqProperties
  <2>. QED
    BY <1>14, <2>2, <2>4, TypeInv DEF TypeInv, ProcessType, TrimList, callVars
<1>15. ASSUME NEW p \in Procs, TrimNext(p)
     PROVE  ProcessType'
  <2>1. /\ \/ \E n \in stale[p] : stale' = [stale EXCEPT ![p] = stale[p] \ {n}]
           \/ stale' = [stale EXCEPT ![p] = {}]
        /\ UNCHANGED <<i, seen, read, key, miss, staging, aside, victims, off, artifact>>
    BY <1>15, TrimNextCases, Zenon
  <2>2. stale' \in [Procs -> SUBSET Dirs]
    <3>1. stale \in [Procs -> SUBSET Dirs]
      BY TypeInv DEF TypeInv, ProcessType
    <3>2. CASE stale' = [stale EXCEPT ![p] = {}]
      BY <3>1, <3>2
    <3>3. CASE \E n \in stale[p] : stale' = [stale EXCEPT ![p] = stale[p] \ {n}]
      BY <3>1, <3>3
    <3>. QED
      BY <2>1, <3>2, <3>3
  <2>. QED
    BY <2>1, <2>2, TypeInv DEF TypeInv, ProcessType
<1>16. ASSUME NEW p \in Procs, DiscardRename(p)
     PROVE  ProcessType'
  BY <1>16, TypeInv, StepInv DEF DiscardRename, Rename, TypeInv, ProcessType,
      RmType, StepInv
<1>17. ASSUME NEW p \in Procs, DiscardRm(p)
     PROVE  ProcessType'
  BY <1>17, TypeInv, StepInv DEF DiscardRm, TypeInv, ProcessType, RmType, StepInv
<1>18. ASSUME NEW p \in Procs, RmDir(p)
     PROVE  ProcessType'
  BY <1>18, TypeInv, StepInv DEF RmDir, TypeInv, ProcessType, RmType, StepInv
<1>19. ASSUME NEW p \in Procs, NEW f \in All, RmFile(p, f)
     PROVE  ProcessType'
  BY <1>19, TypeInv, StepInv DEF RmFile, TypeInv, ProcessType, RmType, StepInv
<1>20. ASSUME NEW p \in Procs, NEW d \in Dirs, DebrisMkdir(p, d)
     PROVE  ProcessType'
  BY <1>20, TypeInv, StepInv DEF DebrisMkdir, Mkdtemp, TypeInv, ProcessType, RmType,
      StepInv
<1>21. ASSUME NEW p \in Procs, NEW d \in Dirs, StageMkdir(p, d)
     PROVE  ProcessType'
  BY <1>21, TypeInv, StepInv DEF StageMkdir, Mkdtemp, TypeInv, ProcessType, RmType,
      StepInv
<1>22. ASSUME NEW p \in Procs, NEW d \in Dirs, DiscardMkdir(p, d)
     PROVE  ProcessType'
  BY <1>22, TypeInv, StepInv DEF DiscardMkdir, Mkdtemp, TypeInv, ProcessType,
      RmType, StepInv
<1>23. ASSUME NEW p \in Procs, Kill(p)
     PROVE  ProcessType'
  BY <1>23, TypeInv, StepInv DEF Kill, TypeInv, ProcessType, RmType, StepInv
<1>24. ASSUME NEW p \in Procs, NEW k \in Keys, Lookup(p, k)
     PROVE  ProcessType'
  BY <1>24, TypeInv, StepInv DEF Lookup, TypeInv, ProcessType, RmType, StepInv
<1>25. ASSUME NEW d \in Dirs, Hour(d)
     PROVE  ProcessType'
  BY <1>25, TypeInv, StepInv DEF Hour, TypeInv, ProcessType, RmType, StepInv
<1>26. CASE UNCHANGED vars
  BY <1>26, TypeInv, StepInv DEF vars, TypeInv, ProcessType, RmType, StepInv
<1>27. ASSUME NEW p \in Procs, ReadRaises(p)
     PROVE  ProcessType'
  BY <1>27, TypeInv, StepInv DEF ReadRaises, Miss, TypeInv, ProcessType, RmType,
      StepInv
<1>28. ASSUME NEW p \in Procs, RenameRefused(p)
     PROVE  ProcessType'
  BY <1>28, TypeInv, StepInv DEF RenameRefused, TypeInv, ProcessType, RmType, StepInv
<1>. QED
  BY <1>1, <1>2, <1>3, <1>4, <1>5, <1>6, <1>7, <1>8, <1>9, <1>10, <1>11, <1>12,
      <1>13, <1>14, <1>15, <1>16, <1>17, <1>18, <1>19, <1>20, <1>21, <1>22, <1>23,
      <1>24, <1>25, <1>26, <1>27, <1>28 DEF Next, Step

-------------------------------------------------------------------------------
(* What a process has at its steps, its private paths, and what it stages. *)

\* A process comes to each of its steps with the paths that the step uses.
LEMMA StepStep ==
  ASSUME TypeInv, StepInv, [Next]_vars
  PROVE  StepInv'
<1>. USE DiskCacheAssumption
<1>t. /\ pc \in [Procs -> Labels] /\ key \in [Procs -> Keys \cup {None}]
      /\ staging \in [Procs -> Dirs \cup {None}] /\ aside \in [Procs -> Dirs \cup {None}]
      /\ rmpath \in [Procs -> Dirs \cup {None}] /\ rmdir \in [Procs -> Dirs \cup {None}]
      /\ DOMAIN victims = Procs
      /\ \A p \in Procs : /\ miss[p] \in {"compile", "cleanup"}
                          /\ rmback[p] \in {"idle", "trimming", "compile", "cleanup"}
  BY Types DEF TypeInv, ProcessType
<1>r. \A p \in Procs, n \in Dirs \cup {None} : \A back : Rmtree(p, n, back) =>
        \/ \E d \in Dirs : /\ n \in Dirs
                          /\ rmpath' = Put(rmpath, p, n) /\ rmdir' = Put(rmdir, p, d)
                          /\ Go(p, "rm")
        \/ Go(p, back) /\ UNCHANGED rmVars
  BY RmtreeEffect
<1>1. ASSUME NEW p \in Procs, LookEntry(p)
     PROVE  StepInv'
  BY <1>1, StepInv, <1>t, <1>r DEF LookEntry, Miss, StepInv, Staging, Renaming,
      Setting
<1>2. ASSUME NEW p \in Procs, ReadFails(p)
     PROVE  StepInv'
  BY <1>2, StepInv, <1>t, <1>r DEF ReadFails, Miss, StepInv, Staging, Renaming,
      Setting
<1>3. ASSUME NEW p \in Procs, LookFile(p)
     PROVE  StepInv'
  BY <1>3, StepInv, <1>t, <1>r DEF LookFile, NextFile, Holds, StepInv, Staging,
      Renaming, Setting
<1>4. ASSUME NEW p \in Procs, LookSafe(p)
     PROVE  StepInv'
  BY <1>4, StepInv, <1>t, <1>r DEF LookSafe, Miss, Holds, Writable, StepInv,
      Staging, Renaming, Setting
<1>5. ASSUME NEW p \in Procs, ReadFile(p)
     PROVE  StepInv'
  BY <1>5, StepInv, <1>t, <1>r DEF ReadFile, Miss, NextFile, Holds, StepInv,
      Staging, Renaming, Setting
<1>6. ASSUME NEW p \in Procs, DebrisRename(p)
     PROVE  StepInv'
  BY <1>6, StepInv, <1>t, <1>r DEF DebrisRename, Rename, StepInv, Staging, Renaming,
      Setting
<1>7. ASSUME NEW p \in Procs, DebrisJudge(p)
     PROVE  StepInv'
  BY <1>7, StepInv, <1>t, <1>r DEF DebrisJudge, StepInv, Staging, Setting
<1>8. ASSUME NEW p \in Procs, DebrisBack(p)
     PROVE  StepInv'
  BY <1>8, StepInv, <1>t, <1>r DEF DebrisBack, Rename, Miss, CanRename, StepInv,
      Staging, Setting
<1>9. ASSUME NEW p \in Procs, Compile(p)
     PROVE  StepInv'
  BY <1>9, StepInv, <1>t, <1>r DEF Compile, Content, Writable, StepInv, Staging,
      Renaming, Setting
<1>10. ASSUME NEW p \in Procs, StageWrite(p)
     PROVE  StepInv'
  BY <1>10, StepInv, <1>t, <1>r DEF StageWrite, Content, NextFile, LastFile,
      StepInv, Staging, Renaming, Setting
<1>11. ASSUME NEW p \in Procs, Publish(p)
     PROVE  StepInv'
  BY <1>11, StepInv, <1>t, <1>r DEF Publish, CanRename, Rename, AfterConflict,
      StepInv, Staging, Renaming, Setting
<1>12. ASSUME NEW p \in Procs, Cleanup(p)
     PROVE  StepInv'
  BY <1>12, StepInv, <1>t, <1>r DEF Cleanup, Finally, StepInv, Staging, Renaming,
      Setting
<1>13. ASSUME NEW p \in Procs, GiveUp(p)
     PROVE  StepInv'
  BY <1>13, StepInv, <1>t, <1>r DEF GiveUp, Unexpected, StepInv, Staging, Renaming,
      Setting
<1>14. ASSUME NEW p \in Procs, TrimList(p)
     PROVE  StepInv'
  BY <1>14, StepInv, <1>t, <1>r DEF TrimList, StepInv, Staging, Renaming, Setting
<1>15. ASSUME NEW p \in Procs, TrimNext(p)
     PROVE  StepInv'
  <2>1. \A n \in stale[p] : n \in Dirs \cup {None}
    BY Types
  <2>2. /\ \/ \E n \in stale[p] : Rmtree(p, n, "trimming")
           \/ UNCHANGED rmVars /\ Go(p, IF victims[p] = <<>> THEN "cleanup" ELSE "discard")
        /\ UNCHANGED <<key, staging, aside, victims>> /\ pc[p] = "trimming"
    BY <1>15, TrimNextCases, Zenon
  <2>3. \/ \E n, d \in Dirs : /\ rmpath' = Put(rmpath, p, n) /\ rmdir' = Put(rmdir, p, d)
                             /\ Go(p, "rm")
        \/ Go(p, "trimming") /\ UNCHANGED rmVars
        \/ UNCHANGED rmVars /\ Go(p, IF victims[p] = <<>> THEN "cleanup" ELSE "discard")
    BY <1>r, <2>1, <2>2
  <2>. QED
    BY <2>2, <2>3, <1>t, StepInv DEF StepInv, Staging, Renaming, Setting, Go, Put,
        rmVars
<1>16. ASSUME NEW p \in Procs, DiscardRename(p)
     PROVE  StepInv'
  BY <1>16, StepInv, <1>t, <1>r DEF DiscardRename, Rename, StepInv, Staging,
      Renaming, Setting
<1>17. ASSUME NEW p \in Procs, DiscardRm(p)
     PROVE  StepInv'
  BY <1>17, StepInv, <1>t, <1>r DEF DiscardRm, StepInv, Staging, Setting
<1>18. ASSUME NEW p \in Procs, RmDir(p)
     PROVE  StepInv'
  BY <1>18, StepInv, <1>t, <1>r DEF RmDir, StepInv, Staging, Renaming, Setting
<1>19. ASSUME NEW p \in Procs, NEW f \in All, RmFile(p, f)
     PROVE  StepInv'
  BY <1>19, StepInv, <1>t, <1>r DEF RmFile, StepInv, Staging
<1>20. ASSUME NEW p \in Procs, NEW d \in Dirs, DebrisMkdir(p, d)
     PROVE  StepInv'
  BY <1>20, StepInv, <1>t, <1>r DEF DebrisMkdir, Mkdtemp, StepInv, Staging
<1>21. ASSUME NEW p \in Procs, NEW d \in Dirs, StageMkdir(p, d)
     PROVE  StepInv'
  BY <1>21, StepInv, <1>t, <1>r DEF StageMkdir, Mkdtemp, StepInv, Staging, Renaming,
      Setting
<1>22. ASSUME NEW p \in Procs, NEW d \in Dirs, DiscardMkdir(p, d)
     PROVE  StepInv'
  BY <1>22, StepInv, <1>t, <1>r DEF DiscardMkdir, Mkdtemp, StepInv, Staging
<1>23. ASSUME NEW p \in Procs, Kill(p)
     PROVE  StepInv'
  BY <1>23, StepInv, <1>t, <1>r DEF Kill, StepInv, Staging, Renaming, Setting
<1>24. ASSUME NEW p \in Procs, NEW k \in Keys, Lookup(p, k)
     PROVE  StepInv'
  BY <1>24, StepInv, <1>t, <1>r DEF Lookup, StepInv, Staging, Renaming, Setting
<1>25. ASSUME NEW d \in Dirs, Hour(d)
     PROVE  StepInv'
  BY <1>25, StepInv, <1>t, <1>r DEF Hour, StepInv, Staging
<1>26. CASE UNCHANGED vars
  BY <1>26, StepInv, <1>t, <1>r DEF vars, StepInv, Staging
<1>27. ASSUME NEW p \in Procs, ReadRaises(p)
     PROVE  StepInv'
  BY <1>27, StepInv, <1>t, <1>r DEF ReadRaises, Miss, StepInv, Staging, Renaming,
      Setting
<1>28. ASSUME NEW p \in Procs, RenameRefused(p)
     PROVE  StepInv'
  <2>1. PICK back \in {"compile", "cleanup"} :
          /\ Rmtree(p, aside[p], back)
          /\ back = IF pc[p] = "discardRename" THEN "cleanup" ELSE miss[p]
    BY <1>28, RefusedEffect, Zenon
  <2>2. /\ pc[p] \in {"debrisRename", "debrisBack", "discardRename"}
        /\ UNCHANGED <<path, files, content, old, debris, taken, evicted, i, seen,
                       read, key, miss, staging, aside, victims>>
    BY <1>28, RefusedEffect
  <2>. QED
    BY <2>1, <2>2, <1>t, <1>r, StepInv DEF StepInv, Staging, Setting, Renaming
<1>. QED
  BY <1>1, <1>2, <1>3, <1>4, <1>5, <1>6, <1>7, <1>8, <1>9, <1>10, <1>11, <1>12,
      <1>13, <1>14, <1>15, <1>16, <1>17, <1>18, <1>19, <1>20, <1>21, <1>22, <1>23,
      <1>24, <1>25, <1>26, <1>27, <1>28 DEF Next, Step

\* A new private path is nobody's, so no two processes come to share one.
LEMMA NamesStep ==
  ASSUME TypeInv, StepInv, NamesInv, [Next]_vars
  PROVE  NamesInv'
<1>. USE DiskCacheAssumption
<1>t. /\ pc \in [Procs -> Labels] /\ key \in [Procs -> Keys \cup {None}]
      /\ staging \in [Procs -> Dirs \cup {None}] /\ aside \in [Procs -> Dirs \cup {None}]
      /\ rmpath \in [Procs -> Dirs \cup {None}] /\ rmdir \in [Procs -> Dirs \cup {None}]
      /\ \A p \in Procs : /\ miss[p] \in {"compile", "cleanup"}
                          /\ rmback[p] \in {"idle", "trimming", "compile", "cleanup"}
  BY Types
<1>1. ASSUME NEW p \in Procs, LookEntry(p)
     PROVE  NamesInv'
  BY <1>1, NamesInv, <1>t DEF LookEntry, Miss, NamesInv
<1>2. ASSUME NEW p \in Procs, ReadFails(p)
     PROVE  NamesInv'
  BY <1>2, NamesInv, <1>t DEF ReadFails, Miss, NamesInv
<1>3. ASSUME NEW p \in Procs, LookFile(p)
     PROVE  NamesInv'
  BY <1>3, NamesInv, <1>t DEF LookFile, NextFile, Holds, NamesInv
<1>4. ASSUME NEW p \in Procs, LookSafe(p)
     PROVE  NamesInv'
  BY <1>4, NamesInv, <1>t DEF LookSafe, Miss, Holds, Writable, NamesInv
<1>5. ASSUME NEW p \in Procs, ReadFile(p)
     PROVE  NamesInv'
  BY <1>5, NamesInv, <1>t DEF ReadFile, Miss, NextFile, Holds, NamesInv
<1>6. ASSUME NEW p \in Procs, DebrisRename(p)
     PROVE  NamesInv'
  BY <1>6, NamesInv, <1>t DEF DebrisRename, Rename, NamesInv
<1>7. ASSUME NEW p \in Procs, DebrisJudge(p)
     PROVE  NamesInv'
  BY <1>7, NamesInv, <1>t DEF DebrisJudge, NamesInv
<1>8. ASSUME NEW p \in Procs, DebrisBack(p)
     PROVE  NamesInv'
  BY <1>8, NamesInv, <1>t DEF DebrisBack, Rename, Miss, CanRename, NamesInv
<1>9. ASSUME NEW p \in Procs, Compile(p)
     PROVE  NamesInv'
  BY <1>9, NamesInv, <1>t DEF Compile, Content, Writable, NamesInv
<1>10. ASSUME NEW p \in Procs, StageWrite(p)
     PROVE  NamesInv'
  BY <1>10, NamesInv, <1>t DEF StageWrite, Content, NextFile, LastFile, NamesInv
<1>11. ASSUME NEW p \in Procs, Publish(p)
     PROVE  NamesInv'
  BY <1>11, NamesInv, <1>t DEF Publish, CanRename, Rename, AfterConflict, NamesInv
<1>12. ASSUME NEW p \in Procs, Cleanup(p)
     PROVE  NamesInv'
  BY <1>12, NamesInv, <1>t DEF Cleanup, NamesInv
<1>13. ASSUME NEW p \in Procs, GiveUp(p)
     PROVE  NamesInv'
  BY <1>13, NamesInv, <1>t DEF GiveUp, Unexpected, NamesInv
<1>14. ASSUME NEW p \in Procs, TrimList(p)
     PROVE  NamesInv'
  BY <1>14, NamesInv, <1>t DEF TrimList, NamesInv
<1>15. ASSUME NEW p \in Procs, TrimNext(p)
     PROVE  NamesInv'
  <2>1. UNCHANGED <<staging, aside>>
    BY <1>15, TrimNextCases, Zenon
  <2>. QED
    BY <2>1, NamesInv DEF NamesInv
<1>16. ASSUME NEW p \in Procs, DiscardRename(p)
     PROVE  NamesInv'
  BY <1>16, NamesInv, <1>t DEF DiscardRename, Rename, NamesInv
<1>17. ASSUME NEW p \in Procs, DiscardRm(p)
     PROVE  NamesInv'
  BY <1>17, NamesInv, <1>t DEF DiscardRm, NamesInv
<1>18. ASSUME NEW p \in Procs, RmDir(p)
     PROVE  NamesInv'
  BY <1>18, NamesInv, <1>t DEF RmDir, NamesInv
<1>19. ASSUME NEW p \in Procs, NEW f \in All, RmFile(p, f)
     PROVE  NamesInv'
  BY <1>19, NamesInv, <1>t DEF RmFile, NamesInv
<1>20. ASSUME NEW p \in Procs, NEW d \in Dirs, DebrisMkdir(p, d)
     PROVE  NamesInv'
  BY <1>20, NamesInv, <1>t, MkdtempEffect DEF DebrisMkdir, NamesInv
<1>21. ASSUME NEW p \in Procs, NEW d \in Dirs, StageMkdir(p, d)
     PROVE  NamesInv'
  BY <1>21, NamesInv, <1>t, MkdtempEffect DEF StageMkdir, NamesInv
<1>22. ASSUME NEW p \in Procs, NEW d \in Dirs, DiscardMkdir(p, d)
     PROVE  NamesInv'
  BY <1>22, NamesInv, <1>t, MkdtempEffect DEF DiscardMkdir, NamesInv
<1>23. ASSUME NEW p \in Procs, Kill(p)
     PROVE  NamesInv'
  BY <1>23, NamesInv, <1>t DEF Kill, NamesInv
<1>24. ASSUME NEW p \in Procs, NEW k \in Keys, Lookup(p, k)
     PROVE  NamesInv'
  BY <1>24, NamesInv, <1>t DEF Lookup, NamesInv
<1>25. ASSUME NEW d \in Dirs, Hour(d)
     PROVE  NamesInv'
  BY <1>25, NamesInv, <1>t DEF Hour, AtRest, NamesInv
<1>26. CASE UNCHANGED vars
  BY <1>26, NamesInv, <1>t DEF vars, NamesInv
<1>27. ASSUME NEW p \in Procs, ReadRaises(p)
     PROVE  NamesInv'
  BY <1>27, NamesInv, <1>t DEF ReadRaises, Miss, NamesInv
<1>28. ASSUME NEW p \in Procs, RenameRefused(p)
     PROVE  NamesInv'
  <2>1. UNCHANGED <<staging, aside>>
    BY <1>28, RefusedEffect
  <2>. QED
    BY <2>1, NamesInv DEF NamesInv
<1>. QED
  BY <1>1, <1>2, <1>3, <1>4, <1>5, <1>6, <1>7, <1>8, <1>9, <1>10, <1>11, <1>12,
      <1>13, <1>14, <1>15, <1>16, <1>17, <1>18, <1>19, <1>20, <1>21, <1>22, <1>23,
      <1>24, <1>25, <1>26, <1>27, <1>28 DEF Next, Step

\* The directory a process works at stays: the others know no path to it, and a
\* trim removes old ones only.
LEMMA FreshStep ==
  ASSUME "stall" \notin Faults, TypeInv, StepInv, NamesInv, FreshInv, [Next]_vars
  PROVE  FreshInv'
<1>. USE DiskCacheAssumption
<1>t. /\ pc \in [Procs -> Labels] /\ key \in [Procs -> Keys \cup {None}]
      /\ staging \in [Procs -> Dirs \cup {None}] /\ aside \in [Procs -> Dirs \cup {None}]
      /\ rmpath \in [Procs -> Dirs \cup {None}] /\ rmdir \in [Procs -> Dirs \cup {None}]
      /\ \A p \in Procs : /\ miss[p] \in {"compile", "cleanup"}
                          /\ rmback[p] \in {"idle", "trimming", "compile", "cleanup"}
  BY Types
<1>f. /\ path \in [Dirs -> Keys \cup Dirs \cup {None}]
      /\ \A c, d \in Dirs : path[c] = path[d] /\ path[c] # None => c = d
      /\ files \in [Dirs -> SUBSET All] /\ content \in [Dirs -> Procs \cup {None}]
  BY DEF TypeInv, FsType
<1>r. \A p \in Procs, n \in Dirs \cup {None} : \A back : Rmtree(p, n, back) =>
        \/ \E d \in Dirs : /\ path[d] = n /\ n \in Dirs
                          /\ rmpath' = Put(rmpath, p, n) /\ rmdir' = Put(rmdir, p, d)
                          /\ Go(p, "rm")
        \/ Go(p, back) /\ UNCHANGED rmVars
  BY RmtreeEffect
<1>1. ASSUME NEW p \in Procs, LookEntry(p)
     PROVE  FreshInv'
  <2>1. /\ UNCHANGED <<path, old, staging, aside, rmpath>> /\ pc[p] = "entry"
        /\ Go(p, "present") \/ Go(p, miss[p])
    BY <1>1 DEF LookEntry, Miss
  <2>. QED
    BY <2>1, <1>t, FreshInv DEF FreshInv, Works, Exists, Staging, Renaming
<1>2. ASSUME NEW p \in Procs, ReadFails(p)
     PROVE  FreshInv'
  BY <1>2, StepInv, NamesInv, FreshInv, <1>t, <1>f, <1>r DEF ReadFails, Miss,
      StepInv, NamesInv, FreshInv, Works, Exists, Staging, Renaming
<1>3. ASSUME NEW p \in Procs, LookFile(p)
     PROVE  FreshInv'
  BY <1>3, StepInv, NamesInv, FreshInv, <1>t, <1>f, <1>r DEF LookFile, NextFile,
      Holds, StepInv, NamesInv, FreshInv, Works, Exists, Staging, Renaming
<1>4. ASSUME NEW p \in Procs, LookSafe(p)
     PROVE  FreshInv'
  <2>1. /\ UNCHANGED <<path, old, staging, aside, rmpath>> /\ pc[p] = "safe"
        /\ Go(p, "safe") \/ Go(p, "read") \/ Go(p, "debris") \/ Go(p, miss[p])
    BY <1>4, SafeEffect
  <2>. QED
    BY <2>1, <1>t, FreshInv DEF FreshInv, Works, Exists, Staging, Renaming
<1>5. ASSUME NEW p \in Procs, ReadFile(p)
     PROVE  FreshInv'
  BY <1>5, StepInv, NamesInv, FreshInv, <1>t, <1>f, <1>r DEF ReadFile, Miss,
      NextFile, Holds, StepInv, NamesInv, FreshInv, Works, Exists, Staging, Renaming
<1>6. ASSUME NEW p \in Procs, DebrisRename(p)
     PROVE  FreshInv'
  <2>1. ASSUME NEW q \in Procs, NEW n \in Dirs, Works(q, n)'
        PROVE  q # p /\ Works(q, n) /\ n # staging[p] /\ n # aside[p]
    BY <1>6, <2>1, <1>t, <1>r, StepInv, NamesInv DEF Works, StepInv, NamesInv,
        DebrisRename, Miss, Go, Put, rmVars, Staging, Renaming
  <2>2. SUFFICES ASSUME NEW q \in Procs, NEW n \in Dirs, q # p, Works(q, n),
                        n # staging[p], n # aside[p]
                 PROVE  /\ Exists(n)' /\ \A d \in Dirs : path'[d] = n => d \notin old'
                        /\ \A r \in Procs : pc'[r] = "rm" => rmpath'[r] # n
    BY <2>1 DEF FreshInv
  <2>3. Exists(n) /\ \A d \in Dirs : path[d] = n <=> path'[d] = n
    BY <2>2, <1>6, <1>t, <1>f, FreshInv, StepInv DEF FreshInv, StepInv, Exists,
        Rename, DebrisRename, Staging, fsVars
  <2>4. old' = old
    BY <1>6 DEF DebrisRename
  <2>. QED
    BY <2>2, <2>3, <2>4, <1>6, <1>t, <1>r, FreshInv DEF FreshInv, Exists, Miss,
        DebrisRename
<1>7. ASSUME NEW p \in Procs, DebrisJudge(p)
     PROVE  FreshInv'
  <2>1. ASSUME NEW q \in Procs, NEW n \in Dirs, Works(q, n)'
        PROVE  q # p /\ Works(q, n) /\ n # staging[p] /\ n # aside[p]
    BY <1>7, <2>1, <1>t, <1>r, StepInv, NamesInv DEF Works, StepInv, NamesInv,
        DebrisJudge, Miss, Go, Put, rmVars, Staging, Renaming
  <2>2. SUFFICES ASSUME NEW q \in Procs, NEW n \in Dirs, q # p, Works(q, n),
                        n # staging[p], n # aside[p]
                 PROVE  /\ Exists(n)' /\ \A d \in Dirs : path'[d] = n => d \notin old'
                        /\ \A r \in Procs : pc'[r] = "rm" => rmpath'[r] # n
    BY <2>1 DEF FreshInv
  <2>3. Exists(n) /\ \A d \in Dirs : path[d] = n <=> path'[d] = n
    BY <2>2, <1>7, <1>t, <1>f, FreshInv, StepInv DEF FreshInv, StepInv, Exists,
        Rename, DebrisJudge, Staging, fsVars
  <2>4. old' = old
    BY <1>7 DEF DebrisJudge
  <2>. QED
    BY <2>2, <2>3, <2>4, <1>7, <1>t, <1>r, FreshInv DEF FreshInv, Exists, Miss,
        DebrisJudge
<1>8. ASSUME NEW p \in Procs, DebrisBack(p)
     PROVE  FreshInv'
  <2>1. ASSUME NEW q \in Procs, NEW n \in Dirs, Works(q, n)'
        PROVE  q # p /\ Works(q, n) /\ n # staging[p] /\ n # aside[p]
    BY <1>8, <2>1, <1>t, <1>r, StepInv, NamesInv DEF Works, StepInv, NamesInv,
        DebrisBack, Miss, Go, Put, rmVars, Staging, Renaming
  <2>2. SUFFICES ASSUME NEW q \in Procs, NEW n \in Dirs, q # p, Works(q, n),
                        n # staging[p], n # aside[p]
                 PROVE  /\ Exists(n)' /\ \A d \in Dirs : path'[d] = n => d \notin old'
                        /\ \A r \in Procs : pc'[r] = "rm" => rmpath'[r] # n
    BY <2>1 DEF FreshInv
  <2>3. Exists(n) /\ \A d \in Dirs : path[d] = n <=> path'[d] = n
    BY <2>2, <1>8, <1>t, <1>f, FreshInv, StepInv DEF FreshInv, StepInv, Exists,
        Rename, DebrisBack, Staging, fsVars
  <2>4. old' = old
    BY <1>8 DEF DebrisBack
  <2>. QED
    BY <2>2, <2>3, <2>4, <1>8, <1>t, <1>r, FreshInv DEF FreshInv, Exists, Miss,
        DebrisBack
<1>9. ASSUME NEW p \in Procs, Compile(p)
     PROVE  FreshInv'
  BY <1>9, StepInv, NamesInv, FreshInv, <1>t, <1>f, <1>r DEF Compile, Content,
      Writable, StepInv, NamesInv, FreshInv, Works, Exists, Staging, Renaming
<1>10. ASSUME NEW p \in Procs, StageWrite(p)
     PROVE  FreshInv'
  BY <1>10, StepInv, NamesInv, FreshInv, <1>t, <1>f, <1>r, ModifyOld, AtPath DEF
      StageWrite, Content, NextFile, LastFile, StepInv, NamesInv, FreshInv, Works,
      Exists, Staging, Renaming
<1>11. ASSUME NEW p \in Procs, Publish(p)
     PROVE  FreshInv'
  BY <1>11, StepInv, NamesInv, FreshInv, <1>t, <1>f, <1>r DEF Publish, CanRename,
      Rename, AfterConflict, StepInv, NamesInv, FreshInv, Works, Exists, Staging,
      Renaming
<1>12. ASSUME NEW p \in Procs, Cleanup(p)
     PROVE  FreshInv'
  <2>1. ASSUME NEW q \in Procs, NEW n \in Dirs, Works(q, n)'
        PROVE  q # p /\ Works(q, n) /\ n # staging[p] /\ n # aside[p]
    BY <1>12, <2>1, <1>t, <1>r, StepInv, NamesInv DEF Works, StepInv, NamesInv,
        Cleanup, Miss, Finally, Go, Put, rmVars, Staging, Renaming
  <2>2. SUFFICES ASSUME NEW q \in Procs, NEW n \in Dirs, q # p, Works(q, n),
                        n # staging[p], n # aside[p]
                 PROVE  /\ Exists(n)' /\ \A d \in Dirs : path'[d] = n => d \notin old'
                        /\ \A r \in Procs : pc'[r] = "rm" => rmpath'[r] # n
    BY <2>1 DEF FreshInv
  <2>3. Exists(n) /\ \A d \in Dirs : path[d] = n <=> path'[d] = n
    BY <2>2, <1>12, <1>t, <1>f, FreshInv, StepInv DEF FreshInv, StepInv, Exists,
        Rename, Cleanup, Staging, fsVars
  <2>4. old' = old
    BY <1>12 DEF Cleanup
  <2>. QED
    BY <2>2, <2>3, <2>4, <1>12, <1>t, <1>r, FreshInv DEF FreshInv, Exists, Miss,
        Finally, Cleanup
<1>13. ASSUME NEW p \in Procs, GiveUp(p)
     PROVE  FreshInv'
  BY <1>13, StepInv, NamesInv, FreshInv, <1>t, <1>f, <1>r DEF GiveUp, Unexpected,
      StepInv, NamesInv, FreshInv, Works, Exists, Staging, Renaming
<1>14. ASSUME NEW p \in Procs, TrimList(p)
     PROVE  FreshInv'
  BY <1>14, StepInv, NamesInv, FreshInv, <1>t, <1>f, <1>r DEF TrimList, StepInv,
      NamesInv, FreshInv, Works, Exists, Staging, Renaming
<1>15. ASSUME NEW p \in Procs, TrimNext(p)
     PROVE  FreshInv'
  <2>1. \A n \in stale[p] : n \in Dirs \cup {None}
    BY Types
  <2>2. /\ pc[p] = "trimming" /\ UNCHANGED <<path, files, content, old, debris, evicted, i, seen, read, key,
                                         miss, staging, aside, victims, off, artifact>>
        /\ \/ \E n \in stale[p] : Exists(n) /\ At(n) \in old /\ Rmtree(p, n, "trimming")
           \/ UNCHANGED rmVars /\ Go(p, IF victims[p] = <<>> THEN "cleanup" ELSE "discard")
    BY <1>15, TrimNextCases, Zenon
  <2>3. \/ \E n, d \in Dirs : /\ path[d] = n /\ d \in old
                             /\ rmpath' = Put(rmpath, p, n) /\ rmdir' = Put(rmdir, p, d)
                             /\ Go(p, "rm")
        \/ /\ UNCHANGED rmVars
           /\ Go(p, "trimming") \/ Go(p, IF victims[p] = <<>> THEN "cleanup" ELSE "discard")
    BY <1>r, <2>1, <2>2, AtPath
  <2>4. ASSUME NEW q \in Procs, NEW n \in Dirs, Works(q, n)'
        PROVE  q # p /\ Works(q, n)
    BY <2>2, <2>3, <2>4, <1>t DEF Works, Staging, Renaming
  <2>5. SUFFICES ASSUME NEW q \in Procs, NEW n \in Dirs, q # p, Works(q, n)
                 PROVE  /\ Exists(n)' /\ \A d \in Dirs : path[d] = n => d \notin old
                        /\ \A r \in Procs : pc'[r] = "rm" => rmpath'[r] # n
    BY <2>2, <2>4 DEF FreshInv
  <2>6. Exists(n)' /\ \A d \in Dirs : path[d] = n => d \notin old
    BY <2>2, <2>5, FreshInv DEF FreshInv, Exists
  <2>. QED
    BY <2>2, <2>3, <2>5, <2>6, <1>t, FreshInv DEF FreshInv
<1>16. ASSUME NEW p \in Procs, DiscardRename(p)
     PROVE  FreshInv'
  <2>0. Head(victims[p]) \in Keys
    BY <1>16, TypeInv, StepInv, HeadTailProperties DEF StepInv, DiscardRename,
        TypeInv, ProcessType
  <2>1. ASSUME NEW q \in Procs, NEW n \in Dirs, Works(q, n)'
        PROVE  q # p /\ Works(q, n) /\ n # staging[p] /\ n # aside[p]
    BY <1>16, <2>1, <1>t, <1>r, StepInv, NamesInv DEF Works, StepInv, NamesInv,
        DiscardRename, Miss, Go, Put, rmVars, Staging, Renaming
  <2>2. SUFFICES ASSUME NEW q \in Procs, NEW n \in Dirs, q # p, Works(q, n),
                        n # staging[p], n # aside[p]
                 PROVE  /\ Exists(n)' /\ \A d \in Dirs : path'[d] = n => d \notin old'
                        /\ \A r \in Procs : pc'[r] = "rm" => rmpath'[r] # n
    BY <2>1 DEF FreshInv
  <2>3. Exists(n) /\ \A d \in Dirs : path[d] = n <=> path'[d] = n
    BY <2>2, <1>16, <1>t, <1>f, FreshInv, StepInv, <2>0 DEF FreshInv, StepInv,
        Exists, Rename, DiscardRename, Staging, fsVars
  <2>4. old' = old
    BY <1>16 DEF DiscardRename
  <2>. QED
    BY <2>2, <2>3, <2>4, <1>16, <1>t, <1>r, FreshInv DEF FreshInv, Exists, Miss,
        DiscardRename
<1>17. ASSUME NEW p \in Procs, DiscardRm(p)
     PROVE  FreshInv'
  BY <1>17, StepInv, NamesInv, FreshInv, <1>t, <1>f, <1>r DEF DiscardRm, StepInv,
      NamesInv, FreshInv, Works, Exists, Staging, Renaming, Setting
<1>18. ASSUME NEW p \in Procs, RmDir(p)
     PROVE  FreshInv'
  <2>1. /\ pc[p] = "rm" /\ Go(p, rmback[p]) /\ UNCHANGED <<old, staging, aside>>
        /\ path' = [d \in Dirs |-> IF path[d] = rmpath[p] /\ files[d] = {}
                                    THEN None ELSE path[d]]
        /\ rmpath' = Put(rmpath, p, None)
    BY <1>18 DEF RmDir
  <2>2. ASSUME NEW q \in Procs, NEW n \in Dirs, Works(q, n)'
        PROVE  Works(q, n)
    BY <2>1, <2>2, <1>t DEF Works, Staging, Renaming
  <2>3. ASSUME NEW q \in Procs, NEW n \in Dirs, Works(q, n)
        PROVE  /\ Exists(n)' /\ \A d \in Dirs : path'[d] = n => d \notin old'
               /\ \A r \in Procs : pc'[r] = "rm" => rmpath'[r] # n
    <3>1. /\ Exists(n) /\ \A d \in Dirs : path[d] = n => d \notin old
          /\ \A r \in Procs : pc[r] = "rm" => rmpath[r] # n
      BY <2>3, FreshInv DEF FreshInv
    <3>2. \A d \in Dirs : path'[d] = n <=> path[d] = n
      BY <2>1, <3>1, DiskCacheAssumption
    <3>3. \A r \in Procs : pc'[r] = "rm" => pc[r] = "rm" /\ rmpath'[r] = rmpath[r]
      BY <2>1, <1>t
    <3>. QED
      BY <2>1, <3>1, <3>2, <3>3 DEF Exists
  <2>. QED
    BY <2>2, <2>3 DEF FreshInv
<1>19. ASSUME NEW p \in Procs, NEW f \in All, RmFile(p, f)
     PROVE  FreshInv'
  BY <1>19, StepInv, NamesInv, FreshInv, <1>t, <1>f, <1>r, ModifyOld DEF RmFile,
      StepInv, NamesInv, FreshInv, Works, Exists, Staging
<1>20. ASSUME NEW p \in Procs, NEW d \in Dirs, DebrisMkdir(p, d)
     PROVE  FreshInv'
  BY <1>20, StepInv, NamesInv, FreshInv, <1>t, <1>f, <1>r, MkdtempEffect DEF
      DebrisMkdir, StepInv, NamesInv, FreshInv, Works, Exists, Staging
<1>21. ASSUME NEW p \in Procs, NEW d \in Dirs, StageMkdir(p, d)
     PROVE  FreshInv'
  BY <1>21, StepInv, NamesInv, FreshInv, <1>t, <1>f, <1>r, MkdtempEffect DEF
      StageMkdir, StepInv, NamesInv, FreshInv, Works, Exists, Staging, Renaming
<1>22. ASSUME NEW p \in Procs, NEW d \in Dirs, DiscardMkdir(p, d)
     PROVE  FreshInv'
  BY <1>22, StepInv, NamesInv, FreshInv, <1>t, <1>f, <1>r, MkdtempEffect DEF
      DiscardMkdir, StepInv, NamesInv, FreshInv, Works, Exists, Staging
<1>23. ASSUME NEW p \in Procs, Kill(p)
     PROVE  FreshInv'
  BY <1>23, StepInv, NamesInv, FreshInv, <1>t, <1>f, <1>r DEF Kill, StepInv,
      NamesInv, FreshInv, Works, Exists, Staging
<1>24. ASSUME NEW p \in Procs, NEW k \in Keys, Lookup(p, k)
     PROVE  FreshInv'
  BY <1>24, StepInv, NamesInv, FreshInv, <1>t, <1>f, <1>r DEF Lookup, StepInv,
      NamesInv, FreshInv, Works, Exists, Staging
<1>25. ASSUME NEW d \in Dirs, Hour(d)
     PROVE  FreshInv'
  <2>1. AtRest
    BY <1>25 DEF Hour
  <2>. QED
    BY <1>25, <2>1, StepInv, NamesInv, FreshInv, <1>t, <1>f, <1>r DEF Hour, AtRest,
        StepInv, NamesInv, FreshInv, Works, Exists, Staging, Renaming
<1>26. CASE UNCHANGED vars
  BY <1>26, StepInv, NamesInv, FreshInv, <1>t, <1>f, <1>r DEF vars, StepInv,
      NamesInv, FreshInv, Works, Exists, Staging
<1>27. ASSUME NEW p \in Procs, ReadRaises(p)
     PROVE  FreshInv'
  BY <1>27, StepInv, NamesInv, FreshInv, <1>t, <1>f, <1>r DEF ReadRaises, Miss,
      StepInv, NamesInv, FreshInv, Works, Exists, Staging, Renaming
<1>28. ASSUME NEW p \in Procs, RenameRefused(p)
     PROVE  FreshInv'
  <2>1. ASSUME NEW q \in Procs, NEW n \in Dirs, Works(q, n)'
        PROVE  q # p /\ Works(q, n) /\ n # staging[p] /\ n # aside[p]
    BY <1>28, <2>1, <1>t, <1>r, StepInv, NamesInv DEF Works, StepInv, NamesInv,
        RenameRefused, Miss, Go, Put, rmVars, Staging, Renaming
  <2>2. SUFFICES ASSUME NEW q \in Procs, NEW n \in Dirs, q # p, Works(q, n),
                        n # staging[p], n # aside[p]
                 PROVE  /\ Exists(n)' /\ \A d \in Dirs : path'[d] = n => d \notin old'
                        /\ \A r \in Procs : pc'[r] = "rm" => rmpath'[r] # n
    BY <2>1 DEF FreshInv
  <2>3. Exists(n) /\ \A d \in Dirs : path[d] = n <=> path'[d] = n
    BY <2>2, <1>28, <1>t, <1>f, FreshInv, StepInv DEF FreshInv, StepInv, Exists,
        Rename, RenameRefused, Staging, fsVars
  <2>4. old' = old
    BY <1>28 DEF RenameRefused
  <2>. QED
    BY <2>2, <2>3, <2>4, <1>28, <1>t, <1>r, FreshInv DEF FreshInv, Exists, Miss,
        RenameRefused
<1>. QED
  BY <1>1, <1>2, <1>3, <1>4, <1>5, <1>6, <1>7, <1>8, <1>9, <1>10, <1>11, <1>12,
      <1>13, <1>14, <1>15, <1>16, <1>17, <1>18, <1>19, <1>20, <1>21, <1>22, <1>23,
      <1>24, <1>25, <1>26, <1>27, <1>28 DEF Next, Step

\* Only its own writer changes what is staged, one file after the other.
LEMMA StageStep ==
  ASSUME TypeInv, StepInv, NamesInv, FreshInv, RmInv, StageInv, [Next]_vars
  PROVE  StageInv'
<1>. USE DiskCacheAssumption
<1>t. /\ pc \in [Procs -> Labels] /\ key \in [Procs -> Keys \cup {None}]
      /\ staging \in [Procs -> Dirs \cup {None}] /\ aside \in [Procs -> Dirs \cup {None}]
      /\ rmpath \in [Procs -> Dirs \cup {None}] /\ rmdir \in [Procs -> Dirs \cup {None}]
      /\ \A p \in Procs : /\ miss[p] \in {"compile", "cleanup"}
                          /\ rmback[p] \in {"idle", "trimming", "compile", "cleanup"}
  BY Types
<1>f. /\ path \in [Dirs -> Keys \cup Dirs \cup {None}]
      /\ \A c, d \in Dirs : path[c] = path[d] /\ path[c] # None => c = d
      /\ files \in [Dirs -> SUBSET All] /\ content \in [Dirs -> Procs \cup {None}]
  BY DEF TypeInv, FsType
<1>r. \A p \in Procs, n \in Dirs \cup {None} : \A back : Rmtree(p, n, back) =>
        \/ \E d \in Dirs : /\ path[d] = n /\ n \in Dirs
                          /\ rmpath' = Put(rmpath, p, n) /\ rmdir' = Put(rmdir, p, d)
                          /\ Go(p, "rm")
        \/ Go(p, back) /\ UNCHANGED rmVars
  BY RmtreeEffect
<1>1. ASSUME NEW p \in Procs, LookEntry(p)
     PROVE  StageInv'
  <2>1. /\ UNCHANGED <<path, files, content, staging>> /\ i' = Put(i, p, 1)
        /\ pc[p] = "entry"
        /\ Go(p, "present") \/ Go(p, miss[p])
    BY <1>1 DEF LookEntry, Miss
  <2>2. \A q \in Procs : q # p => pc'[q] = pc[q] /\ i'[q] = i[q]
    BY <2>1, <1>t, Types
  <2>3. pc'[p] \notin {"write", "publish"}
    BY <2>1, <1>t
  <2>. QED
    BY <2>1, <2>2, <2>3, StageInv DEF StageInv
<1>2. ASSUME NEW p \in Procs, ReadFails(p)
     PROVE  StageInv'
  BY <1>2, StepInv, NamesInv, FreshInv, StageInv, <1>t, <1>f, <1>r DEF ReadFails,
      Miss, StepInv, NamesInv, FreshInv, StageInv, Works, Exists, Staging
<1>3. ASSUME NEW p \in Procs, LookFile(p)
     PROVE  StageInv'
  BY <1>3, StepInv, NamesInv, FreshInv, StageInv, <1>t, <1>f, <1>r DEF LookFile,
      NextFile, Holds, StepInv, NamesInv, FreshInv, StageInv, Works, Exists, Staging
<1>4. ASSUME NEW p \in Procs, LookSafe(p)
     PROVE  StageInv'
  BY <1>4, StepInv, NamesInv, FreshInv, StageInv, <1>t, <1>f, <1>r DEF LookSafe,
      Miss, Holds, Writable, StepInv, NamesInv, FreshInv, StageInv, Works, Exists,
      Staging
<1>5. ASSUME NEW p \in Procs, ReadFile(p)
     PROVE  StageInv'
  <2>1. pc[p] = "read" /\ UNCHANGED <<path, files, content, staging>>
    BY <1>5 DEF ReadFile
  <2>2. \A q \in Procs : q # p => pc'[q] = pc[q] /\ i'[q] = i[q]
    BY <1>5, <1>t, Types DEF ReadFile, Miss
  <2>3. pc'[p] \notin {"write", "publish"}
    BY <1>5, <1>t DEF ReadFile, Miss
  <2>. QED
    BY <2>1, <2>2, <2>3, StageInv DEF StageInv
<1>6. ASSUME NEW p \in Procs, DebrisRename(p)
     PROVE  StageInv'
  BY <1>6, StepInv, NamesInv, FreshInv, StageInv, <1>t, <1>f, <1>r DEF DebrisRename,
      Rename, StepInv, NamesInv, FreshInv, StageInv, Works, Exists, Staging
<1>7. ASSUME NEW p \in Procs, DebrisJudge(p)
     PROVE  StageInv'
  <2>1. /\ UNCHANGED <<path, files, content, i, staging>>
        /\ Go(p, "debrisBack") \/ Go(p, "rm") \/ Go(p, miss[p])
    BY <1>7, <1>t, <1>r DEF DebrisJudge
  <2>. QED
    BY <2>1, <1>t, StageInv DEF StageInv
<1>8. ASSUME NEW p \in Procs, DebrisBack(p)
     PROVE  StageInv'
  <2>1. UNCHANGED <<files, content, i, staging>> /\ pc[p] = "debrisBack"
    BY <1>8 DEF DebrisBack
  <2>2. Go(p, "rm") \/ Go(p, miss[p])
    BY <1>8, <1>t, <1>r DEF DebrisBack, Miss
  <2>3. \A d \in Dirs : path'[d] \in Dirs => path'[d] = path[d]
    BY <1>8, <1>t, <1>f, StepInv DEF DebrisBack, Rename, StepInv
  <2>4. \A q \in Procs : pc'[q] \in Staging =>
          q # p /\ pc[q] = pc'[q] /\ staging[q] \in Dirs
    BY <2>2, <1>t, StepInv DEF StepInv, Staging
  <2>. QED
    BY <2>1, <2>3, <2>4, StageInv DEF StageInv, Staging
<1>9. ASSUME NEW p \in Procs, Compile(p)
     PROVE  StageInv'
  BY <1>9, StepInv, NamesInv, FreshInv, StageInv, <1>t, <1>f, <1>r DEF Compile,
      Content, Writable, StepInv, NamesInv, FreshInv, StageInv, Works, Exists,
      Staging
<1>10. ASSUME NEW p \in Procs, StageWrite(p)
     PROVE  StageInv'
  <2>. DEFINE d == At(staging[p])
  <2>1. staging[p] \in Dirs /\ d \in Dirs /\ path[d] = staging[p] /\ pc[p] = "write"
    BY <1>10, AtPath, StepInv DEF StageWrite, StepInv, Staging
  <2>2. /\ files' = [files EXCEPT ![d] = files[d] \cup {Files[i[p]]}]
        /\ content' = [content EXCEPT ![d] = p] /\ i' = [i EXCEPT ![p] = NextFile(p)]
        /\ Go(p, IF i[p] = 3 THEN "publish" ELSE "write") /\ UNCHANGED <<path, staging>>
    BY <1>10 DEF StageWrite, Content, LastFile
  <2>3. i \in [Procs -> 1..3]
    BY Types
  <2>4. ASSUME NEW q \in Procs, q # p, NEW c \in Dirs, path[c] = staging[q], staging[q] \in Dirs
        PROVE  c # d
    BY <2>1, <2>4, NamesInv DEF NamesInv
  <2>5. ASSUME NEW q \in Procs, q # p, NEW c \in Dirs, path'[c] = staging'[q]
        PROVE  /\ pc'[q] = "write" => /\ i'[q] > 1 => "lowered" \in files'[c]
                                      /\ i'[q] > 2 => "ptx" \in files'[c]
               /\ pc'[q] = "publish" => files'[c] = All /\ content'[c] = q
    <3>. HIDE DEF d
    <3>. QED
      BY <2>1, <2>2, <2>3, <2>4, <2>5, <1>t, <1>f, StageInv, StepInv DEF StageInv,
          StepInv, Staging
  <2>6. ASSUME NEW c \in Dirs, path'[c] = staging'[p]
        PROVE  /\ pc'[p] = "write" => /\ i'[p] > 1 => "lowered" \in files'[c]
                                      /\ i'[p] > 2 => "ptx" \in files'[c]
               /\ pc'[p] = "publish" => files'[c] = All /\ content'[c] = p
    <3>1. c = d
      BY <2>1, <2>2, <2>6, <1>f
    <3>2. /\ i[p] > 1 => "lowered" \in files[d]
          /\ i[p] > 2 => "ptx" \in files[d]
      BY <2>1, StageInv DEF StageInv
    <3>3. /\ i[p] = 1 => i'[p] = 2 /\ pc'[p] = "write" /\ files'[d] = files[d] \cup {"lowered"}
          /\ i[p] = 2 => i'[p] = 3 /\ pc'[p] = "write" /\ files'[d] = files[d] \cup {"ptx"}
          /\ i[p] = 3 => i'[p] = 1 /\ pc'[p] = "publish" /\ files'[d] = files[d] \cup {"metadata"}
          /\ content'[d] = p
      <4>. HIDE DEF d
      <4>. QED
        BY <2>1, <2>2, <2>3, <1>t, <1>f DEF Go, NextFile, Files
    <3>4. files[d] \subseteq All /\ i[p] \in {1, 2, 3}
      BY <2>1, <2>3, <1>f
    <3>. HIDE DEF d
    <3>. QED
      BY <3>1, <3>2, <3>3, <3>4 DEF All
  <2>. QED
    BY <2>5, <2>6 DEF StageInv
<1>11. ASSUME NEW p \in Procs, Publish(p)
     PROVE  StageInv'
  BY <1>11, StepInv, NamesInv, FreshInv, StageInv, <1>t, <1>f, <1>r DEF Publish,
      CanRename, Rename, AfterConflict, StepInv, NamesInv, FreshInv, StageInv,
      Works, Exists, Staging
<1>12. ASSUME NEW p \in Procs, Cleanup(p)
     PROVE  StageInv'
  <2>1. /\ UNCHANGED <<path, files, content, i, staging>>
        /\ Go(p, "rm") \/ Go(p, "idle")
    BY <1>12 DEF Cleanup, Rmtree
  <2>. QED
    BY <2>1, <1>t, StageInv DEF StageInv
<1>13. ASSUME NEW p \in Procs, GiveUp(p)
     PROVE  StageInv'
  BY <1>13, StepInv, NamesInv, FreshInv, StageInv, <1>t, <1>f, <1>r DEF GiveUp,
      Unexpected, StepInv, NamesInv, FreshInv, StageInv, Works, Exists, Staging
<1>14. ASSUME NEW p \in Procs, TrimList(p)
     PROVE  StageInv'
  BY <1>14, StepInv, NamesInv, FreshInv, StageInv, <1>t, <1>f, <1>r DEF TrimList,
      StepInv, NamesInv, FreshInv, StageInv, Works, Exists, Staging
<1>15. ASSUME NEW p \in Procs, TrimNext(p)
     PROVE  StageInv'
  <2>1. \A n \in stale[p] : n \in Dirs \cup {None}
    BY Types
  <2>2. /\ pc[p] = "trimming" /\ UNCHANGED <<path, files, content, old, debris, evicted, i, seen, read, key,
                                         miss, staging, aside, victims, off, artifact>>
        /\ \/ \E n \in stale[p] : Exists(n) /\ At(n) \in old /\ Rmtree(p, n, "trimming")
           \/ UNCHANGED rmVars /\ Go(p, IF victims[p] = <<>> THEN "cleanup" ELSE "discard")
    BY <1>15, TrimNextCases, Zenon
  <2>3. Go(p, "rm") \/ Go(p, "trimming") \/ Go(p, "cleanup") \/ Go(p, "discard")
    BY <1>r, <2>1, <2>2
  <2>. QED
    BY <2>2, <2>3, <1>t, StageInv DEF StageInv
<1>16. ASSUME NEW p \in Procs, DiscardRename(p)
     PROVE  StageInv'
  BY <1>16, StepInv, NamesInv, FreshInv, StageInv, <1>t, <1>f, <1>r DEF
      DiscardRename, Rename, StepInv, NamesInv, FreshInv, StageInv, Works, Exists,
      Staging
<1>17. ASSUME NEW p \in Procs, DiscardRm(p)
     PROVE  StageInv'
  BY <1>17, StepInv, NamesInv, FreshInv, StageInv, <1>t, <1>f, <1>r DEF DiscardRm,
      StepInv, NamesInv, FreshInv, StageInv, Works, Exists, Staging, Renaming
<1>18. ASSUME NEW p \in Procs, RmDir(p)
     PROVE  StageInv'
  <2>1. \A q \in Procs : pc'[q] \in Staging => q # p /\ pc[q] = pc'[q] /\ staging[q] # None
    BY <1>18, RmDirEffect, <1>t, StepInv DEF StepInv, Staging
  <2>2. \A d \in Dirs : path'[d] # None => path'[d] = path[d]
    BY <1>18, RmDirEffect
  <2>3. UNCHANGED <<files, content, i, staging>>
    BY <1>18, RmDirEffect
  <2>. QED
    BY <2>1, <2>2, <2>3, StageInv DEF StageInv, Staging
<1>19. ASSUME NEW p \in Procs, NEW f \in All, RmFile(p, f)
     PROVE  StageInv'
  <2>1. \A q \in Procs, d \in Dirs :
          pc[q] \in Staging /\ path[d] = staging[q] => d # rmdir[p]
    BY <1>19, <1>t, <1>f, StepInv, RmInv, FreshInv DEF RmFile, StepInv, RmInv,
        FreshInv, Works
  <2>2. rmdir[p] \in Dirs /\ files' = [files EXCEPT ![rmdir[p]] = files[rmdir[p]] \ {f}]
    BY <1>19, StepInv DEF RmFile, StepInv
  <2>3. UNCHANGED <<path, content, pc, i, staging>>
    BY <1>19 DEF RmFile
  <2>. QED
    BY <2>1, <2>2, <2>3, <1>f, StageInv DEF StageInv, Staging
<1>20. ASSUME NEW p \in Procs, NEW d \in Dirs, DebrisMkdir(p, d)
     PROVE  StageInv'
  BY <1>20, StepInv, NamesInv, FreshInv, StageInv, <1>t, <1>f, <1>r, MkdtempEffect
      DEF DebrisMkdir, StepInv, NamesInv, FreshInv, StageInv, Works, Exists, Staging
<1>21. ASSUME NEW p \in Procs, NEW d \in Dirs, StageMkdir(p, d)
     PROVE  StageInv'
  <2>1. i \in [Procs -> 1..3]
    BY Types
  <2>. QED
    BY <1>21, <2>1, <1>t, <1>f, MkdtempEffect, StageInv DEF StageMkdir, StageInv
<1>22. ASSUME NEW p \in Procs, NEW d \in Dirs, DiscardMkdir(p, d)
     PROVE  StageInv'
  BY <1>22, StepInv, NamesInv, FreshInv, StageInv, <1>t, <1>f, <1>r, MkdtempEffect
      DEF DiscardMkdir, StepInv, NamesInv, FreshInv, StageInv, Works, Exists,
      Staging
<1>23. ASSUME NEW p \in Procs, Kill(p)
     PROVE  StageInv'
  BY <1>23, StepInv, NamesInv, FreshInv, StageInv, <1>t, <1>f, <1>r DEF Kill,
      StepInv, NamesInv, FreshInv, StageInv, Works, Exists, Staging
<1>24. ASSUME NEW p \in Procs, NEW k \in Keys, Lookup(p, k)
     PROVE  StageInv'
  BY <1>24, StepInv, NamesInv, FreshInv, StageInv, <1>t, <1>f, <1>r DEF Lookup,
      StepInv, NamesInv, FreshInv, StageInv, Works, Exists, Staging
<1>25. ASSUME NEW d \in Dirs, Hour(d)
     PROVE  StageInv'
  BY <1>25, StepInv, NamesInv, FreshInv, StageInv, <1>t, <1>f, <1>r DEF Hour,
      AtRest, StepInv, NamesInv, FreshInv, StageInv, Works, Exists, Staging
<1>26. CASE UNCHANGED vars
  BY <1>26, StepInv, NamesInv, FreshInv, StageInv, <1>t, <1>f, <1>r DEF vars,
      StepInv, NamesInv, FreshInv, StageInv, Works, Exists, Staging
<1>27. ASSUME NEW p \in Procs, ReadRaises(p)
     PROVE  StageInv'
  BY <1>27, StepInv, NamesInv, FreshInv, StageInv, <1>t, <1>f, <1>r DEF ReadRaises,
      Miss, StepInv, NamesInv, FreshInv, StageInv, Works, Exists, Staging
<1>28. ASSUME NEW p \in Procs, RenameRefused(p)
     PROVE  StageInv'
  <2>1. PICK back \in {"compile", "cleanup"} :
          /\ Rmtree(p, aside[p], back)
          /\ back = IF pc[p] = "discardRename" THEN "cleanup" ELSE miss[p]
    BY <1>28, RefusedEffect, Zenon
  <2>2. /\ pc[p] \in {"debrisRename", "debrisBack", "discardRename"}
        /\ UNCHANGED <<path, files, content, old, debris, taken, evicted, i, seen,
                       read, key, miss, staging, aside, victims>>
    BY <1>28, RefusedEffect
  <2>3. Go(p, "rm") \/ Go(p, back)
    BY <2>1 DEF Rmtree
  <2>. QED
    BY <2>2, <2>3, <1>t, StageInv DEF StageInv
<1>. QED
  BY <1>1, <1>2, <1>3, <1>4, <1>5, <1>6, <1>7, <1>8, <1>9, <1>10, <1>11, <1>12,
      <1>13, <1>14, <1>15, <1>16, <1>17, <1>18, <1>19, <1>20, <1>21, <1>22, <1>23,
      <1>24, <1>25, <1>26, <1>27, <1>28 DEF Next, Step

-------------------------------------------------------------------------------
(* Removals, debris, entries and readers. *)

\* A removal keeps to the directory it opened: no process renames that one to a
\* key, and none makes another one at its path.
LEMMA RmStep ==
  ASSUME TypeInv, StepInv, NamesInv, FreshInv, StageInv, RmInv, AsideInv, [Next]_vars
  PROVE  RmInv'
<1>. USE DiskCacheAssumption
<1>t. /\ pc \in [Procs -> Labels] /\ key \in [Procs -> Keys \cup {None}]
      /\ staging \in [Procs -> Dirs \cup {None}] /\ aside \in [Procs -> Dirs \cup {None}]
      /\ rmpath \in [Procs -> Dirs \cup {None}] /\ rmdir \in [Procs -> Dirs \cup {None}]
      /\ rmleft \in [Procs -> SUBSET All]
      /\ \A p \in Procs : /\ miss[p] \in {"compile", "cleanup"}
                          /\ rmback[p] \in {"idle", "trimming", "compile", "cleanup"}
  BY Types
<1>f. /\ path \in [Dirs -> Keys \cup Dirs \cup {None}]
      /\ \A c, d \in Dirs : path[c] = path[d] /\ path[c] # None => c = d
      /\ files \in [Dirs -> SUBSET All] /\ content \in [Dirs -> Procs \cup {None}]
  BY DEF TypeInv, FsType
<1>r. \A p \in Procs, n \in Dirs \cup {None} : \A back : Rmtree(p, n, back) =>
        \/ \E d \in Dirs : /\ path[d] = n /\ n \in Dirs
                          /\ rmpath' = Put(rmpath, p, n) /\ rmdir' = Put(rmdir, p, d)
                          /\ rmleft' = Put(rmleft, p, files[d])
                          /\ Go(p, "rm")
        \/ Go(p, back) /\ UNCHANGED rmVars
  BY RmtreeEffect
<1>1. ASSUME NEW p \in Procs, LookEntry(p)
     PROVE  RmInv'
  <2>1. /\ UNCHANGED <<path, files, old, staging, aside, rmpath, rmdir, rmleft>>
        /\ Go(p, "present") \/ Go(p, miss[p])
    BY <1>1 DEF LookEntry, Miss
  <2>. QED
    BY <2>1, <1>t, RmInv DEF RmInv
<1>2. ASSUME NEW p \in Procs, ReadFails(p)
     PROVE  RmInv'
  BY <1>2, StepInv, NamesInv, FreshInv, RmInv, <1>t, <1>f, <1>r DEF ReadFails, Miss,
      StepInv, NamesInv, FreshInv, Works, Exists, Staging, RmInv, AsideInv, Aged,
      Missed
<1>3. ASSUME NEW p \in Procs, LookFile(p)
     PROVE  RmInv'
  BY <1>3, StepInv, NamesInv, FreshInv, RmInv, <1>t, <1>f, <1>r DEF LookFile,
      NextFile, Holds, StepInv, NamesInv, FreshInv, Works, Exists, Staging, RmInv,
      AsideInv, Aged, Missed
<1>4. ASSUME NEW p \in Procs, LookSafe(p)
     PROVE  RmInv'
  BY <1>4, StepInv, NamesInv, FreshInv, RmInv, <1>t, <1>f, <1>r DEF LookSafe, Miss,
      Holds, Writable, StepInv, NamesInv, FreshInv, Works, Exists, Staging, RmInv,
      AsideInv, Aged, Missed
<1>5. ASSUME NEW p \in Procs, ReadFile(p)
     PROVE  RmInv'
  BY <1>5, StepInv, NamesInv, FreshInv, RmInv, <1>t, <1>f, <1>r DEF ReadFile, Miss,
      NextFile, Holds, StepInv, NamesInv, FreshInv, Works, Exists, Staging, RmInv,
      AsideInv, Aged, Missed
<1>6. ASSUME NEW p \in Procs, DebrisRename(p)
     PROVE  RmInv'
  <2>1. /\ UNCHANGED <<files, old, staging, aside>> /\ pc[p] = "debrisRename"
        /\ aside[p] \in Dirs /\ key[p] \in Keys
        /\ \/ Rename(key[p], aside[p]) /\ Go(p, "debrisJudge") /\ UNCHANGED rmVars
           \/ Rmtree(p, aside[p], miss[p]) /\ UNCHANGED path
    BY <1>6, StepInv DEF DebrisRename, StepInv, Setting, Renaming
  <2>2. CASE Rename(key[p], aside[p]) /\ Go(p, "debrisJudge") /\ UNCHANGED rmVars
    <3>1. \A q \in Procs : pc'[q] = "rm" => q # p /\ pc[q] = "rm" /\ rmpath[q] # aside[p]
      BY <2>1, <2>2, <1>t, FreshInv DEF FreshInv, Works, Renaming
    <3>2. \A q \in Procs : pc'[q] = "rm" => rmpath[q] \in Dirs /\ rmdir[q] \in Dirs
      BY <3>1, StepInv DEF StepInv
    <3>3. \A d \in Dirs : path'[d] \in {path[d], None, aside[p]}
      BY <2>2, <1>f DEF Rename
    <3>4. \A q \in Procs : pc'[q] = "rm" => path'[rmdir[q]] \in {rmpath[q], None}
      BY <2>1, <2>2, <3>1, <3>2, <1>f, RmInv DEF RmInv, Rename
    <3>. QED
      BY <2>1, <2>2, <3>1, <3>2, <3>3, <3>4, RmInv DEF RmInv
  <2>3. CASE Rmtree(p, aside[p], miss[p]) /\ UNCHANGED path
    <3>1. \/ \E d \in Dirs : /\ path[d] = aside[p] /\ rmpath' = Put(rmpath, p, aside[p])
                            /\ rmdir' = Put(rmdir, p, d) /\ rmleft' = Put(rmleft, p, files[d])
          \/ Go(p, miss[p]) /\ UNCHANGED rmVars
      BY <2>1, <2>3, <1>r
    <3>2. \A q \in Procs \ {p} : pc'[q] = pc[q]
      BY <2>1, <2>3, <1>t, <1>r
    <3>. QED
      BY <2>1, <2>3, <3>1, <3>2, <1>t, <1>f, RmInv DEF RmInv
  <2>. QED
    BY <2>1, <2>2, <2>3
<1>7. ASSUME NEW p \in Procs, DebrisJudge(p)
     PROVE  RmInv'
  <2>1. /\ UNCHANGED <<path, files, old, staging, aside>> /\ pc[p] = "debrisJudge" /\ aside[p] \in Dirs
        /\ \/ \E d \in Dirs : /\ path[d] = aside[p] /\ rmpath' = Put(rmpath, p, aside[p])
                            /\ rmdir' = Put(rmdir, p, d) /\ rmleft' = Put(rmleft, p, files[d])
                            /\ Go(p, "rm")
           \/ (Go(p, miss[p]) \/ Go(p, "debrisBack")) /\ UNCHANGED rmVars
    BY <1>7, <1>t, <1>r, StepInv DEF DebrisJudge, StepInv, Setting
  <2>. QED
    BY <2>1, <1>t, <1>f, RmInv DEF RmInv
<1>8. ASSUME NEW p \in Procs, DebrisBack(p)
     PROVE  RmInv'
  BY <1>8, StepInv, NamesInv, FreshInv, RmInv, <1>t, <1>f, <1>r, AsideInv DEF
      DebrisBack, Rename, Miss, CanRename, StepInv, NamesInv, FreshInv, Works,
      Exists, Staging, Setting, RmInv, AsideInv, Aged, Missed
<1>9. ASSUME NEW p \in Procs, Compile(p)
     PROVE  RmInv'
  BY <1>9, StepInv, NamesInv, FreshInv, RmInv, <1>t, <1>f, <1>r DEF Compile,
      Content, Writable, StepInv, NamesInv, FreshInv, Works, Exists, Staging, RmInv,
      AsideInv, Aged, Missed
<1>10. ASSUME NEW p \in Procs, StageWrite(p)
     PROVE  RmInv'
  BY <1>10, StepInv, NamesInv, FreshInv, RmInv, <1>t, <1>f, <1>r, ModifyOld, AtPath
      DEF StageWrite, Content, NextFile, LastFile, StepInv, NamesInv, FreshInv,
      Works, Exists, Staging, RmInv, AsideInv, Aged, Missed
<1>11. ASSUME NEW p \in Procs, Publish(p)
     PROVE  RmInv'
  BY <1>11, StepInv, NamesInv, FreshInv, RmInv, <1>t, <1>f, <1>r DEF Publish,
      CanRename, Rename, AfterConflict, StepInv, NamesInv, FreshInv, Works, Exists,
      Staging, RmInv, AsideInv, Aged, Missed
<1>12. ASSUME NEW p \in Procs, Cleanup(p)
     PROVE  RmInv'
  <2>1. /\ UNCHANGED <<path, files, old, staging, aside>> /\ pc[p] # "rm"
        /\ \/ \E d \in Dirs : /\ path[d] = staging[p] /\ staging[p] \in Dirs
                            /\ rmpath' = Put(rmpath, p, staging[p]) /\ rmdir' = Put(rmdir, p, d)
                            /\ rmleft' = Put(rmleft, p, files[d]) /\ Go(p, "rm")
           \/ Go(p, "idle") /\ UNCHANGED rmVars
    BY <1>12, <1>t, <1>r DEF Cleanup, Finally
  <2>. QED
    BY <2>1, <1>t, <1>f, RmInv DEF RmInv
<1>13. ASSUME NEW p \in Procs, GiveUp(p)
     PROVE  RmInv'
  BY <1>13, StepInv, NamesInv, FreshInv, RmInv, <1>t, <1>f, <1>r DEF GiveUp,
      Unexpected, StepInv, NamesInv, FreshInv, Works, Exists, Staging, RmInv,
      AsideInv, Aged, Missed
<1>14. ASSUME NEW p \in Procs, TrimList(p)
     PROVE  RmInv'
  BY <1>14, StepInv, NamesInv, FreshInv, RmInv, <1>t, <1>f, <1>r DEF TrimList,
      StepInv, NamesInv, FreshInv, Works, Exists, Staging, RmInv, AsideInv, Aged,
      Missed
<1>15. ASSUME NEW p \in Procs, TrimNext(p)
     PROVE  RmInv'
  <2>1. \A n \in stale[p] : n \in Dirs \cup {None}
    BY Types
  <2>2. /\ pc[p] = "trimming" /\ UNCHANGED <<path, files, content, old, debris, evicted, i, seen, read, key,
                                         miss, staging, aside, victims, off, artifact>>
        /\ \/ \E n \in stale[p] : Exists(n) /\ At(n) \in old /\ Rmtree(p, n, "trimming")
           \/ UNCHANGED rmVars /\ Go(p, IF victims[p] = <<>> THEN "cleanup" ELSE "discard")
    BY <1>15, TrimNextCases, Zenon
  <2>3. \/ \E n, d \in Dirs : /\ path[d] = n /\ d \in old
                             /\ rmpath' = Put(rmpath, p, n) /\ rmdir' = Put(rmdir, p, d)
                             /\ rmleft' = Put(rmleft, p, files[d]) /\ Go(p, "rm")
        \/ /\ UNCHANGED rmVars
           /\ Go(p, "trimming") \/ Go(p, IF victims[p] = <<>> THEN "cleanup" ELSE "discard")
    BY <1>r, <2>1, <2>2, AtPath
  <2>. QED
    BY <2>2, <2>3, <1>t, <1>f, RmInv DEF RmInv
<1>16. ASSUME NEW p \in Procs, DiscardRename(p)
     PROVE  RmInv'
  <2>0. Head(victims[p]) \in Keys
    BY <1>16, TypeInv, StepInv, HeadTailProperties DEF StepInv, DiscardRename,
        TypeInv, ProcessType
  <2>1. /\ pc[p] = "discardRename" /\ aside[p] \in Dirs /\ Go(p, "discardRm")
        /\ UNCHANGED <<files, old, staging, aside, rmpath, rmdir, rmleft>>
        /\ Rename(Head(victims[p]), aside[p]) \/ UNCHANGED path
    BY <1>16, StepInv DEF DiscardRename, StepInv, Renaming, Setting
  <2>2. \A q \in Procs : pc[q] = "rm" => rmpath[q] # aside[p]
    BY <2>1, FreshInv DEF FreshInv, Works, Renaming
  <2>3. SUFFICES ASSUME NEW q \in Procs, q # p, pc[q] = "rm"
                 PROVE  /\ path'[rmdir[q]] \in {rmpath[q], None}
                        /\ \A d \in Dirs : path'[d] = rmpath[q] => d = rmdir[q]
    BY <2>1, <1>t, RmInv DEF RmInv
  <2>4. rmpath[q] \in Dirs /\ rmdir[q] \in Dirs /\ path[rmdir[q]] \in {rmpath[q], None}
        /\ \A d \in Dirs : path[d] = rmpath[q] => d = rmdir[q]
    BY <2>3, StepInv, RmInv DEF StepInv, RmInv
  <2>. QED
    BY <2>0, <2>1, <2>2, <2>3, <2>4, <1>f DEF Rename
<1>17. ASSUME NEW p \in Procs, DiscardRm(p)
     PROVE  RmInv'
  BY <1>17, StepInv, NamesInv, FreshInv, RmInv, <1>t, <1>f, <1>r DEF DiscardRm,
      StepInv, NamesInv, FreshInv, Works, Exists, Staging, Setting, RmInv, AsideInv,
      Aged, Missed
<1>18. ASSUME NEW p \in Procs, RmDir(p)
     PROVE  RmInv'
  <2>1. \A d \in Dirs : path'[d] = path[d] \/ path'[d] = None
    BY <1>18 DEF RmDir
  <2>2. /\ \A q \in Procs \ {p} : pc'[q] = pc[q] /\ rmpath'[q] = rmpath[q] /\ rmdir'[q] = rmdir[q]
        /\ pc'[p] # "rm" /\ UNCHANGED <<files, old, staging, aside, rmleft>>
    BY <1>18, <1>t DEF RmDir
  <2>3. SUFFICES ASSUME NEW q \in Procs, q # p, pc[q] = "rm"
                 PROVE  /\ path'[rmdir[q]] \in {rmpath[q], None}
                        /\ \A d \in Dirs : path'[d] = rmpath[q] => d = rmdir[q]
    BY <2>2, RmInv DEF RmInv
  <2>4. rmpath[q] \in Dirs /\ rmdir[q] \in Dirs /\ path[rmdir[q]] \in {rmpath[q], None}
        /\ \A d \in Dirs : path[d] = rmpath[q] => d = rmdir[q]
    BY <2>3, StepInv, RmInv DEF StepInv, RmInv
  <2>. QED
    BY <2>1, <2>3, <2>4
<1>19. ASSUME NEW p \in Procs, NEW f \in All, RmFile(p, f)
     PROVE  RmInv'
  BY <1>19, StepInv, NamesInv, FreshInv, RmInv, <1>t, <1>f, <1>r, ModifyOld DEF
      RmFile, StepInv, NamesInv, FreshInv, Works, Exists, Staging, RmInv, AsideInv,
      Aged, Missed
<1>20. ASSUME NEW p \in Procs, NEW d \in Dirs, DebrisMkdir(p, d)
     PROVE  RmInv'
  BY <1>20, StepInv, NamesInv, FreshInv, RmInv, <1>t, <1>f, <1>r, MkdtempEffect DEF
      DebrisMkdir, StepInv, NamesInv, FreshInv, Works, Exists, Staging, RmInv,
      AsideInv, Aged, Missed
<1>21. ASSUME NEW p \in Procs, NEW d \in Dirs, StageMkdir(p, d)
     PROVE  RmInv'
  BY <1>21, StepInv, NamesInv, FreshInv, RmInv, <1>t, <1>f, <1>r, MkdtempEffect DEF
      StageMkdir, StepInv, NamesInv, FreshInv, Works, Exists, Staging, RmInv,
      AsideInv, Aged, Missed
<1>22. ASSUME NEW p \in Procs, NEW d \in Dirs, DiscardMkdir(p, d)
     PROVE  RmInv'
  BY <1>22, StepInv, NamesInv, FreshInv, RmInv, <1>t, <1>f, <1>r, MkdtempEffect DEF
      DiscardMkdir, StepInv, NamesInv, FreshInv, Works, Exists, Staging, RmInv,
      AsideInv, Aged, Missed
<1>23. ASSUME NEW p \in Procs, Kill(p)
     PROVE  RmInv'
  BY <1>23, StepInv, NamesInv, FreshInv, RmInv, <1>t, <1>f, <1>r DEF Kill, StepInv,
      NamesInv, FreshInv, Works, Exists, Staging, RmInv, AsideInv, Aged, Missed
<1>24. ASSUME NEW p \in Procs, NEW k \in Keys, Lookup(p, k)
     PROVE  RmInv'
  BY <1>24, StepInv, NamesInv, FreshInv, RmInv, <1>t, <1>f, <1>r DEF Lookup,
      StepInv, NamesInv, FreshInv, Works, Exists, Staging, RmInv, AsideInv, Aged,
      Missed
<1>25. ASSUME NEW d \in Dirs, Hour(d)
     PROVE  RmInv'
  BY <1>25, StepInv, NamesInv, FreshInv, RmInv, <1>t, <1>f, <1>r DEF Hour, AtRest,
      StepInv, NamesInv, FreshInv, Works, Exists, Staging, RmInv, AsideInv, Aged,
      Missed
<1>26. CASE UNCHANGED vars
  BY <1>26, StepInv, NamesInv, FreshInv, RmInv, <1>t, <1>f, <1>r DEF vars, StepInv,
      NamesInv, FreshInv, Works, Exists, Staging, RmInv, AsideInv, Aged, Missed
<1>27. ASSUME NEW p \in Procs, ReadRaises(p)
     PROVE  RmInv'
  BY <1>27, StepInv, NamesInv, FreshInv, RmInv, <1>t, <1>f, <1>r DEF ReadRaises, Miss,
      StepInv, NamesInv, FreshInv, Works, Exists, Staging, RmInv, AsideInv, Aged,
      Missed
<1>28. ASSUME NEW p \in Procs, RenameRefused(p)
     PROVE  RmInv'
  <2>1. PICK back \in {"compile", "cleanup"} :
          /\ Rmtree(p, aside[p], back)
          /\ back = IF pc[p] = "discardRename" THEN "cleanup" ELSE miss[p]
    BY <1>28, RefusedEffect, Zenon
  <2>2. /\ pc[p] \in {"debrisRename", "debrisBack", "discardRename"}
        /\ UNCHANGED <<path, files, content, old, debris, taken, evicted, i, seen,
                       read, key, miss, staging, aside, victims>>
    BY <1>28, RefusedEffect
  <2>3. aside[p] \in Dirs
    BY <2>2, StepInv DEF StepInv, Setting, Renaming
  <2>4. \/ \E d \in Dirs : /\ path[d] = aside[p] /\ rmpath' = Put(rmpath, p, aside[p])
                            /\ rmdir' = Put(rmdir, p, d)
                            /\ rmleft' = Put(rmleft, p, files[d]) /\ Go(p, "rm")
        \/ Go(p, back) /\ UNCHANGED rmVars
    BY <2>1, <2>3, <1>r
  <2>. QED
    BY <2>2, <2>3, <2>4, <1>t, <1>f, RmInv DEF RmInv
<1>. QED
  BY <1>1, <1>2, <1>3, <1>4, <1>5, <1>6, <1>7, <1>8, <1>9, <1>10, <1>11, <1>12,
      <1>13, <1>14, <1>15, <1>16, <1>17, <1>18, <1>19, <1>20, <1>21, <1>22, <1>23,
      <1>24, <1>25, <1>26, <1>27, <1>28 DEF Next, Step

\* What is set aside as debris is judged and put back before it ages.
LEMMA AsideStep ==
  ASSUME "stall" \notin Faults, TypeInv, StepInv, NamesInv, FreshInv, StageInv, RmInv, AsideInv, [Next]_vars
  PROVE  AsideInv'
<1>. USE DiskCacheAssumption
<1>t. /\ pc \in [Procs -> Labels] /\ key \in [Procs -> Keys \cup {None}]
      /\ staging \in [Procs -> Dirs \cup {None}] /\ aside \in [Procs -> Dirs \cup {None}]
      /\ rmpath \in [Procs -> Dirs \cup {None}] /\ rmdir \in [Procs -> Dirs \cup {None}]
      /\ \A p \in Procs : /\ miss[p] \in {"compile", "cleanup"}
                          /\ rmback[p] \in {"idle", "trimming", "compile", "cleanup"}
  BY Types
<1>f. /\ path \in [Dirs -> Keys \cup Dirs \cup {None}]
      /\ \A c, d \in Dirs : path[c] = path[d] /\ path[c] # None => c = d
      /\ files \in [Dirs -> SUBSET All] /\ content \in [Dirs -> Procs \cup {None}]
  BY DEF TypeInv, FsType
<1>r. \A p \in Procs, n \in Dirs \cup {None} : \A back : Rmtree(p, n, back) =>
        \/ \E d \in Dirs : /\ path[d] = n /\ n \in Dirs
                          /\ rmpath' = Put(rmpath, p, n) /\ rmdir' = Put(rmdir, p, d)
                          /\ Go(p, "rm")
        \/ Go(p, back) /\ UNCHANGED rmVars
  BY RmtreeEffect
<1>1. ASSUME NEW p \in Procs, LookEntry(p)
     PROVE  AsideInv'
  <2>1. /\ UNCHANGED <<path, files, old, key, aside>> /\ i' = Put(i, p, 1)
        /\ seen' = Put(seen, p, {}) /\ (Go(p, "present") \/ Go(p, miss[p]))
    BY <1>1 DEF LookEntry, Miss
  <2>2. DOMAIN i = Procs /\ DOMAIN seen = Procs
    BY DEF TypeInv, ProcessType
  <2>3. ~Missed(p)' /\ pc'[p] \notin Debrising
    BY <2>1, <2>2, <1>t DEF Missed, Debrising
  <2>4. \A q \in Procs : q # p => (Missed(q)' <=> Missed(q)) /\ pc'[q] = pc[q]
    BY <2>1, <2>2, <1>t DEF Missed
  <2>. QED
    BY <2>1, <2>3, <2>4, AsideInv DEF AsideInv, Aged, Debrising
<1>2. ASSUME NEW p \in Procs, ReadFails(p)
     PROVE  AsideInv'
  BY <1>2, StepInv, NamesInv, AsideInv, <1>t, <1>f, <1>r DEF ReadFails, Miss,
      StepInv, NamesInv, FreshInv, Works, Exists, Staging, RmInv, AsideInv, Aged,
      Missed
<1>3. ASSUME NEW p \in Procs, LookFile(p)
     PROVE  AsideInv'
  <2>1. /\ UNCHANGED <<path, files, old, key, aside>> /\ pc[p] = "present"
        /\ i' = Put(i, p, NextFile(p)) /\ Go(p, IF i[p] = 3 THEN "safe" ELSE "present")
        /\ seen' = [seen EXCEPT ![p] = seen[p] \cup {x \in {ReadOrder[i[p]]} : Holds(key[p], x)}]
    BY <1>3 DEF LookFile
  <2>2. DOMAIN i = Procs /\ DOMAIN seen = Procs /\ i[p] \in 1..3 /\ key[p] \in Keys
    BY <2>1, FileNamed, StepInv DEF TypeInv, ProcessType, StepInv
  <2>3. \A q \in Procs : q # p => (Missed(q)' <=> Missed(q)) /\ pc'[q] = pc[q]
    BY <2>1, <2>2, <1>t DEF Missed
  <2>4. pc'[p] \notin Debrising
    BY <2>1, <1>t DEF Go, Debrising
  <2>5. ASSUME Missed(p)', ~Missed(p)
        PROVE  \A d \in Dirs : path[d] = key[p] => ~Aged(d)
    <3>1. seen'[p] = seen[p] \cup {x \in {ReadOrder[i[p]]} : Holds(key[p], x)}
      BY <2>1, <2>2
    <3>2. \A j \in 1..(i[p] - 1) : ReadOrder[j] \in seen[p]
      BY <2>1, <2>5 DEF Missed
    <3>3. ~Holds(key[p], ReadOrder[i[p]])
      <4>1. CASE i[p] = 3
        <5>1. seen'[p] # All
          BY <2>1, <2>5, <4>1, <1>t DEF Missed
        <5>2. seen[p] \subseteq All
          BY DEF TypeInv, ProcessType
        <5>3. ReadOrder[1] \in seen[p] /\ ReadOrder[2] \in seen[p]
          BY <3>2, <4>1
        <5>. QED
          BY <3>1, <5>1, <5>2, <5>3, <4>1, FileNames
      <4>2. CASE i[p] # 3
        <5>1. i'[p] = i[p] + 1 /\ pc'[p] = "present"
          BY <2>1, <2>2, <4>2, <1>t DEF Go, NextFile
        <5>2. PICK j \in 1..i[p] : ReadOrder[j] \notin seen'[p]
          BY <2>2, <2>5, <5>1 DEF Missed
        <5>3. j = i[p]
          BY <2>2, <3>1, <3>2, <5>2
        <5>. QED
          BY <3>1, <5>2, <5>3
      <4>. QED
        BY <4>1, <4>2
    <3>4. ReadOrder[i[p]] \in All
      BY FileNamed
    <3>. QED
      BY <3>3, <3>4, <2>2, AtPath DEF Holds, Aged, Exists
  <2>. QED
    BY <2>1, <2>3, <2>4, <2>5, AsideInv DEF AsideInv, Aged
<1>4. ASSUME NEW p \in Procs, LookSafe(p)
     PROVE  AsideInv'
  BY <1>4, StepInv, NamesInv, AsideInv, <1>t, <1>f, <1>r DEF LookSafe, Miss, Holds,
      Writable, StepInv, NamesInv, FreshInv, Works, Exists, Staging, RmInv,
      AsideInv, Aged, Missed
<1>5. ASSUME NEW p \in Procs, ReadFile(p)
     PROVE  AsideInv'
  <2>1. /\ UNCHANGED <<path, files, old, key, aside, seen>>
        /\ Go(p, "read") \/ Go(p, "mismatch") \/ Go(p, "cleanup") \/ Go(p, miss[p])
        /\ i' = i \/ i' = Put(i, p, NextFile(p))
    BY <1>5 DEF ReadFile, Miss
  <2>2. DOMAIN i = Procs
    BY DEF TypeInv, ProcessType
  <2>3. ~Missed(p)' /\ pc'[p] \notin Debrising
    BY <2>1, <1>t DEF Missed, Debrising
  <2>4. \A q \in Procs : q # p => (Missed(q)' <=> Missed(q)) /\ pc'[q] = pc[q]
    BY <2>1, <2>2, <1>t DEF Missed
  <2>. QED
    BY <2>1, <2>3, <2>4, AsideInv DEF AsideInv, Aged, Debrising
<1>6. ASSUME NEW p \in Procs, DebrisRename(p)
     PROVE  AsideInv'
  <2>1. pc[p] = "debrisRename" /\ aside[p] \in Dirs /\ key[p] \in Keys
    BY <1>6, StepInv DEF DebrisRename, StepInv, Setting, Renaming
  <2>2. UNCHANGED <<files, old, key, aside, i, seen>>
    BY <1>6 DEF DebrisRename
  <2>3. CASE Rename(key[p], aside[p]) /\ Go(p, "debrisJudge")
    <3>1. \A d \in Dirs :
            /\ path'[d] \in Keys => path'[d] = path[d]
            /\ path'[d] = aside[p] => path[d] = key[p]
            /\ \A n \in Dirs : n # aside[p] => (path'[d] = n <=> path[d] = n)
      BY <2>1, <2>3, <1>f DEF Rename
    <3>2. \A q \in Procs : q # p => (Missed(q)' <=> Missed(q)) /\ pc'[q] = pc[q]
      BY <2>2, <2>3, <1>t DEF Missed
    <3>3. ~Missed(p)' /\ pc'[p] = "debrisJudge"
      BY <2>3, <1>t DEF Missed
    <3>4. \A q \in Procs : pc[q] \in {"debrisJudge", "debrisBack"} =>
            aside[q] \in Dirs /\ (q # p => aside[q] # aside[p])
      BY <2>1, StepInv, NamesInv DEF StepInv, NamesInv, Setting
    <3>5. \A q \in Procs : Missed(q) \/ pc[q] \in {"debris", "debrisRename"} => key[q] \in Keys
      BY <1>t, StepInv DEF StepInv, Missed
    <3>. QED
      BY <2>1, <2>2, <3>1, <3>2, <3>3, <3>4, <3>5, AsideInv DEF AsideInv, Aged
  <2>4. CASE UNCHANGED path /\ (Go(p, "rm") \/ Go(p, miss[p]))
    <3>1. \A q \in Procs : q # p => (Missed(q)' <=> Missed(q)) /\ pc'[q] = pc[q]
      BY <2>2, <2>4, <1>t DEF Missed
    <3>2. ~Missed(p)' /\ pc'[p] \notin Debrising
      BY <2>4, <1>t DEF Missed, Debrising
    <3>. QED
      BY <2>2, <2>4, <3>1, <3>2, AsideInv DEF AsideInv, Aged, Debrising
  <2>. QED
    BY <1>6, <2>1, <2>3, <2>4, <1>t, <1>r DEF DebrisRename
<1>7. ASSUME NEW p \in Procs, DebrisJudge(p)
     PROVE  AsideInv'
  <2>1. /\ UNCHANGED <<path, files, old, key, aside, i, seen>> /\ pc[p] = "debrisJudge"
        /\ \/ Go(p, "debrisBack") /\ \A f \in All : Holds(aside[p], f)
           \/ Go(p, "rm") \/ Go(p, miss[p])
    BY <1>7, <1>t, <1>r DEF DebrisJudge
  <2>2. \A q \in Procs : q # p => (Missed(q)' <=> Missed(q)) /\ pc'[q] = pc[q]
    BY <2>1, <1>t DEF Missed
  <2>3. ~Missed(p)' /\ pc'[p] \notin {"debris", "debrisRename", "debrisJudge"}
    BY <2>1, <1>t DEF Missed
  <2>4. ASSUME pc'[p] = "debrisBack"
        PROVE  \E d \in Dirs : path[d] = aside[p] /\ files[d] = All
    <3>1. \A f \in All : Exists(aside[p]) /\ f \in files[At(aside[p])]
      BY <2>1, <2>4, <1>t DEF Go, Holds
    <3>2. Exists(aside[p]) /\ files[At(aside[p])] \subseteq All
      BY <3>1, <1>f, AtPath DEF All
    <3>3. files[At(aside[p])] = All
      BY <3>1, <3>2
    <3>. QED
      BY <3>2, <3>3, AtPath
  <2>. QED
    BY <2>1, <2>2, <2>3, <2>4, AsideInv DEF AsideInv, Aged
<1>8. ASSUME NEW p \in Procs, DebrisBack(p)
     PROVE  AsideInv'
  <2>1. pc[p] = "debrisBack" /\ aside[p] \in Dirs /\ key[p] \in Keys
    BY <1>8, StepInv DEF DebrisBack, StepInv, Setting
  <2>2. UNCHANGED <<files, old, key, aside, i, seen>>
    BY <1>8 DEF DebrisBack
  <2>3. Go(p, "rm") \/ Go(p, miss[p])
    BY <1>8, <2>1, <1>t, <1>r DEF DebrisBack, Miss
  <2>4. \A q \in Procs : q # p => (Missed(q)' <=> Missed(q)) /\ pc'[q] = pc[q]
    BY <2>2, <2>3, <1>t DEF Missed
  <2>5. ~Missed(p)' /\ pc'[p] \notin Debrising
    BY <2>3, <1>t DEF Missed, Debrising
  <2>6. CASE Rename(aside[p], key[p])
    <3>1. \A d \in Dirs :
            \/ path[d] = aside[p] /\ path'[d] = key[p]
            \/ path[d] = key[p] /\ path'[d] = None
            \/ path[d] \notin {aside[p], key[p]} /\ path'[d] = path[d]
      BY <2>6 DEF Rename
    <3>2. \A q \in Procs : pc[q] \in {"debrisJudge", "debrisBack"} =>
            aside[q] \in Dirs /\ (q # p => aside[q] # aside[p])
      BY <2>1, StepInv, NamesInv DEF StepInv, NamesInv, Setting
    <3>3. \A q \in Procs : Missed(q) \/ pc[q] \in {"debris", "debrisRename"} => key[q] \in Keys
      BY <1>t, StepInv DEF StepInv, Missed
    <3>4. \A d \in Dirs : path[d] = aside[p] => ~Aged(d)
      BY <2>1, AsideInv DEF AsideInv
    <3>. QED
      BY <2>1, <2>2, <2>4, <2>5, <3>1, <3>2, <3>3, <3>4, AsideInv DEF AsideInv,
          Aged, Debrising
  <2>7. CASE UNCHANGED path
    BY <2>2, <2>4, <2>5, <2>7, AsideInv DEF AsideInv, Aged, Debrising
  <2>. QED
    BY <1>8, <2>6, <2>7 DEF DebrisBack
<1>9. ASSUME NEW p \in Procs, Compile(p)
     PROVE  AsideInv'
  BY <1>9, StepInv, NamesInv, AsideInv, <1>t, <1>f, <1>r DEF Compile, Content,
      Writable, StepInv, NamesInv, FreshInv, Works, Exists, Staging, RmInv,
      AsideInv, Aged, Missed
<1>10. ASSUME NEW p \in Procs, StageWrite(p)
     PROVE  AsideInv'
  BY <1>10, StepInv, NamesInv, AsideInv, <1>t, <1>f, <1>r, ModifyOld, AtPath DEF
      StageWrite, Content, NextFile, LastFile, StepInv, NamesInv, FreshInv, Works,
      Exists, Staging, RmInv, AsideInv, Aged, Missed
<1>11. ASSUME NEW p \in Procs, Publish(p)
     PROVE  AsideInv'
  BY <1>11, StepInv, NamesInv, AsideInv, <1>t, <1>f, <1>r, FreshInv DEF Publish,
      CanRename, Rename, AfterConflict, StepInv, NamesInv, FreshInv, Works, Exists,
      Staging, Setting, RmInv, AsideInv, Aged, Missed
<1>12. ASSUME NEW p \in Procs, Cleanup(p)
     PROVE  AsideInv'
  <2>1. /\ UNCHANGED <<path, files, old, key, aside, i, seen>>
        /\ pc[p] \in {"cleanup", "mismatch"} /\ (Go(p, "rm") \/ Go(p, "idle"))
    BY <1>12, <1>t, <1>r DEF Cleanup, Finally
  <2>. QED
    BY <2>1, <1>t, AsideInv DEF AsideInv, Missed, Aged
<1>13. ASSUME NEW p \in Procs, GiveUp(p)
     PROVE  AsideInv'
  BY <1>13, StepInv, NamesInv, AsideInv, <1>t, <1>f, <1>r DEF GiveUp, Unexpected,
      StepInv, NamesInv, FreshInv, Works, Exists, Staging, RmInv, AsideInv, Aged,
      Missed
<1>14. ASSUME NEW p \in Procs, TrimList(p)
     PROVE  AsideInv'
  BY <1>14, StepInv, NamesInv, AsideInv, <1>t, <1>f, <1>r DEF TrimList, StepInv,
      NamesInv, FreshInv, Works, Exists, Staging, RmInv, AsideInv, Aged, Missed
<1>15. ASSUME NEW p \in Procs, TrimNext(p)
     PROVE  AsideInv'
  <2>1. \A n \in stale[p] : n \in Dirs \cup {None}
    BY Types
  <2>2. /\ pc[p] = "trimming" /\ UNCHANGED <<path, files, content, old, debris, evicted, i, seen, read, key,
                                         miss, staging, aside, victims, off, artifact>>
        /\ \/ \E n \in stale[p] : Exists(n) /\ At(n) \in old /\ Rmtree(p, n, "trimming")
           \/ UNCHANGED rmVars /\ Go(p, IF victims[p] = <<>> THEN "cleanup" ELSE "discard")
    BY <1>15, TrimNextCases, Zenon
  <2>3. Go(p, "rm") \/ Go(p, "trimming") \/ Go(p, "cleanup") \/ Go(p, "discard")
    BY <1>r, <2>1, <2>2
  <2>. QED
    BY <2>2, <2>3, <1>t, AsideInv DEF AsideInv, Missed, Aged
<1>16. ASSUME NEW p \in Procs, DiscardRename(p)
     PROVE  AsideInv'
  <2>0. Head(victims[p]) \in Keys
    BY <1>16, TypeInv, StepInv, HeadTailProperties DEF StepInv, DiscardRename,
        TypeInv, ProcessType
  <2>1. /\ pc[p] = "discardRename" /\ aside[p] \in Dirs /\ Go(p, "discardRm")
        /\ UNCHANGED <<files, old, key, aside, i, seen>>
        /\ Rename(Head(victims[p]), aside[p]) \/ UNCHANGED path
    BY <1>16, StepInv DEF DiscardRename, StepInv, Renaming, Setting
  <2>2. \A q \in Procs : q # p => (Missed(q)' <=> Missed(q)) /\ pc'[q] = pc[q]
    BY <2>1, <1>t DEF Missed
  <2>3. ~Missed(p)' /\ pc'[p] \notin Debrising
    BY <2>1, <1>t DEF Missed, Debrising
  <2>4. \A q \in Procs \ {p} : aside[q] # aside[p]
    BY <2>1, NamesInv DEF NamesInv
  <2>5. ASSUME NEW n \in Keys \cup Dirs, n # aside[p], NEW d \in Dirs, path'[d] = n
        PROVE  path[d] = n
    BY <2>0, <2>1, <2>5, <1>f DEF Rename
  <2>6. ASSUME NEW n \in Dirs, n # aside[p], NEW d \in Dirs, path[d] = n
        PROVE  path'[d] = n
    BY <2>0, <2>1, <2>6, <1>f DEF Rename
  <2>7. \A q \in Procs : pc[q] # "idle" => key[q] \in Keys
    BY StepInv DEF StepInv
  <2>8. \A q \in Procs : pc[q] \in {"debrisJudge", "debrisBack"} => aside[q] \in Dirs
    BY StepInv DEF StepInv, Setting
  <2>9. \A q \in Procs : Missed(q) => key[q] \in Keys
    BY <2>7 DEF Missed
  <2>. QED
    BY <2>1, <2>2, <2>3, <2>4, <2>5, <2>6, <2>7, <2>8, <2>9, AsideInv DEF AsideInv,
        Aged
<1>17. ASSUME NEW p \in Procs, DiscardRm(p)
     PROVE  AsideInv'
  BY <1>17, StepInv, NamesInv, AsideInv, <1>t, <1>f, <1>r DEF DiscardRm, StepInv,
      NamesInv, FreshInv, Works, Exists, Staging, RmInv, AsideInv, Aged, Missed
<1>18. ASSUME NEW p \in Procs, RmDir(p)
     PROVE  AsideInv'
  <2>1. \A q \in Procs : q # p => (Missed(q)' <=> Missed(q)) /\ pc'[q] = pc[q]
    BY <1>18, RmDirEffect, <1>t DEF Missed
  <2>2. ~Missed(p)' /\ pc'[p] \notin Debrising
    BY <1>18, RmDirEffect, <1>t DEF Missed, Debrising
  <2>3. \A d \in Dirs : path'[d] # None => path'[d] = path[d]
    BY <1>18, RmDirEffect
  <2>4. \A d \in Dirs : files[d] = All => path'[d] = path[d]
    BY <1>18, RmDirEffect, <1>f DEF All
  <2>5. UNCHANGED <<files, old, key, aside>> /\ key \in [Procs -> Keys \cup {None}]
    BY <1>18, RmDirEffect, <1>t
  <2>6. \A q \in Procs : /\ Missed(q) \/ pc[q] \in {"debris", "debrisRename"} => key[q] # None
                        /\ pc[q] \in {"debrisJudge", "debrisBack"} => aside[q] # None
    BY <1>t, StepInv DEF StepInv, Setting, Missed
  <2>. QED
    BY <2>1, <2>2, <2>3, <2>4, <2>5, <2>6, AsideInv DEF AsideInv, Aged, Debrising
<1>19. ASSUME NEW p \in Procs, NEW f \in All, RmFile(p, f)
     PROVE  AsideInv'
  BY <1>19, StepInv, NamesInv, AsideInv, <1>t, <1>f, <1>r, ModifyOld, RmInv DEF
      RmFile, StepInv, NamesInv, FreshInv, Works, Exists, Staging, Setting, RmInv,
      AsideInv, Aged, Missed
<1>20. ASSUME NEW p \in Procs, NEW d \in Dirs, DebrisMkdir(p, d)
     PROVE  AsideInv'
  BY <1>20, StepInv, NamesInv, AsideInv, <1>t, <1>f, <1>r, MkdtempEffect DEF
      DebrisMkdir, StepInv, NamesInv, FreshInv, Works, Exists, Staging, Setting,
      RmInv, AsideInv, Aged, Missed
<1>21. ASSUME NEW p \in Procs, NEW d \in Dirs, StageMkdir(p, d)
     PROVE  AsideInv'
  BY <1>21, StepInv, NamesInv, AsideInv, <1>t, <1>f, <1>r, MkdtempEffect DEF
      StageMkdir, StepInv, NamesInv, FreshInv, Works, Exists, Staging, Setting,
      RmInv, AsideInv, Aged, Missed
<1>22. ASSUME NEW p \in Procs, NEW d \in Dirs, DiscardMkdir(p, d)
     PROVE  AsideInv'
  BY <1>22, StepInv, NamesInv, AsideInv, <1>t, <1>f, <1>r, MkdtempEffect DEF
      DiscardMkdir, StepInv, NamesInv, FreshInv, Works, Exists, Staging, Setting,
      RmInv, AsideInv, Aged, Missed
<1>23. ASSUME NEW p \in Procs, Kill(p)
     PROVE  AsideInv'
  BY <1>23, StepInv, NamesInv, AsideInv, <1>t, <1>f, <1>r DEF Kill, StepInv,
      NamesInv, FreshInv, Works, Exists, Staging, RmInv, AsideInv, Aged, Missed
<1>24. ASSUME NEW p \in Procs, NEW k \in Keys, Lookup(p, k)
     PROVE  AsideInv'
  BY <1>24, StepInv, NamesInv, AsideInv, <1>t, <1>f, <1>r DEF Lookup, StepInv,
      NamesInv, FreshInv, Works, Exists, Staging, RmInv, AsideInv, Aged, Missed
<1>25. ASSUME NEW d \in Dirs, Hour(d)
     PROVE  AsideInv'
  <2>1. AtRest
    BY <1>25 DEF Hour
  <2>. QED
    BY <1>25, <2>1, StepInv, NamesInv, AsideInv, <1>t, <1>f, <1>r DEF Hour, AtRest,
        StepInv, NamesInv, FreshInv, Works, Exists, Staging, RmInv, AsideInv, Aged,
        Missed
<1>26. CASE UNCHANGED vars
  BY <1>26, StepInv, NamesInv, AsideInv, <1>t, <1>f, <1>r DEF vars, StepInv,
      NamesInv, FreshInv, Works, Exists, Staging, RmInv, AsideInv, Aged, Missed
<1>27. ASSUME NEW p \in Procs, ReadRaises(p)
     PROVE  AsideInv'
  BY <1>27, StepInv, NamesInv, AsideInv, <1>t, <1>f, <1>r DEF ReadRaises, Miss,
      StepInv, NamesInv, FreshInv, Works, Exists, Staging, RmInv, AsideInv, Aged,
      Missed
<1>28. ASSUME NEW p \in Procs, RenameRefused(p)
     PROVE  AsideInv'
  <2>1. PICK back \in {"compile", "cleanup"} :
          /\ Rmtree(p, aside[p], back)
          /\ back = IF pc[p] = "discardRename" THEN "cleanup" ELSE miss[p]
    BY <1>28, RefusedEffect, Zenon
  <2>2. /\ pc[p] \in {"debrisRename", "debrisBack", "discardRename"}
        /\ UNCHANGED <<path, files, content, old, debris, taken, evicted, i, seen,
                       read, key, miss, staging, aside, victims>>
    BY <1>28, RefusedEffect
  <2>3. Go(p, "rm") \/ Go(p, back)
    BY <2>1 DEF Rmtree
  <2>4. \A q \in Procs : q # p => (Missed(q)' <=> Missed(q)) /\ pc'[q] = pc[q]
    BY <2>2, <2>3, <1>t DEF Missed
  <2>5. /\ ~Missed(p)'
        /\ pc'[p] \notin {"debris", "debrisRename", "debrisJudge", "debrisBack"}
    BY <2>2, <2>3, <1>t DEF Missed
  <2>. QED
    BY <2>2, <2>4, <2>5, AsideInv DEF AsideInv, Aged
<1>. QED
  BY <1>1, <1>2, <1>3, <1>4, <1>5, <1>6, <1>7, <1>8, <1>9, <1>10, <1>11, <1>12,
      <1>13, <1>14, <1>15, <1>16, <1>17, <1>18, <1>19, <1>20, <1>21, <1>22, <1>23,
      <1>24, <1>25, <1>26, <1>27, <1>28 DEF Next, Step

\* A step that puts a directory at a key puts a complete one there, and none
\* takes files from a directory at a key.
LEMMA PartialStep ==
  ASSUME TypeInv, StepInv, NamesInv, FreshInv, StageInv, RmInv, AsideInv,
         EntryWhole, [Next]_vars
  PROVE  EntryWhole'
<1>. USE DiskCacheAssumption
<1>t. /\ pc \in [Procs -> Labels] /\ key \in [Procs -> Keys \cup {None}]
      /\ staging \in [Procs -> Dirs \cup {None}] /\ aside \in [Procs -> Dirs \cup {None}]
      /\ rmpath \in [Procs -> Dirs \cup {None}] /\ rmdir \in [Procs -> Dirs \cup {None}]
      /\ \A p \in Procs : /\ miss[p] \in {"compile", "cleanup"}
                          /\ rmback[p] \in {"idle", "trimming", "compile", "cleanup"}
  BY Types
<1>f. /\ path \in [Dirs -> Keys \cup Dirs \cup {None}]
      /\ \A c, d \in Dirs : path[c] = path[d] /\ path[c] # None => c = d
      /\ files \in [Dirs -> SUBSET All] /\ content \in [Dirs -> Procs \cup {None}]
  BY DEF TypeInv, FsType
<1>1. ASSUME NEW p \in Procs, LookEntry(p)
     PROVE  EntryWhole'
  BY <1>1, StepInv, EntryWhole, <1>t, <1>f DEF LookEntry, Miss,
      EntryWhole, StepInv, Staging
<1>2. ASSUME NEW p \in Procs, ReadFails(p)
     PROVE  EntryWhole'
  BY <1>2, StepInv, EntryWhole, <1>t, <1>f DEF ReadFails, Miss,
      EntryWhole, StepInv, Staging
<1>3. ASSUME NEW p \in Procs, LookFile(p)
     PROVE  EntryWhole'
  BY <1>3, StepInv, EntryWhole, <1>t, <1>f DEF LookFile, NextFile, Holds,
      EntryWhole, StepInv, Staging
<1>4. ASSUME NEW p \in Procs, LookSafe(p)
     PROVE  EntryWhole'
  BY <1>4, StepInv, EntryWhole, <1>t, <1>f DEF LookSafe, Miss, Holds,
      Writable, EntryWhole, StepInv, Staging
<1>5. ASSUME NEW p \in Procs, ReadFile(p)
     PROVE  EntryWhole'
  BY <1>5, StepInv, EntryWhole, <1>t, <1>f DEF ReadFile, Miss, NextFile,
      Holds, EntryWhole, StepInv, Staging
<1>6. ASSUME NEW p \in Procs, DebrisRename(p)
     PROVE  EntryWhole'
  BY <1>6, StepInv, EntryWhole, <1>t, <1>f DEF DebrisRename, Rename,
      EntryWhole, StepInv, Staging
<1>7. ASSUME NEW p \in Procs, DebrisJudge(p)
     PROVE  EntryWhole'
  BY <1>7, StepInv, EntryWhole, <1>t, <1>f DEF DebrisJudge,
      EntryWhole, StepInv, Staging
<1>8. ASSUME NEW p \in Procs, DebrisBack(p)
     PROVE  EntryWhole'
  BY <1>8, StepInv, EntryWhole, <1>t, <1>f, AsideInv DEF DebrisBack, Rename,
      Miss, CanRename, EntryWhole, StepInv, Staging, Setting, AsideInv
<1>9. ASSUME NEW p \in Procs, Compile(p)
     PROVE  EntryWhole'
  BY <1>9, StepInv, EntryWhole, <1>t, <1>f DEF Compile, Content, Writable,
      EntryWhole, StepInv, Staging
<1>10. ASSUME NEW p \in Procs, StageWrite(p)
     PROVE  EntryWhole'
  BY <1>10, StepInv, EntryWhole, <1>t, <1>f, AtPath DEF StageWrite, Content,
      NextFile, LastFile, EntryWhole, StepInv, Staging
<1>11. ASSUME NEW p \in Procs, Publish(p)
     PROVE  EntryWhole'
  BY <1>11, StepInv, EntryWhole, <1>t, <1>f, StageInv DEF Publish, CanRename,
      Rename, AfterConflict, EntryWhole, StepInv, Staging, StageInv
<1>12. ASSUME NEW p \in Procs, Cleanup(p)
     PROVE  EntryWhole'
  BY <1>12, StepInv, EntryWhole, <1>t, <1>f DEF Cleanup, EntryWhole,
      StepInv, Staging
<1>13. ASSUME NEW p \in Procs, GiveUp(p)
     PROVE  EntryWhole'
  BY <1>13, StepInv, EntryWhole, <1>t, <1>f DEF GiveUp, Unexpected,
      EntryWhole, StepInv, Staging
<1>14. ASSUME NEW p \in Procs, TrimList(p)
     PROVE  EntryWhole'
  BY <1>14, StepInv, EntryWhole, <1>t, <1>f DEF TrimList, EntryWhole,
      StepInv, Staging
<1>15. ASSUME NEW p \in Procs, TrimNext(p)
     PROVE  EntryWhole'
  BY <1>15, StepInv, EntryWhole, <1>t, <1>f DEF TrimNext, EntryWhole,
      StepInv, Staging
<1>16. ASSUME NEW p \in Procs, DiscardRename(p)
     PROVE  EntryWhole'
  BY <1>16, StepInv, EntryWhole, <1>t, <1>f DEF DiscardRename, Rename,
      EntryWhole, StepInv, Staging
<1>17. ASSUME NEW p \in Procs, DiscardRm(p)
     PROVE  EntryWhole'
  BY <1>17, StepInv, EntryWhole, <1>t, <1>f DEF DiscardRm, EntryWhole,
      StepInv, Staging
<1>18. ASSUME NEW p \in Procs, RmDir(p)
     PROVE  EntryWhole'
  BY <1>18, StepInv, EntryWhole, <1>t, <1>f, RmInv DEF RmDir,
      EntryWhole, StepInv, Staging, RmInv
<1>19. ASSUME NEW p \in Procs, NEW f \in All, RmFile(p, f)
     PROVE  EntryWhole'
  BY <1>19, StepInv, EntryWhole, <1>t, <1>f, RmInv DEF RmFile,
      EntryWhole, StepInv, Staging, RmInv
<1>20. ASSUME NEW p \in Procs, NEW d \in Dirs, DebrisMkdir(p, d)
     PROVE  EntryWhole'
  BY <1>20, StepInv, EntryWhole, <1>t, <1>f, MkdtempEffect DEF DebrisMkdir,
      EntryWhole, StepInv, Staging
<1>21. ASSUME NEW p \in Procs, NEW d \in Dirs, StageMkdir(p, d)
     PROVE  EntryWhole'
  BY <1>21, StepInv, EntryWhole, <1>t, <1>f, MkdtempEffect DEF StageMkdir,
      EntryWhole, StepInv, Staging
<1>22. ASSUME NEW p \in Procs, NEW d \in Dirs, DiscardMkdir(p, d)
     PROVE  EntryWhole'
  BY <1>22, StepInv, EntryWhole, <1>t, <1>f, MkdtempEffect DEF DiscardMkdir,
      EntryWhole, StepInv, Staging
<1>23. ASSUME NEW p \in Procs, Kill(p)
     PROVE  EntryWhole'
  BY <1>23, StepInv, EntryWhole, <1>t, <1>f DEF Kill, EntryWhole,
      StepInv, Staging
<1>24. ASSUME NEW p \in Procs, NEW k \in Keys, Lookup(p, k)
     PROVE  EntryWhole'
  BY <1>24, StepInv, EntryWhole, <1>t, <1>f DEF Lookup, EntryWhole,
      StepInv, Staging
<1>25. ASSUME NEW d \in Dirs, Hour(d)
     PROVE  EntryWhole'
  BY <1>25, StepInv, EntryWhole, <1>t, <1>f DEF Hour, AtRest,
      EntryWhole, StepInv, Staging
<1>26. CASE UNCHANGED vars
  BY <1>26, StepInv, EntryWhole, <1>t, <1>f DEF vars, EntryWhole,
      StepInv, Staging
<1>27. ASSUME NEW p \in Procs, ReadRaises(p)
     PROVE  EntryWhole'
  BY <1>27, StepInv, EntryWhole, <1>t, <1>f DEF ReadRaises, Miss,
      EntryWhole, StepInv, Staging
<1>28. ASSUME NEW p \in Procs, RenameRefused(p)
     PROVE  EntryWhole'
  <2>1. UNCHANGED <<path, files, debris>>
    BY <1>28, RefusedEffect
  <2>. QED
    BY <2>1, EntryWhole DEF EntryWhole
<1>. QED
  BY <1>1, <1>2, <1>3, <1>4, <1>5, <1>6, <1>7, <1>8, <1>9, <1>10, <1>11, <1>12,
      <1>13, <1>14, <1>15, <1>16, <1>17, <1>18, <1>19, <1>20, <1>21, <1>22, <1>23,
      <1>24, <1>25, <1>26, <1>27, <1>28 DEF Next, Step

\* A process with a read-only cache comes to no step that stages or removes.
LEMMA ReaderStep ==
  ASSUME TypeInv, ReaderInv, [Next]_vars
  PROVE  ReaderInv'
<1>. USE DiskCacheAssumption
<1>t. /\ pc \in [Procs -> Labels] /\ key \in [Procs -> Keys \cup {None}]
      /\ staging \in [Procs -> Dirs \cup {None}] /\ aside \in [Procs -> Dirs \cup {None}]
      /\ rmpath \in [Procs -> Dirs \cup {None}] /\ rmdir \in [Procs -> Dirs \cup {None}]
      /\ \A p \in Procs : /\ miss[p] \in {"compile", "cleanup"}
                          /\ rmback[p] \in {"idle", "trimming", "compile", "cleanup"}
  BY Types
<1>r. \A p \in Procs, n \in Dirs \cup {None} : \A back : Rmtree(p, n, back) =>
        \/ \E d \in Dirs : /\ path[d] = n /\ n \in Dirs
                          /\ rmpath' = Put(rmpath, p, n) /\ rmdir' = Put(rmdir, p, d)
                          /\ Go(p, "rm")
        \/ Go(p, back) /\ UNCHANGED rmVars
  BY RmtreeEffect
<1>1. ASSUME NEW p \in Procs, LookEntry(p)
     PROVE  ReaderInv'
  BY <1>1, ReaderInv, <1>t, <1>r DEF LookEntry, Miss, ReaderInv, Writable
<1>2. ASSUME NEW p \in Procs, ReadFails(p)
     PROVE  ReaderInv'
  BY <1>2, ReaderInv, <1>t, <1>r DEF ReadFails, Miss, ReaderInv, Writable
<1>3. ASSUME NEW p \in Procs, LookFile(p)
     PROVE  ReaderInv'
  BY <1>3, ReaderInv, <1>t, <1>r DEF LookFile, NextFile, Holds, ReaderInv, Writable
<1>4. ASSUME NEW p \in Procs, LookSafe(p)
     PROVE  ReaderInv'
  BY <1>4, ReaderInv, <1>t, <1>r DEF LookSafe, Miss, Holds, Writable, ReaderInv
<1>5. ASSUME NEW p \in Procs, ReadFile(p)
     PROVE  ReaderInv'
  BY <1>5, ReaderInv, <1>t, <1>r DEF ReadFile, Miss, NextFile, Holds, ReaderInv,
      Writable
<1>6. ASSUME NEW p \in Procs, DebrisRename(p)
     PROVE  ReaderInv'
  BY <1>6, ReaderInv, <1>t, <1>r DEF DebrisRename, Rename, ReaderInv, Writable
<1>7. ASSUME NEW p \in Procs, DebrisJudge(p)
     PROVE  ReaderInv'
  BY <1>7, ReaderInv, <1>t, <1>r DEF DebrisJudge, ReaderInv, Writable
<1>8. ASSUME NEW p \in Procs, DebrisBack(p)
     PROVE  ReaderInv'
  BY <1>8, ReaderInv, <1>t, <1>r DEF DebrisBack, Rename, Miss, CanRename, ReaderInv,
      Writable
<1>9. ASSUME NEW p \in Procs, Compile(p)
     PROVE  ReaderInv'
  BY <1>9, ReaderInv, <1>t, <1>r DEF Compile, Content, Writable, ReaderInv
<1>10. ASSUME NEW p \in Procs, StageWrite(p)
     PROVE  ReaderInv'
  BY <1>10, ReaderInv, <1>t, <1>r DEF StageWrite, Content, NextFile, LastFile,
      ReaderInv, Writable
<1>11. ASSUME NEW p \in Procs, Publish(p)
     PROVE  ReaderInv'
  <2>1. /\ pc[p] = "publish" /\ UNCHANGED staging
        /\ Go(p, "trim") \/ Go(p, "entry")
        /\ miss' = miss \/ miss' = [miss EXCEPT ![p] = "cleanup"]
    BY <1>11 DEF Publish, AfterConflict
  <2>2. p \notin ReadOnly
    BY <2>1, ReaderInv DEF ReaderInv
  <2>. QED
    BY <2>1, <2>2, <1>t, Types, DiskCacheAssumption, ReaderInv DEF ReaderInv
<1>12. ASSUME NEW p \in Procs, Cleanup(p)
     PROVE  ReaderInv'
  BY <1>12, ReaderInv, <1>t, <1>r DEF Cleanup, Finally, ReaderInv, Writable
<1>13. ASSUME NEW p \in Procs, GiveUp(p)
     PROVE  ReaderInv'
  BY <1>13, ReaderInv, <1>t, <1>r DEF GiveUp, Unexpected, ReaderInv, Writable
<1>14. ASSUME NEW p \in Procs, TrimList(p)
     PROVE  ReaderInv'
  BY <1>14, ReaderInv, <1>t, <1>r DEF TrimList, ReaderInv, Writable
<1>15. ASSUME NEW p \in Procs, TrimNext(p)
     PROVE  ReaderInv'
  <2>1. \A n \in stale[p] : n \in Dirs \cup {None}
    BY Types
  <2>2. /\ pc[p] = "trimming" /\ UNCHANGED <<path, files, content, old, debris, evicted, i, seen, read, key,
                                         miss, staging, aside, victims, off, artifact>>
        /\ \/ \E n \in stale[p] : Exists(n) /\ At(n) \in old /\ Rmtree(p, n, "trimming")
           \/ UNCHANGED rmVars /\ Go(p, IF victims[p] = <<>> THEN "cleanup" ELSE "discard")
    BY <1>15, TrimNextCases, Zenon
  <2>3. Go(p, "rm") \/ Go(p, "trimming") \/ Go(p, "cleanup") \/ Go(p, "discard")
    BY <1>r, <2>1, <2>2
  <2>4. p \notin ReadOnly
    BY <2>2, ReaderInv DEF ReaderInv
  <2>. QED
    BY <2>2, <2>3, <2>4, <1>t, ReaderInv DEF ReaderInv
<1>16. ASSUME NEW p \in Procs, DiscardRename(p)
     PROVE  ReaderInv'
  BY <1>16, ReaderInv, <1>t, <1>r DEF DiscardRename, Rename, ReaderInv, Writable
<1>17. ASSUME NEW p \in Procs, DiscardRm(p)
     PROVE  ReaderInv'
  BY <1>17, ReaderInv, <1>t, <1>r DEF DiscardRm, ReaderInv, Writable
<1>18. ASSUME NEW p \in Procs, RmDir(p)
     PROVE  ReaderInv'
  BY <1>18, ReaderInv, <1>t, <1>r DEF RmDir, ReaderInv, Writable
<1>19. ASSUME NEW p \in Procs, NEW f \in All, RmFile(p, f)
     PROVE  ReaderInv'
  BY <1>19, ReaderInv, <1>t, <1>r DEF RmFile, ReaderInv, Writable
<1>20. ASSUME NEW p \in Procs, NEW d \in Dirs, DebrisMkdir(p, d)
     PROVE  ReaderInv'
  BY <1>20, ReaderInv, <1>t, <1>r DEF DebrisMkdir, ReaderInv, Writable
<1>21. ASSUME NEW p \in Procs, NEW d \in Dirs, StageMkdir(p, d)
     PROVE  ReaderInv'
  BY <1>21, ReaderInv, <1>t, <1>r DEF StageMkdir, ReaderInv, Writable
<1>22. ASSUME NEW p \in Procs, NEW d \in Dirs, DiscardMkdir(p, d)
     PROVE  ReaderInv'
  BY <1>22, ReaderInv, <1>t, <1>r DEF DiscardMkdir, ReaderInv, Writable
<1>23. ASSUME NEW p \in Procs, Kill(p)
     PROVE  ReaderInv'
  BY <1>23, ReaderInv, <1>t, <1>r DEF Kill, ReaderInv, Writable
<1>24. ASSUME NEW p \in Procs, NEW k \in Keys, Lookup(p, k)
     PROVE  ReaderInv'
  BY <1>24, ReaderInv, <1>t, <1>r DEF Lookup, ReaderInv, Writable
<1>25. ASSUME NEW d \in Dirs, Hour(d)
     PROVE  ReaderInv'
  BY <1>25, ReaderInv, <1>t, <1>r DEF Hour, AtRest, ReaderInv, Writable
<1>26. CASE UNCHANGED vars
  BY <1>26, ReaderInv, <1>t, <1>r DEF vars, ReaderInv, Writable
<1>27. ASSUME NEW p \in Procs, ReadRaises(p)
     PROVE  ReaderInv'
  BY <1>27, ReaderInv, <1>t, <1>r DEF ReadRaises, Miss, ReaderInv, Writable
<1>28. ASSUME NEW p \in Procs, RenameRefused(p)
     PROVE  ReaderInv'
  <2>1. pc[p] \in {"debrisRename", "debrisBack", "discardRename"} /\ UNCHANGED <<staging, miss>>
    BY <1>28, RefusedEffect
  <2>2. \A q \in Procs : q # p => pc'[q] = pc[q]
    BY <1>28, RefusedEffect, <1>t DEF Rmtree
  <2>. QED
    BY <2>1, <2>2, ReaderInv DEF ReaderInv
<1>. QED
  BY <1>1, <1>2, <1>3, <1>4, <1>5, <1>6, <1>7, <1>8, <1>9, <1>10, <1>11, <1>12,
      <1>13, <1>14, <1>15, <1>16, <1>17, <1>18, <1>19, <1>20, <1>21, <1>22, <1>23,
      <1>24, <1>25, <1>26, <1>27, <1>28 DEF Next, Step

\* A process gives the cache up only when the file system fails.
LEMMA OffStep ==
  ASSUME TypeInv, StepInv, NamesInv, FreshInv, StageInv, RmInv, AsideInv,
         OffInv, [Next]_vars
  PROVE  OffInv'
<1>o. off \in [Procs -> SUBSET {"read", "write"}]
  BY DEF TypeInv, ProcessType
<1>t. /\ pc \in [Procs -> Labels] /\ key \in [Procs -> Keys \cup {None}]
      /\ staging \in [Procs -> Dirs \cup {None}] /\ aside \in [Procs -> Dirs \cup {None}]
      /\ rmpath \in [Procs -> Dirs \cup {None}] /\ rmdir \in [Procs -> Dirs \cup {None}]
      /\ \A p \in Procs : /\ miss[p] \in {"compile", "cleanup"}
                          /\ rmback[p] \in {"idle", "trimming", "compile", "cleanup"}
  BY Types
<1>1. ASSUME NEW p \in Procs, LookEntry(p)
     PROVE  OffInv'
  BY <1>1, OffInv, <1>o, <1>t DEF LookEntry, Miss, OffInv, StepInv, Works, Staging
<1>2. ASSUME NEW p \in Procs, ReadFails(p)
     PROVE  OffInv'
  BY <1>2, OffInv, <1>o, <1>t DEF ReadFails, Miss, OffInv, StepInv, Works, Staging
<1>3. ASSUME NEW p \in Procs, LookFile(p)
     PROVE  OffInv'
  BY <1>3, OffInv, <1>o, <1>t DEF LookFile, NextFile, Holds, OffInv, StepInv, Works,
      Staging
<1>4. ASSUME NEW p \in Procs, LookSafe(p)
     PROVE  OffInv'
  BY <1>4, OffInv, <1>o, <1>t DEF LookSafe, Miss, Holds, Writable, OffInv, StepInv,
      Works, Staging
<1>5. ASSUME NEW p \in Procs, ReadFile(p)
     PROVE  OffInv'
  BY <1>5, OffInv, <1>o, <1>t DEF ReadFile, Miss, NextFile, Holds, OffInv, StepInv,
      Works, Staging
<1>6. ASSUME NEW p \in Procs, DebrisRename(p)
     PROVE  OffInv'
  BY <1>6, OffInv, <1>o, <1>t DEF DebrisRename, Rename, OffInv, StepInv, Works,
      Staging
<1>7. ASSUME NEW p \in Procs, DebrisJudge(p)
     PROVE  OffInv'
  BY <1>7, OffInv, <1>o, <1>t DEF DebrisJudge, OffInv, StepInv, Works, Staging
<1>8. ASSUME NEW p \in Procs, DebrisBack(p)
     PROVE  OffInv'
  BY <1>8, OffInv, <1>o, <1>t, AsideInv DEF DebrisBack, Rename, Miss, CanRename,
      OffInv, StepInv, Works, Staging, AsideInv, Exists
<1>9. ASSUME NEW p \in Procs, Compile(p)
     PROVE  OffInv'
  BY <1>9, OffInv, <1>o, <1>t DEF Compile, Content, Writable, OffInv, StepInv,
      Works, Staging
<1>10. ASSUME NEW p \in Procs, StageWrite(p)
     PROVE  OffInv'
  BY <1>10, OffInv, <1>o, <1>t DEF StageWrite, Content, NextFile, LastFile, OffInv,
      StepInv, Works, Staging
<1>11. ASSUME NEW p \in Procs, Publish(p)
     PROVE  OffInv'
  BY <1>11, OffInv, <1>o, <1>t DEF Publish, CanRename, Rename, AfterConflict,
      OffInv, StepInv, Works, Staging
<1>12. ASSUME NEW p \in Procs, Cleanup(p)
     PROVE  OffInv'
  BY <1>12, OffInv, <1>o, <1>t DEF Cleanup, OffInv, StepInv, Works, Staging
<1>13. ASSUME NEW p \in Procs, GiveUp(p)
     PROVE  OffInv'
  BY <1>13, OffInv, <1>o, <1>t, FreshInv, StepInv DEF GiveUp, Unexpected, OffInv,
      StepInv, Works, Staging, FreshInv, Exists
<1>14. ASSUME NEW p \in Procs, TrimList(p)
     PROVE  OffInv'
  BY <1>14, OffInv, <1>o, <1>t DEF TrimList, OffInv, StepInv, Works, Staging
<1>15. ASSUME NEW p \in Procs, TrimNext(p)
     PROVE  OffInv'
  <2>1. off' = off
    BY <1>15, TrimNextCases, Zenon
  <2>. QED
    BY <2>1, OffInv DEF OffInv
<1>16. ASSUME NEW p \in Procs, DiscardRename(p)
     PROVE  OffInv'
  BY <1>16, OffInv, <1>o, <1>t DEF DiscardRename, Rename, OffInv, StepInv, Works,
      Staging
<1>17. ASSUME NEW p \in Procs, DiscardRm(p)
     PROVE  OffInv'
  BY <1>17, OffInv, <1>o, <1>t DEF DiscardRm, OffInv, StepInv, Works, Staging
<1>18. ASSUME NEW p \in Procs, RmDir(p)
     PROVE  OffInv'
  BY <1>18, OffInv, <1>o, <1>t DEF RmDir, OffInv, StepInv, Works, Staging
<1>19. ASSUME NEW p \in Procs, NEW f \in All, RmFile(p, f)
     PROVE  OffInv'
  BY <1>19, OffInv, <1>o, <1>t DEF RmFile, OffInv, StepInv, Works, Staging
<1>20. ASSUME NEW p \in Procs, NEW d \in Dirs, DebrisMkdir(p, d)
     PROVE  OffInv'
  BY <1>20, OffInv, <1>o, <1>t DEF DebrisMkdir, OffInv, StepInv, Works, Staging
<1>21. ASSUME NEW p \in Procs, NEW d \in Dirs, StageMkdir(p, d)
     PROVE  OffInv'
  BY <1>21, OffInv, <1>o, <1>t DEF StageMkdir, OffInv, StepInv, Works, Staging
<1>22. ASSUME NEW p \in Procs, NEW d \in Dirs, DiscardMkdir(p, d)
     PROVE  OffInv'
  BY <1>22, OffInv, <1>o, <1>t DEF DiscardMkdir, OffInv, StepInv, Works, Staging
<1>23. ASSUME NEW p \in Procs, Kill(p)
     PROVE  OffInv'
  BY <1>23, OffInv, <1>o, <1>t DEF Kill, OffInv, StepInv, Works, Staging
<1>24. ASSUME NEW p \in Procs, NEW k \in Keys, Lookup(p, k)
     PROVE  OffInv'
  BY <1>24, OffInv, <1>o, <1>t DEF Lookup, OffInv, StepInv, Works, Staging
<1>25. ASSUME NEW d \in Dirs, Hour(d)
     PROVE  OffInv'
  BY <1>25, OffInv, <1>o, <1>t DEF Hour, AtRest, OffInv, StepInv, Works, Staging
<1>26. CASE UNCHANGED vars
  BY <1>26, OffInv, <1>o, <1>t DEF vars, OffInv, StepInv, Works, Staging
<1>27. ASSUME NEW p \in Procs, ReadRaises(p)
     PROVE  OffInv'
  BY <1>27, OffInv, <1>o, <1>t DEF ReadRaises, Miss, OffInv, StepInv, Works, Staging
<1>28. ASSUME NEW p \in Procs, RenameRefused(p)
     PROVE  OffInv'
  <2>1. "write" \in Faults
    BY <1>28, RefusedEffect
  <2>. QED
    BY <2>1 DEF OffInv
<1>. QED
  BY <1>1, <1>2, <1>3, <1>4, <1>5, <1>6, <1>7, <1>8, <1>9, <1>10, <1>11, <1>12,
      <1>13, <1>14, <1>15, <1>16, <1>17, <1>18, <1>19, <1>20, <1>21, <1>22, <1>23,
      <1>24, <1>25, <1>26, <1>27, <1>28 DEF Next, Step

-------------------------------------------------------------------------------
(* What holds when processes stall, too. *)

\* A step of p that leaves the directories as they are: all that the invariant
\* says of them still holds if it holds of p.
LEMMA StallFrame ==
  ASSUME TypeInv, StepInv, StallInv, EntryNeverPartial, NEW p \in Procs,
         UNCHANGED <<path, files, debris>>, taken \subseteq taken',
         \A q \in Procs \ {p} : /\ pc'[q] = pc[q] /\ i'[q] = i[q]
                                /\ rmpath'[q] = rmpath[q] /\ rmdir'[q] = rmdir[q]
                                /\ staging'[q] = staging[q] /\ aside'[q] = aside[q],
         \/ staging'[p] = staging[p] /\ aside'[p] = aside[p] /\ pc[p] # "idle"
         \/ staging'[p] = None /\ aside'[p] = None,
         \A d \in Dirs \ taken' : Intact(p, d)'
  PROVE  StallInv' /\ EntryNeverPartial'
<1>1. EntryNeverPartial'
  BY DEF EntryNeverPartial
<1>2. ASSUME NEW q \in Procs, q # p, NEW d \in Dirs \ taken'
      PROVE  Intact(q, d)'
  <2>1. Intact(q, d)
    BY <1>2 DEF StallInv
  <2>2. ASSUME pc[q] = "rm", rmdir[q] = d
        PROVE  MayRemove(q, rmpath[q])'
    <3>1. MayRemove(q, rmpath[q]) /\ rmpath[q] \in Dirs /\ rmpath'[q] = rmpath[q]
      BY <1>2, <2>1, <2>2 DEF Intact, StepInv
    <3>. QED
      BY <1>2, <3>1, DiskCacheAssumption DEF MayRemove
  <2>. QED
    BY <1>2, <2>1, <2>2 DEF Intact
<1>. QED
  BY <1>1, <1>2 DEF StallInv

\* A rename by p: it takes an entry away, or publishes or puts back a whole one.
LEMMA StallRename ==
  ASSUME TypeInv, StepInv, NamesInv, StallInv, EntryNeverPartial, NEW p \in Procs,
         NEW from \in Keys \cup Dirs, NEW to \in Keys \cup Dirs, Rename(from, to),
         UNCHANGED <<files, debris, taken, staging, aside, i, rmpath, rmdir>>,
         pc[p] # "idle", \A q \in Procs \ {p} : pc'[q] = pc[q],
         pc'[p] \notin {"write", "publish", "debrisBack", "rm"},
         from \in Keys \/ from \in {staging[p], aside[p]},
         to \in Keys \/ to = aside[p],
         to \in Keys => \A d \in Dirs \ taken : path[d] = from => files[d] = All
  PROVE  StallInv' /\ EntryNeverPartial'
<1>. USE DiskCacheAssumption
<1>1. \A d \in Dirs : path'[d] = IF path[d] = from THEN to
                                 ELSE IF path[d] = to THEN None ELSE path[d]
  BY DEF Rename
<1>2. EntryNeverPartial'
  BY <1>1 DEF EntryNeverPartial
<1>3. ASSUME NEW q \in Procs, NEW d \in Dirs \ taken'
      PROVE  Intact(q, d)'
  <2>1. CASE q = p
    BY <2>1 DEF Intact
  <2>2. CASE q # p
    <3>1. Intact(q, d) /\ pc'[q] = pc[q]
      BY <1>3, <2>2 DEF StallInv
    <3>2. ASSUME path'[d] \in {staging[q], aside[q]}, path'[d] \in Dirs
          PROVE  path[d] = path'[d]
      BY <1>1, <2>2, <3>2 DEF NamesInv
    <3>3. pc[q] \in Staging => staging[q] \in Dirs
      BY DEF StepInv
    <3>4. pc[q] = "debrisBack" => aside[q] \in Dirs
      BY DEF StepInv, Setting
    <3>5. ASSUME pc[q] = "rm", rmdir[q] = d
          PROVE  path'[d] \in {rmpath[q], None} /\ MayRemove(q, rmpath[q])'
      <4>1. path[d] \in {rmpath[q], None} /\ MayRemove(q, rmpath[q])
            /\ rmpath[q] \in Dirs
        BY <3>1, <3>5 DEF Intact, StepInv
      <4>2. from # rmpath[q]
        BY <4>1, <2>2 DEF MayRemove, NamesInv
      <4>3. path'[d] \in {rmpath[q], None}
        BY <1>1, <4>1, <4>2
      <4>4. MayRemove(q, rmpath[q])'
        BY <4>1 DEF MayRemove
      <4>. QED
        BY <4>3, <4>4
    <3>. QED
      BY <3>1, <3>2, <3>3, <3>4, <3>5 DEF Intact, Staging
  <2>. QED
    BY <2>1, <2>2
<1>. QED
  BY <1>2, <1>3 DEF StallInv

\* A new directory of p, which has none of its files yet.
LEMMA StallMkdtemp ==
  ASSUME TypeInv, StepInv, StallInv, EntryNeverPartial, NEW p \in Procs,
         NEW d \in Dirs, Mkdtemp(d),
         \/ staging' = [staging EXCEPT ![p] = d] /\ UNCHANGED aside
         \/ aside' = [aside EXCEPT ![p] = d] /\ UNCHANGED staging,
         UNCHANGED <<rmpath, rmdir>>, pc[p] # "idle",
         \A q \in Procs \ {p} : pc'[q] = pc[q] /\ i'[q] = i[q],
         pc'[p] \notin {"publish", "debrisBack", "rm"}, pc'[p] = "write" => i'[p] = 1
  PROVE  StallInv' /\ EntryNeverPartial'
<1>. USE DiskCacheAssumption
<1>1. /\ path[d] = None /\ path' = [path EXCEPT ![d] = d]
      /\ files' = [files EXCEPT ![d] = {}]
      /\ debris' = debris \ {d} /\ taken' = taken \ {d}
      /\ \A q \in Procs : d \notin {staging[q], aside[q], rmpath[q], rmdir[q]}
  BY MkdtempEffect
<1>2. /\ path \in [Dirs -> Keys \cup Dirs \cup {None}]
      /\ files \in [Dirs -> SUBSET All]
      /\ staging \in [Procs -> Dirs \cup {None}] /\ aside \in [Procs -> Dirs \cup {None}]
  BY DEF TypeInv, FsType, ProcessType
<1>3. EntryNeverPartial'
  BY <1>1, <1>2 DEF EntryNeverPartial
<1>4. ASSUME NEW q \in Procs, NEW c \in Dirs \ taken'
      PROVE  Intact(q, c)'
  <2>1. CASE q = p
    BY <2>1 DEF Intact
  <2>2. CASE q # p /\ c = d
    BY <1>1, <1>2, <2>2 DEF Intact
  <2>3. CASE q # p /\ c # d
    <3>1. /\ Intact(q, c) /\ path'[c] = path[c] /\ files'[c] = files[c]
          /\ pc'[q] = pc[q] /\ i'[q] = i[q]
      BY <1>1, <1>2, <1>4, <2>3 DEF StallInv
    <3>2. MayRemove(q, rmpath[q]) => MayRemove(q, rmpath[q])'
      BY <1>1, <1>2, <2>3 DEF MayRemove
    <3>. QED
      BY <1>2, <2>3, <3>1, <3>2 DEF Intact
  <2>. QED
    BY <2>1, <2>2, <2>3
<1>. QED
  BY <1>3, <1>4 DEF StallInv

\* No step breaks what holds of stalled processes, too.
LEMMA StallStep ==
  ASSUME TypeInv, StepInv, NamesInv, StallInv, EntryNeverPartial, [Next]_vars
  PROVE  StallInv' /\ EntryNeverPartial'
<1>. USE DiskCacheAssumption
<1>t. /\ pc \in [Procs -> Labels] /\ key \in [Procs -> Keys \cup {None}]
      /\ staging \in [Procs -> Dirs \cup {None}] /\ aside \in [Procs -> Dirs \cup {None}]
      /\ rmpath \in [Procs -> Dirs \cup {None}] /\ rmdir \in [Procs -> Dirs \cup {None}]
      /\ i \in [Procs -> 1..3]
      /\ \A p \in Procs : /\ miss[p] \in {"compile", "cleanup"}
                          /\ rmback[p] \in {"idle", "trimming", "compile", "cleanup"}
  BY Types
<1>f. /\ path \in [Dirs -> Keys \cup Dirs \cup {None}]
      /\ \A c, d \in Dirs : path[c] = path[d] /\ path[c] # None => c = d
      /\ files \in [Dirs -> SUBSET All] /\ taken \subseteq Dirs
  BY DEF TypeInv, FsType
<1>m. \A p \in Procs : miss[p] \notin {"write", "publish", "debrisBack", "rm"}
  BY <1>t
\* A step with which nothing of p is left to show.
<1>q. ASSUME NEW p \in Procs, UNCHANGED <<path, files, debris, taken, staging, aside>>,
             UNCHANGED rmVars, pc[p] # "idle",
             \A q \in Procs \ {p} : pc'[q] = pc[q] /\ i'[q] = i[q],
             pc'[p] \notin {"write", "publish", "debrisBack", "rm"}
      PROVE  StallInv' /\ EntryNeverPartial'
  <2>1. \A d \in Dirs \ taken' : Intact(p, d)'
    BY <1>q DEF Intact
  <2>. QED
    BY <1>q, <2>1, StallFrame
\* A step that begins the removal of a path, or finds nothing there.
<1>r. ASSUME NEW p \in Procs, NEW n \in Dirs \cup {None}, NEW back, Rmtree(p, n, back),
             UNCHANGED <<path, files, debris, staging, aside, i>>, taken \subseteq taken',
             pc[p] # "idle", back \notin {"write", "publish", "debrisBack", "rm"},
             Exists(n) /\ n # None => At(n) \in taken' \/ MayRemove(p, n)
      PROVE  StallInv' /\ EntryNeverPartial'
  <2>1. \/ /\ n \in Dirs /\ Exists(n) /\ Go(p, "rm")
            /\ rmpath' = Put(rmpath, p, n) /\ rmdir' = Put(rmdir, p, At(n))
        \/ Go(p, back) /\ UNCHANGED rmVars
    BY <1>r DEF Rmtree
  <2>2. \A q \in Procs \ {p} : /\ pc'[q] = pc[q] /\ rmpath'[q] = rmpath[q]
                                /\ rmdir'[q] = rmdir[q]
    BY <2>1, <1>t
  <2>3. ASSUME NEW d \in Dirs \ taken'
        PROVE  Intact(p, d)'
    <3>1. CASE Go(p, back)
      <4>1. pc'[p] = back
        BY <3>1, <1>t
      <4>. QED
        BY <4>1, <1>r DEF Intact
    <3>2. CASE n \in Dirs /\ Exists(n) /\ Go(p, "rm") /\ rmpath' = Put(rmpath, p, n)
               /\ rmdir' = Put(rmdir, p, At(n))
      <4>1. pc'[p] = "rm" /\ rmpath'[p] = n /\ rmdir'[p] = At(n) /\ path[At(n)] = n
        BY <3>2, <1>t, AtPath
      <4>2. At(n) = d => MayRemove(p, n)
        BY <1>r, <3>2
      <4>3. At(n) = d => MayRemove(p, n)'
        BY <1>r, <2>2, <4>2 DEF MayRemove
      <4>. QED
        BY <1>r, <4>1, <4>3 DEF Intact
    <3>. QED
      BY <2>1, <3>1, <3>2
  <2>. QED
    BY <1>r, <2>2, <2>3, StallFrame
<1>1. ASSUME NEW p \in Procs, LookEntry(p)
     PROVE  StallInv' /\ EntryNeverPartial'
  BY <1>1, <1>q, <1>t, <1>m DEF LookEntry, Miss
<1>2. ASSUME NEW p \in Procs, ReadFails(p)
     PROVE  StallInv' /\ EntryNeverPartial'
  BY <1>2, <1>q, <1>t, <1>m DEF ReadFails, Miss
<1>3. ASSUME NEW p \in Procs, LookFile(p)
     PROVE  StallInv' /\ EntryNeverPartial'
  BY <1>3, <1>q, <1>t, <1>m DEF LookFile
<1>4. ASSUME NEW p \in Procs, LookSafe(p)
     PROVE  StallInv' /\ EntryNeverPartial'
  <2>1. /\ pc[p] = "safe" /\ i' = [i EXCEPT ![p] = NextFile(p)]
        /\ UNCHANGED <<path, files, debris, taken, staging, aside>> /\ UNCHANGED rmVars
        /\ Go(p, "safe") \/ Go(p, "read") \/ Go(p, "debris") \/ Go(p, miss[p])
    BY <1>4, SafeEffect
  <2>. QED
    BY <2>1, <1>q, <1>t, <1>m
<1>5. ASSUME NEW p \in Procs, ReadFile(p)
     PROVE  StallInv' /\ EntryNeverPartial'
  <2>1. /\ pc[p] = "read" /\ \A q \in Procs \ {p} : i'[q] = i[q]
        /\ UNCHANGED <<path, files, debris, taken, staging, aside>> /\ UNCHANGED rmVars
        /\ Go(p, "read") \/ Go(p, "mismatch") \/ Go(p, "cleanup") \/ Go(p, miss[p])
    BY <1>5, <1>t DEF ReadFile, Miss
  <2>. QED
    BY <2>1, <1>q, <1>t, <1>m
<1>6. ASSUME NEW p \in Procs, DebrisRename(p)
     PROVE  StallInv' /\ EntryNeverPartial'
  <2>1. /\ pc[p] = "debrisRename" /\ key[p] \in Keys /\ aside[p] \in Dirs
        /\ UNCHANGED <<files, debris, taken, staging, aside, i>>
    BY <1>6, StepInv DEF DebrisRename, StepInv, Setting, Renaming
  <2>2. CASE Exists(key[p])
    <3>1. Rename(key[p], aside[p]) /\ Go(p, "debrisJudge") /\ UNCHANGED rmVars
      BY <1>6, <2>2 DEF DebrisRename
    <3>. QED
      BY <2>1, <3>1, <1>t, StallRename
  <2>3. CASE ~Exists(key[p])
    <3>1. Rmtree(p, aside[p], miss[p]) /\ UNCHANGED path
      BY <1>6, <2>3 DEF DebrisRename
    <3>. QED
      BY <2>1, <3>1, <1>r, <1>m DEF MayRemove
  <2>. QED
    BY <2>2, <2>3
<1>7. ASSUME NEW p \in Procs, DebrisJudge(p)
     PROVE  StallInv' /\ EntryNeverPartial'
  <2>1. /\ pc[p] = "debrisJudge" /\ aside[p] \in Dirs
        /\ UNCHANGED <<path, files, debris, taken, staging, aside, i>>
    BY <1>7, StepInv DEF DebrisJudge, StepInv, Setting
  <2>2. CASE \A f \in All : Holds(aside[p], f)
    <3>1. Go(p, "debrisBack") /\ UNCHANGED rmVars
      BY <1>7, <2>2 DEF DebrisJudge
    <3>2. \A d \in Dirs : path[d] = aside[p] => files[d] = All
      <4>1. \A d \in Dirs : path[d] = aside[p] => At(aside[p]) = d
        BY <2>1, AtPath
      <4>2. \A d \in Dirs : path[d] = aside[p] => All \subseteq files[d]
        BY <2>2, <4>1 DEF Holds
      <4>3. \A d \in Dirs : files[d] \subseteq All
        BY <1>f
      <4>. QED
        BY <4>2, <4>3
    <3>3. \A d \in Dirs \ taken' : Intact(p, d)'
      BY <2>1, <3>1, <3>2, <1>t DEF Intact
    <3>. QED
      BY <2>1, <3>1, <3>3, <1>t, StallFrame
  <2>3. CASE ~\A f \in All : Holds(aside[p], f)
    <3>1. Rmtree(p, aside[p], miss[p])
      BY <1>7, <2>3 DEF DebrisJudge
    <3>. QED
      BY <2>1, <3>1, <1>r, <1>m DEF MayRemove
  <2>. QED
    BY <2>2, <2>3
<1>8. ASSUME NEW p \in Procs, DebrisBack(p)
     PROVE  StallInv' /\ EntryNeverPartial'
  <2>1. /\ pc[p] = "debrisBack" /\ key[p] \in Keys /\ aside[p] \in Dirs
        /\ UNCHANGED <<files, debris, taken, staging, aside, i>>
    BY <1>8, StepInv DEF DebrisBack, StepInv, Setting
  <2>2. CASE Exists(aside[p]) /\ CanRename(key[p])
    <3>1. Rename(aside[p], key[p]) /\ Go(p, miss[p]) /\ UNCHANGED rmVars
      BY <1>8, <2>2 DEF DebrisBack, Miss
    <3>2. \A d \in Dirs \ taken : path[d] = aside[p] => files[d] = All
      BY <2>1, StallInv DEF StallInv, Intact
    <3>. QED
      BY <2>1, <3>1, <3>2, <1>t, <1>m, StallRename
  <2>3. CASE ~(Exists(aside[p]) /\ CanRename(key[p]))
    <3>1. Rmtree(p, aside[p], miss[p]) /\ UNCHANGED path
      BY <1>8, <2>3 DEF DebrisBack
    <3>. QED
      BY <2>1, <3>1, <1>r, <1>m DEF MayRemove
  <2>. QED
    BY <2>2, <2>3
<1>9. ASSUME NEW p \in Procs, Compile(p)
     PROVE  StallInv' /\ EntryNeverPartial'
  BY <1>9, <1>q, <1>t, <1>m DEF Compile
<1>10. ASSUME NEW p \in Procs, StageWrite(p)
     PROVE  StallInv' /\ EntryNeverPartial'
  <2>. DEFINE d == At(staging[p])
  <2>1. /\ pc[p] = "write" /\ d \in Dirs /\ path[d] = staging[p] /\ staging[p] \in Dirs
        /\ files' = [files EXCEPT ![d] = files[d] \cup {Files[i[p]]}]
        /\ i' = [i EXCEPT ![p] = NextFile(p)]
        /\ pc' = [pc EXCEPT ![p] = IF i[p] = 3 THEN "publish" ELSE "write"]
        /\ UNCHANGED <<path, debris, taken, staging, aside>> /\ UNCHANGED rmVars
    BY <1>10, AtPath, StepInv DEF StageWrite, LastFile, StepInv, Staging
  <2>2. \A c \in Dirs : path[c] = staging[p] => c = d
    BY <2>1, <1>f
  <2>. HIDE DEF d
  <2>3. i[p] \in 1..3 /\ Files[i[p]] \in All
    BY FileNamed
  <2>4. \A c \in Dirs : files[c] \subseteq files'[c] /\ files'[c] \subseteq All
    BY <2>1, <2>3, <1>f
  <2>5. EntryNeverPartial'
    <3>1. \A c \in Dirs : files[c] = All => files'[c] = All
      BY <2>4
    <3>. QED
      BY <2>1, <3>1 DEF EntryNeverPartial
  <2>6. ASSUME NEW c \in Dirs \ taken'
        PROVE  Intact(p, c)'
    <3>1. CASE c = d
      <4>1. Intact(p, d)
        BY <2>1, <2>6, <3>1 DEF StallInv
      <4>2. Files = <<"lowered", "ptx", "metadata">> /\ All = {"lowered", "ptx", "metadata"}
        BY DEF Files, All
      <4>3. CASE i[p] = 1
        <5>1. i'[p] = 2 /\ pc'[p] = "write" /\ "lowered" \in files'[d]
          BY <2>1, <4>2, <4>3, <1>t, <1>f DEF NextFile
        <5>. QED
          BY <3>1, <5>1 DEF Intact
      <4>4. CASE i[p] = 2
        <5>1. i'[p] = 3 /\ pc'[p] = "write" /\ {"lowered", "ptx"} \subseteq files'[d]
          BY <2>1, <4>1, <4>2, <4>4, <1>t, <1>f DEF NextFile, Intact
        <5>. QED
          BY <3>1, <5>1 DEF Intact
      <4>5. CASE i[p] = 3
        <5>1. {"lowered", "ptx", "metadata"} \subseteq files'[d]
          BY <2>1, <4>1, <4>2, <4>5, <1>f DEF Intact
        <5>2. files'[d] = All /\ pc'[p] = "publish"
          BY <2>1, <2>4, <4>2, <4>5, <5>1, <1>t
        <5>. QED
          BY <3>1, <5>2 DEF Intact
      <4>. QED
        BY <2>3, <4>3, <4>4, <4>5
    <3>2. CASE c # d
      <4>1. path'[c] # staging'[p] /\ pc'[p] \notin {"debrisBack", "rm"}
        BY <2>1, <2>2, <2>6, <3>2, <1>t
      <4>. QED
        BY <4>1 DEF Intact
    <3>. QED
      BY <3>1, <3>2
  <2>7. ASSUME NEW q \in Procs, q # p, NEW c \in Dirs \ taken'
        PROVE  Intact(q, c)'
    <3>1. /\ Intact(q, c) /\ pc'[q] = pc[q] /\ i'[q] = i[q]
          /\ files[c] \subseteq files'[c] /\ files'[c] \subseteq All
      BY <2>1, <2>4, <2>7, <1>t DEF StallInv
    <3>2. MayRemove(q, rmpath[q]) => MayRemove(q, rmpath[q])'
      BY <2>1, <1>t DEF MayRemove
    <3>3. files[c] = All => files'[c] = All
      BY <3>1
    <3>. QED
      BY <2>1, <3>1, <3>2, <3>3 DEF Intact
  <2>. QED
    BY <2>5, <2>6, <2>7 DEF StallInv
<1>11. ASSUME NEW p \in Procs, Publish(p)
     PROVE  StallInv' /\ EntryNeverPartial'
  <2>1. /\ pc[p] = "publish" /\ key[p] \in Keys /\ staging[p] \in Dirs
        /\ UNCHANGED <<files, debris, taken, staging, aside, i>> /\ UNCHANGED rmVars
    BY <1>11, StepInv DEF Publish, StepInv, Staging
  <2>2. CASE CanRename(key[p])
    <3>1. Rename(staging[p], key[p]) /\ Go(p, "trim")
      BY <1>11, <2>2 DEF Publish
    <3>2. \A d \in Dirs \ taken : path[d] = staging[p] => files[d] = All
      BY <2>1, StallInv DEF StallInv, Intact
    <3>. QED
      BY <2>1, <3>1, <3>2, <1>t, StallRename
  <2>3. CASE ~CanRename(key[p])
    <3>1. Go(p, "entry") /\ UNCHANGED path
      BY <1>11, <2>3 DEF Publish, AfterConflict
    <3>. QED
      BY <2>1, <3>1, <1>t, <1>q
  <2>. QED
    BY <2>2, <2>3
<1>12. ASSUME NEW p \in Procs, Cleanup(p)
     PROVE  StallInv' /\ EntryNeverPartial'
  <2>1. /\ pc[p] \in {"cleanup", "mismatch"} /\ Rmtree(p, staging[p], "idle")
        /\ UNCHANGED <<path, files, debris, taken, staging, aside, i>>
    BY <1>12 DEF Cleanup, Finally
  <2>2. staging[p] \in Dirs \cup {None} /\ MayRemove(p, staging[p])
    BY <1>t DEF MayRemove
  <2>. QED
    BY <2>1, <2>2, <1>r
<1>13. ASSUME NEW p \in Procs, GiveUp(p)
     PROVE  StallInv' /\ EntryNeverPartial'
  <2>1. /\ pc[p] \in {"debris", "stage", "write", "publish", "discard"}
        /\ Go(p, miss[p]) \/ Go(p, "cleanup")
        /\ UNCHANGED <<path, files, debris, taken, staging, aside, i>> /\ UNCHANGED rmVars
    BY <1>13 DEF GiveUp, Unexpected
  <2>. QED
    BY <2>1, <1>q, <1>t, <1>m
<1>14. ASSUME NEW p \in Procs, TrimList(p)
     PROVE  StallInv' /\ EntryNeverPartial'
  BY <1>14, <1>q, <1>t, <1>m DEF TrimList
<1>15. ASSUME NEW p \in Procs, TrimNext(p)
     PROVE  StallInv' /\ EntryNeverPartial'
  <2>1. /\ pc[p] = "trimming"
        /\ UNCHANGED <<path, files, debris, staging, aside, i>>
    BY <1>15, TrimNextCases
  <2>2. ASSUME NEW n \in stale[p], taken' = taken \cup {d \in {At(n)} : InUse(n)},
               Rmtree(p, n, "trimming")
        PROVE  StallInv' /\ EntryNeverPartial'
    <3>1. n \in Dirs
      BY Types
    <3>2. At(n) \in taken' \/ MayRemove(p, n)
      BY <2>2 DEF InUse, MayRemove
    <3>. QED
      BY <2>1, <2>2, <3>1, <3>2, <1>r
  <2>3. ASSUME UNCHANGED rmVars, taken' = taken,
               Go(p, IF victims[p] = <<>> THEN "cleanup" ELSE "discard")
        PROVE  StallInv' /\ EntryNeverPartial'
    BY <2>1, <2>3, <1>q, <1>t
  <2>. QED
    BY <1>15, <2>2, <2>3, TrimNextCases
<1>16. ASSUME NEW p \in Procs, DiscardRename(p)
     PROVE  StallInv' /\ EntryNeverPartial'
  <2>. DEFINE k == Head(victims[p])
  <2>1. k \in Keys
    BY <1>16, TypeInv, StepInv, HeadTailProperties DEF StepInv, DiscardRename,
        TypeInv, ProcessType
  <2>2. /\ pc[p] = "discardRename" /\ aside[p] \in Dirs /\ Go(p, "discardRm")
        /\ UNCHANGED <<files, debris, taken, staging, aside, i>> /\ UNCHANGED rmVars
        /\ Rename(k, aside[p]) \/ UNCHANGED path
    BY <1>16, StepInv DEF DiscardRename, StepInv, Setting, Renaming
  <2>. HIDE DEF k
  <2>3. CASE Rename(k, aside[p])
    BY <2>1, <2>2, <2>3, <1>t, StallRename
  <2>4. CASE UNCHANGED path
    BY <2>2, <2>4, <1>t, <1>q
  <2>. QED
    BY <2>2, <2>3, <2>4
<1>17. ASSUME NEW p \in Procs, DiscardRm(p)
     PROVE  StallInv' /\ EntryNeverPartial'
  <2>1. /\ pc[p] = "discardRm" /\ Rmtree(p, aside[p], "trimming")
        /\ UNCHANGED <<path, files, debris, taken, staging, aside, i>>
    BY <1>17 DEF DiscardRm
  <2>2. aside[p] \in Dirs \cup {None} /\ MayRemove(p, aside[p])
    BY <1>t DEF MayRemove
  <2>. QED
    BY <2>1, <2>2, <1>r
<1>18. ASSUME NEW p \in Procs, RmDir(p)
     PROVE  StallInv' /\ EntryNeverPartial'
  <2>1. /\ pc[p] = "rm" /\ Go(p, rmback[p]) /\ rmpath[p] \in Dirs
        /\ path' = [d \in Dirs |-> IF path[d] = rmpath[p] /\ files[d] = {}
                                    THEN None ELSE path[d]]
        /\ rmpath' = Put(rmpath, p, None) /\ rmdir' = Put(rmdir, p, None)
        /\ UNCHANGED <<files, debris, taken, staging, aside, i>>
    BY <1>18, StepInv DEF RmDir, StepInv
  <2>2. \A d \in Dirs : path'[d] \in {path[d], None}
    BY <2>1
  <2>3. EntryNeverPartial'
    BY <2>1, <2>2 DEF EntryNeverPartial
  <2>4. ASSUME NEW q \in Procs, NEW d \in Dirs \ taken'
        PROVE  Intact(q, d)'
    <3>1. CASE q = p
      <4>1. pc'[p] \notin {"write", "publish", "debrisBack", "rm"}
        BY <2>1, <1>t
      <4>. QED
        BY <3>1, <4>1 DEF Intact
    <3>2. CASE q # p
      <4>1. Intact(q, d) /\ pc'[q] = pc[q] /\ rmpath'[q] = rmpath[q] /\ rmdir'[q] = rmdir[q]
        BY <2>1, <2>4, <3>2, <1>t DEF StallInv
      <4>2. MayRemove(q, rmpath[q]) => MayRemove(q, rmpath[q])'
        <5>1. \A r \in Procs : pc'[r] # "idle" => pc[r] # "idle"
          BY <2>1, <1>t
        <5>. QED
          BY <2>1, <4>1, <5>1 DEF MayRemove
      <4>3. pc[q] \in {"write", "publish"} => staging[q] # None
        BY StepInv DEF StepInv, Staging
      <4>4. pc[q] = "debrisBack" => aside[q] # None
        BY StepInv DEF StepInv, Setting
      <4>. QED
        BY <2>1, <2>2, <2>4, <4>1, <4>2, <4>3, <4>4 DEF Intact
    <3>. QED
      BY <3>1, <3>2
  <2>. QED
    BY <2>3, <2>4 DEF StallInv
<1>19. ASSUME NEW p \in Procs, NEW f \in All, RmFile(p, f)
     PROVE  StallInv' /\ EntryNeverPartial'
  <2>. DEFINE e == rmdir[p]
  <2>1. /\ pc[p] = "rm" /\ rmpath[p] \in Dirs /\ e \in Dirs
        /\ files' = [files EXCEPT ![e] = files[e] \ {f}]
        /\ UNCHANGED <<path, debris, taken, pc, staging, aside, i, rmpath, rmdir>>
    BY <1>19, StepInv DEF RmFile, StepInv
  <2>2. e \notin taken => path[e] \in {rmpath[p], None} /\ MayRemove(p, rmpath[p])
    BY <2>1 DEF StallInv, Intact
  <2>. HIDE DEF e
  <2>3. \A d \in Dirs : d # e => files'[d] = files[d]
    BY <2>1, <1>f
  <2>4. EntryNeverPartial'
    BY <2>1, <2>2, <2>3 DEF EntryNeverPartial
  <2>5. ASSUME NEW q \in Procs, NEW d \in Dirs \ taken'
        PROVE  Intact(q, d)'
    <3>1. Intact(q, d)
      BY <2>1, <2>5 DEF StallInv
    <3>2. MayRemove(q, rmpath[q]) => MayRemove(q, rmpath[q])'
      BY <2>1 DEF MayRemove
    <3>3. CASE d # e
      BY <2>1, <2>3, <2>5, <3>1, <3>2, <3>3 DEF Intact
    <3>4. CASE d = e
      <4>1. pc[q] \in Staging => staging[q] \in Dirs /\ path[d] # staging[q]
        BY <2>1, <2>2, <2>5, <3>4, StepInv, NamesInv DEF StepInv, NamesInv, MayRemove,
            Staging
      <4>2. pc[q] = "debrisBack" => aside[q] \in Dirs /\ path[d] # aside[q]
        BY <2>1, <2>2, <2>5, <3>4, StepInv, NamesInv DEF StepInv, NamesInv, MayRemove,
            Setting
      <4>. QED
        BY <2>1, <3>1, <3>2, <4>1, <4>2 DEF Intact, Staging
    <3>. QED
      BY <3>3, <3>4
  <2>. QED
    BY <2>4, <2>5 DEF StallInv
<1>20. ASSUME NEW p \in Procs, NEW d \in Dirs, DebrisMkdir(p, d)
     PROVE  StallInv' /\ EntryNeverPartial'
  BY <1>20, <1>t, StallMkdtemp DEF DebrisMkdir
<1>21. ASSUME NEW p \in Procs, NEW d \in Dirs, StageMkdir(p, d)
     PROVE  StallInv' /\ EntryNeverPartial'
  BY <1>21, <1>t, StallMkdtemp DEF StageMkdir
<1>22. ASSUME NEW p \in Procs, NEW d \in Dirs, DiscardMkdir(p, d)
     PROVE  StallInv' /\ EntryNeverPartial'
  BY <1>22, <1>t, StallMkdtemp DEF DiscardMkdir
<1>23. ASSUME NEW p \in Procs, Kill(p)
     PROVE  StallInv' /\ EntryNeverPartial'
  <2>1. /\ UNCHANGED <<path, files, debris, taken, i>> /\ pc'[p] = "idle"
        /\ staging'[p] = None /\ aside'[p] = None
        /\ \A q \in Procs \ {p} : /\ pc'[q] = pc[q] /\ rmpath'[q] = rmpath[q]
                                  /\ rmdir'[q] = rmdir[q] /\ staging'[q] = staging[q]
                                  /\ aside'[q] = aside[q]
    BY <1>23, <1>t DEF Kill
  <2>2. \A d \in Dirs \ taken' : Intact(p, d)'
    BY <2>1 DEF Intact
  <2>. QED
    BY <2>1, <2>2, StallFrame
<1>24. ASSUME NEW p \in Procs, NEW k \in Keys, Lookup(p, k)
     PROVE  StallInv' /\ EntryNeverPartial'
  <2>1. /\ UNCHANGED <<path, files, debris, taken, i>> /\ UNCHANGED rmVars
        /\ pc'[p] \in {"entry", "compile"} /\ staging'[p] = None /\ aside'[p] = None
        /\ \A q \in Procs \ {p} : /\ pc'[q] = pc[q] /\ staging'[q] = staging[q]
                                  /\ aside'[q] = aside[q]
    BY <1>24, <1>t DEF Lookup
  <2>2. \A d \in Dirs \ taken' : Intact(p, d)'
    BY <2>1 DEF Intact
  <2>. QED
    BY <2>1, <2>2, StallFrame
<1>25. ASSUME NEW d \in Dirs, Hour(d)
     PROVE  StallInv' /\ EntryNeverPartial'
  BY <1>25 DEF Hour, StallInv, Intact, MayRemove, EntryNeverPartial
<1>26. CASE UNCHANGED vars
  BY <1>26 DEF vars, StallInv, Intact, MayRemove, EntryNeverPartial
<1>27. ASSUME NEW p \in Procs, ReadRaises(p)
     PROVE  StallInv' /\ EntryNeverPartial'
  BY <1>27, <1>q, <1>t, <1>m DEF ReadRaises
<1>28. ASSUME NEW p \in Procs, RenameRefused(p)
     PROVE  StallInv' /\ EntryNeverPartial'
  <2>1. PICK back \in {"compile", "cleanup"} : Rmtree(p, aside[p], back)
    BY <1>28, RefusedEffect
  <2>2. /\ pc[p] \in {"debrisRename", "debrisBack", "discardRename"}
        /\ UNCHANGED <<path, files, debris, taken, staging, aside, i>>
    BY <1>28, RefusedEffect
  <2>3. aside[p] \in Dirs \cup {None} /\ MayRemove(p, aside[p])
    BY <1>t DEF MayRemove
  <2>. QED
    BY <2>1, <2>2, <2>3, <1>r
<1>. QED
  BY <1>1, <1>2, <1>3, <1>4, <1>5, <1>6, <1>7, <1>8, <1>9, <1>10, <1>11, <1>12,
      <1>13, <1>14, <1>15, <1>16, <1>17, <1>18, <1>19, <1>20, <1>21, <1>22, <1>23,
      <1>24, <1>25, <1>26, <1>27, <1>28 DEF Next, Step

-------------------------------------------------------------------------------
(* The theorems that hold whatever fails. *)

\* At the start no process runs and the directories are the incomplete entries.
LEMMA InitInv ==
  ASSUME Init
  PROVE  IInv
<1>. USE DiskCacheAssumption
<1>1. PICK at \in [DebrisKeys -> Dirs], part \in (SUBSET All) \ {All} :
        /\ \A a, b \in DebrisKeys : at[a] = at[b] => a = b
        /\ debris = {at[k] : k \in DebrisKeys}
        /\ path = [d \in Dirs |-> IF \E k \in DebrisKeys : at[k] = d
                                    THEN CHOOSE k \in DebrisKeys : at[k] = d
                                    ELSE None]
        /\ files = [d \in Dirs |-> IF d \in debris THEN part ELSE {}]
        /\ mtimes = SetToSeq(debris)
  BY Zenon DEF Init
<1>2. \A d \in Dirs : \/ path[d] = None /\ ~\E k \in DebrisKeys : at[k] = d
                      \/ path[d] \in DebrisKeys /\ at[path[d]] = d
  BY <1>1
<1>3. \A d \in Dirs : path[d] # None => d \in debris
  BY <1>1, <1>2
<1>4. FsType
  <2>1. path \in [Dirs -> Keys \cup Dirs \cup {None}]
    BY <1>1, <1>2
  <2>2. \A c, d \in Dirs : path[c] = path[d] /\ path[c] # None => c = d
    BY <1>2
  <2>3. files \in [Dirs -> SUBSET All] /\ debris \subseteq Dirs
    BY <1>1
  <2>. QED
    BY <2>1, <2>2, <2>3 DEF Init, FsType
<1>5. TypeInv
  BY <1>4 DEF Init, TypeInv, PcType, Labels, RmType, ProcessType, Backs
<1>6. EntryWhole
  BY <1>3 DEF EntryWhole
<1>7. StepInv /\ NamesInv /\ FreshInv /\ StageInv /\ RmInv
  BY DEF Init, StepInv, NamesInv, FreshInv, Works, Staging, Renaming, Setting,
      StageInv, RmInv
<1>8. AsideInv /\ ReaderInv /\ OffInv
  BY DEF Init, AsideInv, Missed, ReaderInv, OffInv
<1>. QED
  BY <1>5, <1>6, <1>7, <1>8 DEF IInv

\* The inductive invariant holds of every behaviour, with any failures, when no
\* process stalls inside a call for an hour.
THEOREM Invariance ==
  ASSUME "stall" \notin Faults
  PROVE  Spec => []IInv
<1>1. IInv /\ [Next]_vars => IInv'
  <2>. SUFFICES ASSUME IInv, [Next]_vars PROVE IInv'
    OBVIOUS
  <2>1. TypeInv /\ StepInv /\ NamesInv /\ FreshInv /\ StageInv /\ RmInv /\ AsideInv
        /\ EntryWhole /\ ReaderInv /\ OffInv
    BY DEF IInv
  <2>2. TypeInv'
    BY <2>1, FsTypeStep, PcTypeStep, RmTypeStep, ProcessTypeStep DEF TypeInv
  <2>3. StepInv' /\ NamesInv' /\ FreshInv' /\ StageInv' /\ RmInv' /\ AsideInv'
    BY <2>1, StepStep, NamesStep, FreshStep, StageStep, RmStep, AsideStep
  <2>4. EntryWhole' /\ ReaderInv' /\ OffInv'
    BY <2>1, PartialStep, ReaderStep, OffStep
  <2>. QED
    BY <2>2, <2>3, <2>4 DEF IInv
<1>. QED
  BY InitInv, <1>1, PTL DEF Spec

\* What also holds when processes stall holds of every behaviour, with any
\* failures.
LEMMA StallInvariance == Spec => []SInv
<1>1. Init => SInv
  <2>. SUFFICES ASSUME Init PROVE SInv
    OBVIOUS
  <2>1. TypeInv /\ StepInv /\ NamesInv /\ ReaderInv /\ EntryWhole
    BY InitInv DEF IInv
  <2>2. StallInv /\ EntryNeverPartial
    BY <2>1 DEF Init, StallInv, Intact, EntryWhole, EntryNeverPartial
  <2>. QED
    BY <2>1, <2>2 DEF SInv
<1>2. SInv /\ [Next]_vars => SInv'
  <2>. SUFFICES ASSUME SInv, [Next]_vars PROVE SInv'
    OBVIOUS
  <2>1. TypeInv /\ StepInv /\ NamesInv /\ ReaderInv /\ StallInv /\ EntryNeverPartial
    BY DEF SInv
  <2>2. TypeInv'
    BY <2>1, FsTypeStep, PcTypeStep, RmTypeStep, ProcessTypeStep DEF TypeInv
  <2>3. StepInv' /\ NamesInv' /\ ReaderInv' /\ StallInv' /\ EntryNeverPartial'
    BY <2>1, StepStep, NamesStep, ReaderStep, StallStep
  <2>. QED
    BY <2>2, <2>3 DEF SInv
<1>. QED
  BY <1>1, <1>2, PTL DEF Spec

\* TypeOK: the directories have paths and files, and no two share a path,
\* whatever the processes do to each other's directories.
THEOREM TypeCorrect == Spec => []TypeOK
<1>1. SInv => TypeOK
  BY DEF SInv, TypeInv, FsType, PcType, ProcessType, TypeOK
<1>. QED
  BY StallInvariance, <1>1, PTL

\* For any number of processes, any kills, failures and stalls, what stands at
\* the name of a key is complete, except debris of an earlier release and what
\* a trim removed under a process that stalled for an hour.
THEOREM ReaderSeesWholeEntry == Spec => []EntryNeverPartial
<1>1. SInv => EntryNeverPartial
  BY DEF SInv
<1>. QED
  BY StallInvariance, <1>1, PTL

\* When no process stalls inside a call for an hour, debris is the only
\* exception: the documented claim holds, with any kills and failures.
THEOREM WholeUnlessStalled ==
  ASSUME "stall" \notin Faults
  PROVE  Spec => []EntryWhole
<1>1. IInv => EntryWhole
  BY DEF IInv
<1>. QED
  BY Invariance, <1>1, PTL

\* The steps of a process with a read-only cache leave the directories alone.
LEMMA ReaderLeaves ==
  ASSUME TypeInv, ReaderInv, NEW r \in ReadOnly,
         pc'[r] # pc[r], [Next]_vars
  PROVE  UNCHANGED fsVars
<1>. USE DiskCacheAssumption
<1>t. /\ pc \in [Procs -> Labels] /\ key \in [Procs -> Keys \cup {None}]
      /\ staging \in [Procs -> Dirs \cup {None}] /\ aside \in [Procs -> Dirs \cup {None}]
      /\ rmpath \in [Procs -> Dirs \cup {None}] /\ rmdir \in [Procs -> Dirs \cup {None}]
      /\ \A p \in Procs : /\ miss[p] \in {"compile", "cleanup"}
                          /\ rmback[p] \in {"idle", "trimming", "compile", "cleanup"}
  BY Types
<1>r. \A p \in Procs, n \in Dirs \cup {None} : \A back : Rmtree(p, n, back) =>
        \/ \E d \in Dirs : /\ path[d] = n /\ n \in Dirs
                          /\ rmpath' = Put(rmpath, p, n) /\ rmdir' = Put(rmdir, p, d)
                          /\ Go(p, "rm")
        \/ Go(p, back) /\ UNCHANGED rmVars
  BY RmtreeEffect
<1>0. /\ r \in Procs /\ pc'[r] # pc[r] /\ staging[r] = None
      /\ pc[r] \in {"idle", "entry", "present", "safe", "read", "mismatch",
                    "compile", "cleanup"}
  BY DEF ReaderInv
<1>1. ASSUME NEW p \in Procs, LookEntry(p)
     PROVE  UNCHANGED fsVars
  BY <1>1, <1>0, <1>t, <1>r DEF LookEntry, Miss
<1>2. ASSUME NEW p \in Procs, ReadFails(p)
     PROVE  UNCHANGED fsVars
  BY <1>2, <1>0, <1>t, <1>r DEF ReadFails, Miss
<1>3. ASSUME NEW p \in Procs, LookFile(p)
     PROVE  UNCHANGED fsVars
  BY <1>3, <1>0, <1>t, <1>r DEF LookFile, NextFile, Holds
<1>4. ASSUME NEW p \in Procs, LookSafe(p)
     PROVE  UNCHANGED fsVars
  BY <1>4, <1>0, <1>t, <1>r DEF LookSafe, Miss, Holds, Writable
<1>5. ASSUME NEW p \in Procs, ReadFile(p)
     PROVE  UNCHANGED fsVars
  BY <1>5, <1>0, <1>t, <1>r DEF ReadFile, Miss, NextFile, Holds
<1>6. ASSUME NEW p \in Procs, DebrisRename(p)
     PROVE  UNCHANGED fsVars
  BY <1>6, <1>0, <1>t, <1>r DEF DebrisRename, Rename
<1>7. ASSUME NEW p \in Procs, DebrisJudge(p)
     PROVE  UNCHANGED fsVars
  BY <1>7, <1>0, <1>t, <1>r DEF DebrisJudge
<1>8. ASSUME NEW p \in Procs, DebrisBack(p)
     PROVE  UNCHANGED fsVars
  BY <1>8, <1>0, <1>t, <1>r DEF DebrisBack, Rename, Miss, CanRename
<1>9. ASSUME NEW p \in Procs, Compile(p)
     PROVE  UNCHANGED fsVars
  BY <1>9, <1>0, <1>t, <1>r DEF Compile, Content, Writable
<1>10. ASSUME NEW p \in Procs, StageWrite(p)
     PROVE  UNCHANGED fsVars
  BY <1>10, <1>0, <1>t, <1>r DEF StageWrite, Content, NextFile, LastFile
<1>11. ASSUME NEW p \in Procs, Publish(p)
     PROVE  UNCHANGED fsVars
  BY <1>11, <1>0, <1>t, <1>r DEF Publish, CanRename, Rename, AfterConflict
<1>12. ASSUME NEW p \in Procs, Cleanup(p)
     PROVE  UNCHANGED fsVars
  BY <1>12, <1>0, <1>t, <1>r DEF Cleanup
<1>13. ASSUME NEW p \in Procs, GiveUp(p)
     PROVE  UNCHANGED fsVars
  BY <1>13, <1>0, <1>t, <1>r DEF GiveUp, Unexpected
<1>14. ASSUME NEW p \in Procs, TrimList(p)
     PROVE  UNCHANGED fsVars
  BY <1>14, <1>0, <1>t, <1>r DEF TrimList
<1>15. ASSUME NEW p \in Procs, TrimNext(p)
     PROVE  UNCHANGED fsVars
  <2>1. pc[p] = "trimming"
    BY <1>15 DEF TrimNext
  <2>2. p # r
    BY <2>1, <1>0
  <2>3. pc'[r] = pc[r]
    BY <1>15, <2>2, <1>t, TrimNextCases DEF Rmtree
  <2>. QED
    BY <2>3, <1>0
<1>16. ASSUME NEW p \in Procs, DiscardRename(p)
     PROVE  UNCHANGED fsVars
  BY <1>16, <1>0, <1>t, <1>r DEF DiscardRename, Rename
<1>17. ASSUME NEW p \in Procs, DiscardRm(p)
     PROVE  UNCHANGED fsVars
  BY <1>17, <1>0, <1>t, <1>r DEF DiscardRm
<1>18. ASSUME NEW p \in Procs, RmDir(p)
     PROVE  UNCHANGED fsVars
  BY <1>18, <1>0, <1>t, <1>r DEF RmDir
<1>19. ASSUME NEW p \in Procs, NEW f \in All, RmFile(p, f)
     PROVE  UNCHANGED fsVars
  BY <1>19, <1>0, <1>t, <1>r DEF RmFile
<1>20. ASSUME NEW p \in Procs, NEW d \in Dirs, DebrisMkdir(p, d)
     PROVE  UNCHANGED fsVars
  BY <1>20, <1>0, <1>t, <1>r DEF DebrisMkdir
<1>21. ASSUME NEW p \in Procs, NEW d \in Dirs, StageMkdir(p, d)
     PROVE  UNCHANGED fsVars
  BY <1>21, <1>0, <1>t, <1>r DEF StageMkdir
<1>22. ASSUME NEW p \in Procs, NEW d \in Dirs, DiscardMkdir(p, d)
     PROVE  UNCHANGED fsVars
  BY <1>22, <1>0, <1>t, <1>r DEF DiscardMkdir
<1>23. ASSUME NEW p \in Procs, Kill(p)
     PROVE  UNCHANGED fsVars
  BY <1>23, <1>0, <1>t, <1>r DEF Kill
<1>24. ASSUME NEW p \in Procs, NEW k \in Keys, Lookup(p, k)
     PROVE  UNCHANGED fsVars
  BY <1>24, <1>0, <1>t, <1>r DEF Lookup
<1>25. ASSUME NEW d \in Dirs, Hour(d)
     PROVE  UNCHANGED fsVars
  BY <1>25, <1>0, <1>t, <1>r DEF Hour, AtRest
<1>26. CASE UNCHANGED vars
  BY <1>26, <1>0, <1>t, <1>r DEF vars
<1>27. ASSUME NEW p \in Procs, ReadRaises(p)
     PROVE  UNCHANGED fsVars
  BY <1>27, <1>0, <1>t, <1>r DEF ReadRaises, Miss
<1>28. ASSUME NEW p \in Procs, RenameRefused(p)
     PROVE  UNCHANGED fsVars
  BY <1>28, RefusedEffect
<1>. QED
  BY <1>1, <1>2, <1>3, <1>4, <1>5, <1>6, <1>7, <1>8, <1>9, <1>10, <1>11, <1>12,
      <1>13, <1>14, <1>15, <1>16, <1>17, <1>18, <1>19, <1>20, <1>21, <1>22, <1>23,
      <1>24, <1>25, <1>26, <1>27, <1>28 DEF Next, Step

\* No step of a process with a read-only cache, on any error path, changes the
\* directories.
THEOREM ReadersLeaveTheRoot == Spec => ReadOnlyNeverWrites
<1>1. ASSUME SInv, [Next]_vars
      PROVE  \A p \in ReadOnly : pc'[p] # pc[p] => UNCHANGED fsVars
  BY <1>1, ReaderLeaves DEF SInv
<1>2. SInv /\ [Next]_vars => \A p \in ReadOnly : pc'[p] # pc[p] => UNCHANGED fsVars
  BY <1>1
<1>. QED
  BY StallInvariance, <1>2, PTL DEF Spec, ReadOnlyNeverWrites

\* When the file system refuses nothing and no process stalls for an hour, no
\* process gives the cache up: neither the calls of the others nor kills, hours
\* between the calls and debris make a call of it fail in a way its caller does
\* not expect.
THEOREM RacesAreExpected ==
  ASSUME Faults \cap {"read", "write", "stall"} = {}
  PROVE  Spec => []RaceNeverDisablesCache
<1>0. "stall" \notin Faults
  OBVIOUS
<1>1. IInv => RaceNeverDisablesCache
  BY DEF IInv, OffInv, RaceNeverDisablesCache
<1>. QED
  BY <1>0, Invariance, <1>1, PTL

-------------------------------------------------------------------------------
(* Without kills: who removes a private directory. *)

Owns(p, n) ==
    \/ n = staging[p] /\ pc[p] # "idle"
    \/ n = aside[p] /\ (pc[p] \in Setting \/ (pc[p] = "rm" /\ rmpath[p] = n))

StagedLater == {"entry", "present", "safe", "read"} \cup Debrising
LeftInv ==
    /\ \A d \in Dirs : path[d] \in Dirs => \E p \in Procs : Owns(p, path[d])
    /\ \A p \in Procs :
         /\ pc[p] \in {"compile", "stage"} => staging[p] = None
         /\ pc[p] \in StagedLater /\ miss[p] = "compile" => staging[p] = None
         /\ pc[p] = "rm" /\ rmback[p] = "compile" => staging[p] = None
         /\ pc[p] = "rm" /\ rmback[p] = "idle" => rmpath[p] = staging[p]

\* A private directory keeps its owner until it is removed or renamed to a key.
LEMMA LeftStep ==
  ASSUME "kill" \notin Faults, TypeInv, StepInv, RmInv, LeftInv, [Next]_vars
  PROVE  LeftInv'
<1>. USE DiskCacheAssumption
<1>t. /\ pc \in [Procs -> Labels] /\ key \in [Procs -> Keys \cup {None}]
      /\ staging \in [Procs -> Dirs \cup {None}] /\ aside \in [Procs -> Dirs \cup {None}]
      /\ rmpath \in [Procs -> Dirs \cup {None}] /\ rmdir \in [Procs -> Dirs \cup {None}]
      /\ rmback \in [Procs -> Backs] /\ miss \in [Procs -> {"compile", "cleanup"}]
      /\ \A p \in Procs : /\ miss[p] \in {"compile", "cleanup"}
                          /\ rmback[p] \in {"idle", "trimming", "compile", "cleanup"}
  BY Types
<1>f. /\ path \in [Dirs -> Keys \cup Dirs \cup {None}]
      /\ \A c, d \in Dirs : path[c] = path[d] /\ path[c] # None => c = d
      /\ files \in [Dirs -> SUBSET All] /\ content \in [Dirs -> Procs \cup {None}]
  BY DEF TypeInv, FsType
<1>r. \A p \in Procs, n \in Dirs \cup {None} : \A back : Rmtree(p, n, back) =>
        \/ \E d \in Dirs : /\ path[d] = n /\ n \in Dirs
                          /\ rmpath' = Put(rmpath, p, n) /\ rmdir' = Put(rmdir, p, d)
                          /\ rmback' = Put(rmback, p, back) /\ Go(p, "rm")
        \/ (n = None \/ ~Exists(n)) /\ Go(p, back) /\ UNCHANGED rmVars
  BY RmtreeEffect
<1>1. ASSUME NEW p \in Procs, LookEntry(p)
     PROVE  LeftInv'
  <2>1. /\ UNCHANGED <<path, staging, aside, miss, rmpath, rmback>> /\ pc[p] = "entry"
        /\ Go(p, "present") \/ Go(p, miss[p])
    BY <1>1 DEF LookEntry, Miss
  <2>. QED
    BY <2>1, <1>t, LeftInv DEF LeftInv, Owns, StagedLater, Setting, Renaming
<1>2. ASSUME NEW p \in Procs, ReadFails(p)
     PROVE  LeftInv'
  BY <1>2, StepInv, LeftInv, <1>t, <1>f, <1>r DEF ReadFails, Miss, LeftInv, Owns,
      StagedLater, Exists, StepInv, Staging, Renaming, Setting
<1>3. ASSUME NEW p \in Procs, LookFile(p)
     PROVE  LeftInv'
  BY <1>3, StepInv, LeftInv, <1>t, <1>f, <1>r DEF LookFile, NextFile, Holds,
      LeftInv, Owns, StagedLater, Exists, StepInv, Staging, Renaming, Setting
<1>4. ASSUME NEW p \in Procs, LookSafe(p)
     PROVE  LeftInv'
  BY <1>4, StepInv, LeftInv, <1>t, <1>f, <1>r DEF LookSafe, Miss, Holds, Writable,
      LeftInv, Owns, StagedLater, Exists, StepInv, Staging, Renaming, Setting
<1>5. ASSUME NEW p \in Procs, ReadFile(p)
     PROVE  LeftInv'
  <2>1. /\ UNCHANGED <<path, staging, aside, miss, rmpath, rmback>> /\ pc[p] = "read"
        /\ \/ Go(p, "read") \/ Go(p, "mismatch")
           \/ Go(p, "cleanup") \/ Go(p, miss[p])
    BY <1>5 DEF ReadFile, Miss
  <2>. QED
    BY <2>1, <1>t, LeftInv DEF LeftInv, Owns, StagedLater, Setting, Renaming
<1>6. ASSUME NEW p \in Procs, DebrisRename(p)
     PROVE  LeftInv'
  <2>1. /\ UNCHANGED <<staging, aside>> /\ pc[p] = "debrisRename"
        /\ \A q \in Procs \ {p} : /\ pc'[q] = pc[q] /\ miss'[q] = miss[q]
                                  /\ rmpath'[q] = rmpath[q] /\ rmback'[q] = rmback[q]
    BY <1>6, <1>t, <1>r DEF DebrisRename, Miss, AfterConflict
  <2>2. /\ aside[p] \in Dirs /\ key[p] \in Keys /\ miss'[p] = miss[p]
        /\ \/ pc'[p] = "debrisJudge"
           \/ pc'[p] = "rm" /\ rmpath'[p] = aside[p] /\ rmback'[p] = miss[p]
           \/ pc'[p] = miss[p] /\ \A d \in Dirs : path'[d] # aside[p]
    BY <1>6, <1>t, <1>f, <1>r, StepInv, DiskCacheAssumption DEF DebrisRename,
        StepInv, Setting, Renaming, Miss, Exists, Rename, callVars, fsVars
  <2>3. ASSUME NEW n \in Dirs, NEW c \in Dirs, path'[c] = n
        PROVE  \E q \in Procs : Owns(q, n)'
    <3>1. CASE n = aside[p] /\ pc[p] # "publish"
      BY <2>1, <2>2, <2>3, <3>1 DEF Owns, Setting
    <3>2. CASE n # aside[p] \/ pc[p] = "publish"
      <4>1. path[c] = n
        BY <1>6, <2>1, <2>2, <2>3, <3>2, <1>f, DiskCacheAssumption DEF DebrisRename,
            Rename
      <4>2. PICK q \in Procs : Owns(q, n)
        BY <2>3, <4>1, LeftInv DEF LeftInv
      <4>3. Owns(q, n)'
        BY <2>1, <2>2, <3>2, <4>2, <1>t DEF Owns
      <4>. QED
        BY <4>3
    <3>. QED
      BY <3>1, <3>2
  <2>4. \A q \in Procs :
          /\ pc'[q] \in {"compile", "stage"} => staging'[q] = None
          /\ pc'[q] \in StagedLater /\ miss'[q] = "compile" => staging'[q] = None
          /\ pc'[q] = "rm" /\ rmback'[q] = "compile" => staging'[q] = None
          /\ pc'[q] = "rm" /\ rmback'[q] = "idle" => rmpath'[q] = staging'[q]
    BY <2>1, <2>2, <1>t, LeftInv DEF LeftInv, StagedLater, Debrising
  <2>. QED
    BY <2>3, <2>4 DEF LeftInv, Owns
<1>7. ASSUME NEW p \in Procs, DebrisJudge(p)
     PROVE  LeftInv'
  <2>1. /\ UNCHANGED <<path, staging, aside, miss>> /\ pc[p] = "debrisJudge" /\ aside[p] \in Dirs
        /\ \/ Go(p, "debrisBack") /\ UNCHANGED <<rmpath, rmback>>
           \/ Go(p, "rm") /\ rmpath' = Put(rmpath, p, aside[p]) /\ rmback' = Put(rmback, p, miss[p])
           \/ Go(p, miss[p]) /\ UNCHANGED <<rmpath, rmback>> /\ ~Exists(aside[p])
    BY <1>7, <1>t, <1>r, StepInv DEF DebrisJudge, StepInv, Setting
  <2>. QED
    BY <2>1, <1>t, LeftInv DEF LeftInv, Owns, StagedLater, Debrising, Setting,
        Exists
<1>8. ASSUME NEW p \in Procs, DebrisBack(p)
     PROVE  LeftInv'
  <2>1. /\ UNCHANGED <<staging, aside>> /\ pc[p] = "debrisBack"
        /\ \A q \in Procs \ {p} : /\ pc'[q] = pc[q] /\ miss'[q] = miss[q]
                                  /\ rmpath'[q] = rmpath[q] /\ rmback'[q] = rmback[q]
    BY <1>8, <1>t, <1>r DEF DebrisBack, Miss, AfterConflict
  <2>2. /\ aside[p] \in Dirs /\ key[p] \in Keys /\ miss'[p] = miss[p]
        /\ \/ pc'[p] = "debrisJudge"
           \/ pc'[p] = "rm" /\ rmpath'[p] = aside[p] /\ rmback'[p] = miss[p]
           \/ pc'[p] = miss[p] /\ \A d \in Dirs : path'[d] # aside[p]
    BY <1>8, <1>t, <1>f, <1>r, StepInv, DiskCacheAssumption DEF DebrisBack, StepInv,
        Setting, Miss, Exists, Rename, callVars, fsVars
  <2>3. ASSUME NEW n \in Dirs, NEW c \in Dirs, path'[c] = n
        PROVE  \E q \in Procs : Owns(q, n)'
    <3>1. CASE n = aside[p] /\ pc[p] # "publish"
      BY <2>1, <2>2, <2>3, <3>1 DEF Owns, Setting
    <3>2. CASE n # aside[p] \/ pc[p] = "publish"
      <4>1. path[c] = n
        BY <1>8, <2>1, <2>2, <2>3, <3>2, <1>f, DiskCacheAssumption DEF DebrisBack,
            Rename
      <4>2. PICK q \in Procs : Owns(q, n)
        BY <2>3, <4>1, LeftInv DEF LeftInv
      <4>3. Owns(q, n)'
        BY <2>1, <2>2, <3>2, <4>2, <1>t DEF Owns
      <4>. QED
        BY <4>3
    <3>. QED
      BY <3>1, <3>2
  <2>4. \A q \in Procs :
          /\ pc'[q] \in {"compile", "stage"} => staging'[q] = None
          /\ pc'[q] \in StagedLater /\ miss'[q] = "compile" => staging'[q] = None
          /\ pc'[q] = "rm" /\ rmback'[q] = "compile" => staging'[q] = None
          /\ pc'[q] = "rm" /\ rmback'[q] = "idle" => rmpath'[q] = staging'[q]
    BY <2>1, <2>2, <1>t, LeftInv DEF LeftInv, StagedLater, Debrising
  <2>. QED
    BY <2>3, <2>4 DEF LeftInv, Owns
<1>9. ASSUME NEW p \in Procs, Compile(p)
     PROVE  LeftInv'
  BY <1>9, StepInv, LeftInv, <1>t, <1>f, <1>r DEF Compile, Content, Writable,
      LeftInv, Owns, StagedLater, Exists, StepInv, Staging, Renaming, Setting
<1>10. ASSUME NEW p \in Procs, StageWrite(p)
     PROVE  LeftInv'
  BY <1>10, StepInv, LeftInv, <1>t, <1>f, <1>r DEF StageWrite, Content, NextFile,
      LastFile, LeftInv, Owns, StagedLater, Exists, StepInv, Staging, Renaming,
      Setting, Debrising
<1>11. ASSUME NEW p \in Procs, Publish(p)
     PROVE  LeftInv'
  <2>1. /\ UNCHANGED <<staging, aside>> /\ pc[p] = "publish"
        /\ \A q \in Procs \ {p} : /\ pc'[q] = pc[q] /\ miss'[q] = miss[q]
                                  /\ rmpath'[q] = rmpath[q] /\ rmback'[q] = rmback[q]
    BY <1>11, <1>t, <1>r DEF Publish, Miss, AfterConflict
  <2>2. /\ staging[p] \in Dirs /\ key[p] \in Keys
        /\ pc'[p] = "trim" \/ (pc'[p] = "entry" /\ miss'[p] = "cleanup")
    BY <1>11, <1>t, StepInv DEF Publish, StepInv, Staging, AfterConflict
  <2>3. ASSUME NEW n \in Dirs, NEW c \in Dirs, path'[c] = n
        PROVE  \E q \in Procs : Owns(q, n)'
    <3>1. CASE n = aside[p] /\ pc[p] # "publish"
      BY <2>1, <2>2, <2>3, <3>1 DEF Owns
    <3>2. CASE n # aside[p] \/ pc[p] = "publish"
      <4>1. path[c] = n
        BY <1>11, <2>1, <2>2, <2>3, <3>2, <1>f, DiskCacheAssumption DEF Publish,
            Rename
      <4>2. PICK q \in Procs : Owns(q, n)
        BY <2>3, <4>1, LeftInv DEF LeftInv
      <4>3. Owns(q, n)'
        BY <2>1, <2>2, <3>2, <4>2, <1>t DEF Owns, Setting, Renaming
      <4>. QED
        BY <4>3
    <3>. QED
      BY <3>1, <3>2
  <2>4. \A q \in Procs :
          /\ pc'[q] \in {"compile", "stage"} => staging'[q] = None
          /\ pc'[q] \in StagedLater /\ miss'[q] = "compile" => staging'[q] = None
          /\ pc'[q] = "rm" /\ rmback'[q] = "compile" => staging'[q] = None
          /\ pc'[q] = "rm" /\ rmback'[q] = "idle" => rmpath'[q] = staging'[q]
    BY <2>1, <2>2, <1>t, LeftInv DEF LeftInv, StagedLater, Debrising
  <2>. QED
    BY <2>3, <2>4 DEF LeftInv, Owns
<1>12. ASSUME NEW p \in Procs, Cleanup(p)
     PROVE  LeftInv'
  <2>1. /\ UNCHANGED <<path, staging, aside, miss>> /\ pc[p] \in {"cleanup", "mismatch"}
        /\ \/ Go(p, "rm") /\ rmpath' = Put(rmpath, p, staging[p]) /\ rmback' = Put(rmback, p, "idle")
           \/ /\ Go(p, "idle") /\ UNCHANGED <<rmpath, rmback>>
              /\ \A d \in Dirs : path[d] \in Dirs => path[d] # staging[p]
    BY <1>12, <1>t, <1>r DEF Cleanup, Finally, Exists
  <2>. QED
    BY <2>1, <1>t, LeftInv DEF LeftInv, Owns, StagedLater, Debrising, Setting,
        Renaming
<1>13. ASSUME NEW p \in Procs, GiveUp(p)
     PROVE  LeftInv'
  BY <1>13, StepInv, LeftInv, <1>t, <1>f, <1>r DEF GiveUp, Unexpected, LeftInv,
      Owns, StagedLater, Exists, StepInv, Staging, Renaming, Setting, Debrising
<1>14. ASSUME NEW p \in Procs, TrimList(p)
     PROVE  LeftInv'
  BY <1>14, StepInv, LeftInv, <1>t, <1>f, <1>r DEF TrimList, LeftInv, Owns,
      StagedLater, Exists, StepInv, Staging, Renaming, Setting, Debrising
<1>15. ASSUME NEW p \in Procs, TrimNext(p)
     PROVE  LeftInv'
  <2>1. \A n \in stale[p] : n \in Dirs \cup {None}
    BY Types
  <2>2. /\ pc[p] = "trimming" /\ UNCHANGED <<path, files, content, old, debris, evicted, i, seen, read, key,
                                         miss, staging, aside, victims, off, artifact>>
        /\ \/ \E n \in stale[p] : Exists(n) /\ At(n) \in old /\ Rmtree(p, n, "trimming")
           \/ UNCHANGED rmVars /\ Go(p, IF victims[p] = <<>> THEN "cleanup" ELSE "discard")
    BY <1>15, TrimNextCases, Zenon
  <2>3. \/ Go(p, "rm") /\ rmback' = Put(rmback, p, "trimming") /\ \E n \in Dirs : rmpath' = Put(rmpath, p, n)
        \/ /\ Go(p, "trimming") \/ Go(p, "cleanup") \/ Go(p, "discard")
           /\ UNCHANGED <<rmpath, rmback>>
    BY <1>r, <2>1, <2>2 DEF rmVars
  <2>. QED
    BY <2>2, <2>3, <1>t, LeftInv DEF LeftInv, Owns, StagedLater, Debrising, Setting,
        Renaming
<1>16. ASSUME NEW p \in Procs, DiscardRename(p)
     PROVE  LeftInv'
  BY <1>16, StepInv, LeftInv, <1>t, <1>f, <1>r DEF DiscardRename, Rename, LeftInv,
      Owns, StagedLater, Exists, StepInv, Staging, Setting, Debrising
<1>17. ASSUME NEW p \in Procs, DiscardRm(p)
     PROVE  LeftInv'
  <2>1. /\ UNCHANGED <<staging, aside>> /\ pc[p] = "discardRm"
        /\ \A q \in Procs \ {p} : /\ pc'[q] = pc[q] /\ miss'[q] = miss[q]
                                  /\ rmpath'[q] = rmpath[q] /\ rmback'[q] = rmback[q]
    BY <1>17, <1>t, <1>r DEF DiscardRm, Miss, AfterConflict
  <2>2. /\ aside[p] \in Dirs /\ miss'[p] = miss[p]
        /\ \/ pc'[p] = "rm" /\ rmpath'[p] = aside[p] /\ rmback'[p] = "trimming"
           \/ pc'[p] = "trimming" /\ \A d \in Dirs : path'[d] # aside[p]
    BY <1>17, <1>t, <1>f, <1>r, StepInv, DiskCacheAssumption DEF DiscardRm, StepInv,
        Setting, Exists, callVars, fsVars
  <2>3. ASSUME NEW n \in Dirs, NEW c \in Dirs, path'[c] = n
        PROVE  \E q \in Procs : Owns(q, n)'
    <3>1. CASE n = aside[p] /\ pc[p] # "publish"
      BY <2>1, <2>2, <2>3, <3>1 DEF Owns
    <3>2. CASE n # aside[p] \/ pc[p] = "publish"
      <4>1. path[c] = n
        BY <1>17, <2>1, <2>2, <2>3, <3>2, <1>f, DiskCacheAssumption DEF DiscardRm,
            fsVars
      <4>2. PICK q \in Procs : Owns(q, n)
        BY <2>3, <4>1, LeftInv DEF LeftInv
      <4>3. Owns(q, n)'
        BY <2>1, <2>2, <3>2, <4>2, <1>t DEF Owns
      <4>. QED
        BY <4>3
    <3>. QED
      BY <3>1, <3>2
  <2>4. \A q \in Procs :
          /\ pc'[q] \in {"compile", "stage"} => staging'[q] = None
          /\ pc'[q] \in StagedLater /\ miss'[q] = "compile" => staging'[q] = None
          /\ pc'[q] = "rm" /\ rmback'[q] = "compile" => staging'[q] = None
          /\ pc'[q] = "rm" /\ rmback'[q] = "idle" => rmpath'[q] = staging'[q]
    BY <2>1, <2>2, <1>t, LeftInv DEF LeftInv, StagedLater, Debrising
  <2>. QED
    BY <2>3, <2>4 DEF LeftInv, Owns
<1>18. ASSUME NEW p \in Procs, RmDir(p)
     PROVE  LeftInv'
  <2>1. /\ pc[p] = "rm" /\ Go(p, rmback[p]) /\ UNCHANGED <<staging, aside, miss>>
        /\ rmpath' = Put(rmpath, p, None) /\ rmback' = Put(rmback, p, "idle")
        /\ \A d \in Dirs : path'[d] # None => path'[d] = path[d] /\ path[d] # rmpath[p]
    BY <1>18, RmDirEffect, <1>f
  <2>2. ASSUME NEW n \in Dirs, NEW d \in Dirs, path'[d] = n
        PROVE  \E q \in Procs : Owns(q, n)'
    <3>1. n = path[d] /\ n # rmpath[p] /\ n # None
      BY <2>1, <2>2
    <3>2. PICK q \in Procs : Owns(q, n)
      BY <3>1, LeftInv DEF LeftInv
    <3>3. CASE q = p
      <4>1. n = staging[p] /\ rmback[p] # "idle"
        BY <2>1, <3>1, <3>2, <3>3, LeftInv DEF LeftInv, Owns, Setting, Renaming
      <4>2. staging'[p] = n /\ pc'[p] # "idle"
        BY <2>1, <4>1, <1>t
      <4>. QED
        BY <3>1, <4>2 DEF Owns
    <3>4. CASE q # p
      <4>1. \/ n = staging'[q] /\ pc'[q] # "idle"
            \/ n = aside'[q] /\ (pc'[q] \in Setting \/ (pc'[q] = "rm" /\ rmpath'[q] = n))
        BY <2>1, <3>2, <3>4, <1>t DEF Owns
      <4>. QED
        BY <3>1, <4>1 DEF Owns
    <3>. QED
      BY <3>3, <3>4
  <2>3. \A q \in Procs :
          /\ pc'[q] \in {"compile", "stage"} => staging'[q] = None
          /\ pc'[q] \in StagedLater /\ miss'[q] = "compile" => staging'[q] = None
          /\ pc'[q] = "rm" /\ rmback'[q] = "compile" => staging'[q] = None
          /\ pc'[q] = "rm" /\ rmback'[q] = "idle" => rmpath'[q] = staging'[q]
    BY <2>1, <1>t, LeftInv DEF LeftInv, StagedLater, Debrising
  <2>. QED
    BY <2>2, <2>3 DEF LeftInv
<1>19. ASSUME NEW p \in Procs, NEW f \in All, RmFile(p, f)
     PROVE  LeftInv'
  BY <1>19, StepInv, LeftInv, <1>t, <1>f, <1>r DEF RmFile, LeftInv, Owns,
      StagedLater, Exists, StepInv, Staging
<1>20. ASSUME NEW p \in Procs, NEW d \in Dirs, DebrisMkdir(p, d)
     PROVE  LeftInv'
  <2>1. /\ path' = [path EXCEPT ![d] = d] /\ UNCHANGED <<staging, miss, rmpath, rmback>>
        /\ aside' = [aside EXCEPT ![p] = d] /\ pc[p] = "debris" /\ Go(p, "debrisRename")
    BY <1>20, MkdtempEffect DEF DebrisMkdir
  <2>2. ASSUME NEW n \in Dirs, NEW c \in Dirs, path'[c] = n
        PROVE  \E q \in Procs : Owns(q, n)'
    <3>1. CASE c = d
      <4>1. Owns(p, n)'
        BY <2>1, <2>2, <3>1, <1>t, <1>f DEF Owns, Setting, Renaming
      <4>. QED
        BY <4>1
    <3>2. CASE c # d
      <4>1. path'[c] = path[c]
        BY <2>1, <3>2, <1>f
      <4>2. PICK q \in Procs : Owns(q, path[c])
        BY <2>2, <4>1, LeftInv DEF LeftInv
      <4>3. Owns(q, n)'
        BY <2>1, <2>2, <4>1, <4>2, <1>t, LeftInv DEF Owns, LeftInv, Setting,
            Renaming
      <4>. QED
        BY <4>3
    <3>. QED
      BY <3>1, <3>2
  <2>3. \A q \in Procs :
          /\ pc'[q] \in {"compile", "stage"} => staging'[q] = None
          /\ pc'[q] \in StagedLater /\ miss'[q] = "compile" => staging'[q] = None
          /\ pc'[q] = "rm" /\ rmback'[q] = "compile" => staging'[q] = None
          /\ pc'[q] = "rm" /\ rmback'[q] = "idle" => rmpath'[q] = staging'[q]
    BY <2>1, <1>t, LeftInv DEF LeftInv, StagedLater, Debrising
  <2>. QED
    BY <2>2, <2>3 DEF LeftInv, Owns
<1>21. ASSUME NEW p \in Procs, NEW d \in Dirs, StageMkdir(p, d)
     PROVE  LeftInv'
  <2>1. /\ path' = [path EXCEPT ![d] = d] /\ UNCHANGED <<aside, miss, rmpath, rmback>>
        /\ staging' = [staging EXCEPT ![p] = d] /\ pc[p] = "stage" /\ Go(p, "write")
    BY <1>21, MkdtempEffect DEF StageMkdir
  <2>2. ASSUME NEW n \in Dirs, NEW c \in Dirs, path'[c] = n
        PROVE  \E q \in Procs : Owns(q, n)'
    <3>1. CASE c = d
      <4>1. Owns(p, n)'
        BY <2>1, <2>2, <3>1, <1>t, <1>f DEF Owns
      <4>. QED
        BY <4>1
    <3>2. CASE c # d
      <4>1. path'[c] = path[c]
        BY <2>1, <3>2, <1>f
      <4>2. PICK q \in Procs : Owns(q, path[c])
        BY <2>2, <4>1, LeftInv DEF LeftInv
      <4>3. Owns(q, n)'
        BY <2>1, <2>2, <4>1, <4>2, <1>t, LeftInv DEF Owns, LeftInv, Setting,
            Renaming
      <4>. QED
        BY <4>3
    <3>. QED
      BY <3>1, <3>2
  <2>3. \A q \in Procs :
          /\ pc'[q] \in {"compile", "stage"} => staging'[q] = None
          /\ pc'[q] \in StagedLater /\ miss'[q] = "compile" => staging'[q] = None
          /\ pc'[q] = "rm" /\ rmback'[q] = "compile" => staging'[q] = None
          /\ pc'[q] = "rm" /\ rmback'[q] = "idle" => rmpath'[q] = staging'[q]
    BY <2>1, <1>t, LeftInv DEF LeftInv, StagedLater, Debrising
  <2>. QED
    BY <2>2, <2>3 DEF LeftInv, Owns
<1>22. ASSUME NEW p \in Procs, NEW d \in Dirs, DiscardMkdir(p, d)
     PROVE  LeftInv'
  <2>1. /\ path' = [path EXCEPT ![d] = d] /\ UNCHANGED <<staging, miss, rmpath, rmback>>
        /\ aside' = [aside EXCEPT ![p] = d] /\ pc[p] = "discard" /\ Go(p, "discardRename")
    BY <1>22, MkdtempEffect DEF DiscardMkdir
  <2>2. ASSUME NEW n \in Dirs, NEW c \in Dirs, path'[c] = n
        PROVE  \E q \in Procs : Owns(q, n)'
    <3>1. CASE c = d
      <4>1. Owns(p, n)'
        BY <2>1, <2>2, <3>1, <1>t, <1>f DEF Owns, Setting, Renaming
      <4>. QED
        BY <4>1
    <3>2. CASE c # d
      <4>1. path'[c] = path[c]
        BY <2>1, <3>2, <1>f
      <4>2. PICK q \in Procs : Owns(q, path[c])
        BY <2>2, <4>1, LeftInv DEF LeftInv
      <4>3. Owns(q, n)'
        BY <2>1, <2>2, <4>1, <4>2, <1>t, LeftInv DEF Owns, LeftInv, Setting,
            Renaming
      <4>. QED
        BY <4>3
    <3>. QED
      BY <3>1, <3>2
  <2>3. \A q \in Procs :
          /\ pc'[q] \in {"compile", "stage"} => staging'[q] = None
          /\ pc'[q] \in StagedLater /\ miss'[q] = "compile" => staging'[q] = None
          /\ pc'[q] = "rm" /\ rmback'[q] = "compile" => staging'[q] = None
          /\ pc'[q] = "rm" /\ rmback'[q] = "idle" => rmpath'[q] = staging'[q]
    BY <2>1, <1>t, LeftInv DEF LeftInv, StagedLater, Debrising
  <2>. QED
    BY <2>2, <2>3 DEF LeftInv, Owns
<1>23. ASSUME NEW p \in Procs, Kill(p)
     PROVE  LeftInv'
  BY <1>23, StepInv, LeftInv, <1>t, <1>f, <1>r DEF Kill, LeftInv, Owns, StagedLater,
      Exists, StepInv, Staging
<1>24. ASSUME NEW p \in Procs, NEW k \in Keys, Lookup(p, k)
     PROVE  LeftInv'
  BY <1>24, StepInv, LeftInv, <1>t, <1>f, <1>r DEF Lookup, LeftInv, Owns,
      StagedLater, Exists, StepInv, Staging, Renaming, Setting
<1>25. ASSUME NEW d \in Dirs, Hour(d)
     PROVE  LeftInv'
  BY <1>25, StepInv, LeftInv, <1>t, <1>f, <1>r DEF Hour, AtRest, LeftInv, Owns,
      StagedLater, Exists, StepInv, Staging
<1>26. CASE UNCHANGED vars
  BY <1>26, StepInv, LeftInv, <1>t, <1>f, <1>r DEF vars, LeftInv, Owns, StagedLater,
      Exists, StepInv, Staging
<1>27. ASSUME NEW p \in Procs, ReadRaises(p)
     PROVE  LeftInv'
  BY <1>27, StepInv, LeftInv, <1>t, <1>f, <1>r DEF ReadRaises, Miss, LeftInv, Owns,
      StagedLater, Exists, StepInv, Staging, Renaming, Setting
<1>28. ASSUME NEW p \in Procs, RenameRefused(p)
     PROVE  LeftInv'
  <2>1. PICK back \in {"compile", "cleanup"} :
          /\ Rmtree(p, aside[p], back)
          /\ back = IF pc[p] = "discardRename" THEN "cleanup" ELSE miss[p]
    BY <1>28, RefusedEffect, Zenon
  <2>2. /\ pc[p] \in {"debrisRename", "debrisBack", "discardRename"}
        /\ UNCHANGED <<path, files, content, old, debris, taken, evicted, i, seen,
                       read, key, miss, staging, aside, victims>>
    BY <1>28, RefusedEffect
  <2>3. aside[p] \in Dirs
    BY <2>2, StepInv DEF StepInv, Setting, Renaming
  <2>4. \/ Go(p, "rm") /\ rmpath' = Put(rmpath, p, aside[p]) /\ rmback' = Put(rmback, p, back)
        \/ Go(p, back) /\ UNCHANGED <<rmpath, rmback>> /\ ~Exists(aside[p])
    BY <2>1, <2>3, <1>r
  <2>5. back = "compile" => miss[p] = "compile" /\ pc[p] # "discardRename"
    BY <2>1
  <2>. QED
    BY <2>2, <2>3, <2>4, <2>5, <1>t, LeftInv DEF LeftInv, Owns, StagedLater,
        Debrising, Setting, Renaming, Exists
<1>. QED
  BY <1>1, <1>2, <1>3, <1>4, <1>5, <1>6, <1>7, <1>8, <1>9, <1>10, <1>11, <1>12,
      <1>13, <1>14, <1>15, <1>16, <1>17, <1>18, <1>19, <1>20, <1>21, <1>22, <1>23,
      <1>24, <1>25, <1>26, <1>27, <1>28 DEF Next, Step

\* Without kills, no private directory is left when no process runs.
THEOREM NothingLeft ==
  ASSUME "kill" \notin Faults, "stall" \notin Faults
  PROVE  Spec => []NoStagingLeftBehind
<1>1. Init => LeftInv
  <2>. SUFFICES ASSUME Init PROVE LeftInv
    OBVIOUS
  <2>1. \A d \in Dirs : path[d] \notin Dirs
    BY InitInv, DiskCacheAssumption DEF Init
  <2>. QED
    BY <2>1 DEF Init, LeftInv, StagedLater
<1>2. IInv /\ LeftInv /\ [Next]_vars => LeftInv'
  BY LeftStep DEF IInv
<1>3. LeftInv => NoStagingLeftBehind
  BY DEF LeftInv, NoStagingLeftBehind, AtRest, Owns, Setting, Renaming
<1>. QED
  BY Invariance, <1>1, <1>2, <1>3, PTL DEF Spec

-------------------------------------------------------------------------------
(* Without debris: an entry stays as it is until it is trimmed. *)

Finished == {"idle", "cleanup", "trim", "trimming", "discard", "discardRename",
             "discardRm", "rm"}
Kept(p) ==
    /\ pc[p] \notin Debrising \cup {"mismatch"} /\ ~Missed(p)
    /\ pc[p] \in {"present", "safe", "read"} => Exists(key[p])
    /\ pc[p] = "entry" /\ miss[p] = "cleanup" => Exists(key[p])
    /\ pc[p] = "read" /\ i[p] > 1 =>
         \A d \in Dirs : path[d] = key[p] => read[p] = {content[d]}
    /\ pc[p] \in {"present", "safe"} \/ (pc[p] = "read" /\ i[p] = 1) => read[p] = {}
    /\ pc[p] = "rm" => rmback[p] \in {"idle", "trimming", "cleanup"}
KeptInv == debris = {} /\ \A p \in Procs : key[p] \notin evicted => Kept(p)

\* A process that has finished holds the entry of its key; before that it holds
\* what it compiled, or nothing.
Held(p) ==
    artifact[p] # None =>
        /\ key[p] \in Keys /\ pc[p] # "compile"
        /\ pc[p] \in {"entry", "present", "safe", "read"} => miss[p] = "cleanup"
        /\ pc[p] \in {"stage", "write", "publish"} => artifact[p] = p
        /\ pc[p] \in Finished =>
             \E d \in Dirs : path[d] = key[p] /\ content[d] = artifact[p]
HeldInv == \A p \in Procs \ ReadOnly : key[p] \notin evicted => Held(p)

\* An entry stays as it is in a step that does not evict it.
LEMMA EntryStays ==
  ASSUME TypeInv, StepInv, FreshInv, StageInv, RmInv, EntryWhole,
         KeptInv, NEW e \in Dirs,
         path[e] \in Keys, path[e] \notin evicted', [Next]_vars
  PROVE  path'[e] = path[e] /\ content'[e] = content[e]
<1>. USE DiskCacheAssumption
<1>t. /\ pc \in [Procs -> Labels] /\ key \in [Procs -> Keys \cup {None}]
      /\ staging \in [Procs -> Dirs \cup {None}] /\ aside \in [Procs -> Dirs \cup {None}]
      /\ rmpath \in [Procs -> Dirs \cup {None}] /\ rmdir \in [Procs -> Dirs \cup {None}]
      /\ \A p \in Procs : /\ miss[p] \in {"compile", "cleanup"}
                          /\ rmback[p] \in {"idle", "trimming", "compile", "cleanup"}
  BY Types
<1>f. /\ path \in [Dirs -> Keys \cup Dirs \cup {None}]
      /\ \A c, d \in Dirs : path[c] = path[d] /\ path[c] # None => c = d
      /\ files \in [Dirs -> SUBSET All] /\ content \in [Dirs -> Procs \cup {None}]
  BY DEF TypeInv, FsType
<1>0. path[e] \in Keys /\ path[e] \notin evicted' /\ files[e] = All /\ All # {}
  BY DEF EntryWhole, KeptInv, All
<1>1. ASSUME NEW p \in Procs, LookEntry(p)
     PROVE  path'[e] = path[e] /\ content'[e] = content[e]
  BY <1>1, <1>0, <1>t, <1>f DEF LookEntry, Miss, StepInv, Staging
<1>2. ASSUME NEW p \in Procs, ReadFails(p)
     PROVE  path'[e] = path[e] /\ content'[e] = content[e]
  BY <1>2, <1>0, <1>t, <1>f DEF ReadFails, Miss, StepInv, Staging
<1>3. ASSUME NEW p \in Procs, LookFile(p)
     PROVE  path'[e] = path[e] /\ content'[e] = content[e]
  BY <1>3, <1>0, <1>t, <1>f DEF LookFile, NextFile, Holds, StepInv, Staging
<1>4. ASSUME NEW p \in Procs, LookSafe(p)
     PROVE  path'[e] = path[e] /\ content'[e] = content[e]
  BY <1>4, <1>0, <1>t, <1>f DEF LookSafe, Miss, Holds, Writable, StepInv, Staging
<1>5. ASSUME NEW p \in Procs, ReadFile(p)
     PROVE  path'[e] = path[e] /\ content'[e] = content[e]
  BY <1>5, <1>0, <1>t, <1>f DEF ReadFile, Miss, NextFile, Holds, StepInv, Staging
<1>6. ASSUME NEW p \in Procs, DebrisRename(p)
     PROVE  path'[e] = path[e] /\ content'[e] = content[e]
  BY <1>6, <1>0, <1>t, <1>f, KeptInv, StepInv DEF DebrisRename, Rename, StepInv,
      Staging, Debrising, KeptInv, Kept
<1>7. ASSUME NEW p \in Procs, DebrisJudge(p)
     PROVE  path'[e] = path[e] /\ content'[e] = content[e]
  BY <1>7, <1>0, <1>t, <1>f DEF DebrisJudge, StepInv, Staging
<1>8. ASSUME NEW p \in Procs, DebrisBack(p)
     PROVE  path'[e] = path[e] /\ content'[e] = content[e]
  <2>1. aside[p] \in Dirs /\ key[p] \in Keys
    BY <1>8, StepInv DEF DebrisBack, StepInv, Staging, Setting
  <2>2. path[e] = key[p] => ~CanRename(key[p])
    BY <1>0, AtPath, DiskCacheAssumption DEF CanRename, Exists
  <2>3. (Rename(aside[p], key[p]) /\ CanRename(key[p])) \/ UNCHANGED path
    BY <1>8 DEF DebrisBack
  <2>4. UNCHANGED content
    BY <1>8 DEF DebrisBack
  <2>. QED
    BY <1>0, <2>1, <2>2, <2>3, <2>4, <1>f, DiskCacheAssumption DEF Rename
<1>9. ASSUME NEW p \in Procs, Compile(p)
     PROVE  path'[e] = path[e] /\ content'[e] = content[e]
  BY <1>9, <1>0, <1>t, <1>f DEF Compile, Content, Writable, StepInv, Staging
<1>10. ASSUME NEW p \in Procs, StageWrite(p)
     PROVE  path'[e] = path[e] /\ content'[e] = content[e]
  BY <1>10, <1>0, <1>t, <1>f, AtPath, StepInv DEF StageWrite, Content, NextFile,
      LastFile, StepInv, Staging
<1>11. ASSUME NEW p \in Procs, Publish(p)
     PROVE  path'[e] = path[e] /\ content'[e] = content[e]
  <2>1. staging[p] \in Dirs /\ key[p] \in Keys
    BY <1>11, StepInv DEF Publish, StepInv, Staging
  <2>2. path[e] = key[p] => ~CanRename(key[p])
    BY <1>0, AtPath, DiskCacheAssumption DEF CanRename, Exists
  <2>3. (Rename(staging[p], key[p]) /\ CanRename(key[p])) \/ UNCHANGED path
    BY <1>11 DEF Publish
  <2>4. UNCHANGED content
    BY <1>11 DEF Publish
  <2>. QED
    BY <1>0, <2>1, <2>2, <2>3, <2>4, <1>f, DiskCacheAssumption DEF Rename
<1>12. ASSUME NEW p \in Procs, Cleanup(p)
     PROVE  path'[e] = path[e] /\ content'[e] = content[e]
  BY <1>12, <1>0, <1>t, <1>f DEF Cleanup, StepInv, Staging
<1>13. ASSUME NEW p \in Procs, GiveUp(p)
     PROVE  path'[e] = path[e] /\ content'[e] = content[e]
  BY <1>13, <1>0, <1>t, <1>f DEF GiveUp, Unexpected, StepInv, Staging
<1>14. ASSUME NEW p \in Procs, TrimList(p)
     PROVE  path'[e] = path[e] /\ content'[e] = content[e]
  BY <1>14, <1>0, <1>t, <1>f DEF TrimList, StepInv, Staging
<1>15. ASSUME NEW p \in Procs, TrimNext(p)
     PROVE  path'[e] = path[e] /\ content'[e] = content[e]
  BY <1>15, <1>0, <1>t, <1>f DEF TrimNext, StepInv, Staging
<1>16. ASSUME NEW p \in Procs, DiscardRename(p)
     PROVE  path'[e] = path[e] /\ content'[e] = content[e]
  BY <1>16, <1>0, <1>t, <1>f DEF DiscardRename, Rename, StepInv, Staging
<1>17. ASSUME NEW p \in Procs, DiscardRm(p)
     PROVE  path'[e] = path[e] /\ content'[e] = content[e]
  BY <1>17, <1>0, <1>t, <1>f DEF DiscardRm, StepInv, Staging
<1>18. ASSUME NEW p \in Procs, RmDir(p)
     PROVE  path'[e] = path[e] /\ content'[e] = content[e]
  BY <1>18, <1>0, <1>t, <1>f DEF RmDir, StepInv, Staging
<1>19. ASSUME NEW p \in Procs, NEW f \in All, RmFile(p, f)
     PROVE  path'[e] = path[e] /\ content'[e] = content[e]
  BY <1>19, <1>0, <1>t, <1>f DEF RmFile, StepInv, Staging
<1>20. ASSUME NEW p \in Procs, NEW d \in Dirs, DebrisMkdir(p, d)
     PROVE  path'[e] = path[e] /\ content'[e] = content[e]
  BY <1>20, <1>0, <1>t, <1>f, MkdtempEffect DEF DebrisMkdir, StepInv, Staging
<1>21. ASSUME NEW p \in Procs, NEW d \in Dirs, StageMkdir(p, d)
     PROVE  path'[e] = path[e] /\ content'[e] = content[e]
  BY <1>21, <1>0, <1>t, <1>f, MkdtempEffect DEF StageMkdir, StepInv, Staging
<1>22. ASSUME NEW p \in Procs, NEW d \in Dirs, DiscardMkdir(p, d)
     PROVE  path'[e] = path[e] /\ content'[e] = content[e]
  BY <1>22, <1>0, <1>t, <1>f, MkdtempEffect DEF DiscardMkdir, StepInv, Staging
<1>23. ASSUME NEW p \in Procs, Kill(p)
     PROVE  path'[e] = path[e] /\ content'[e] = content[e]
  BY <1>23, <1>0, <1>t, <1>f DEF Kill, StepInv, Staging
<1>24. ASSUME NEW p \in Procs, NEW k \in Keys, Lookup(p, k)
     PROVE  path'[e] = path[e] /\ content'[e] = content[e]
  BY <1>24, <1>0, <1>t, <1>f DEF Lookup, StepInv, Staging
<1>25. ASSUME NEW d \in Dirs, Hour(d)
     PROVE  path'[e] = path[e] /\ content'[e] = content[e]
  BY <1>25, <1>0, <1>t, <1>f DEF Hour, AtRest, StepInv, Staging
<1>26. CASE UNCHANGED vars
  BY <1>26, <1>0, <1>t, <1>f DEF vars, StepInv, Staging
<1>27. ASSUME NEW p \in Procs, ReadRaises(p)
     PROVE  path'[e] = path[e] /\ content'[e] = content[e]
  BY <1>27, <1>0, <1>t, <1>f DEF ReadRaises, Miss, StepInv, Staging
<1>28. ASSUME NEW p \in Procs, RenameRefused(p)
     PROVE  path'[e] = path[e] /\ content'[e] = content[e]
  BY <1>28, RefusedEffect
<1>. QED
  BY <1>1, <1>2, <1>3, <1>4, <1>5, <1>6, <1>7, <1>8, <1>9, <1>10, <1>11, <1>12,
      <1>13, <1>14, <1>15, <1>16, <1>17, <1>18, <1>19, <1>20, <1>21, <1>22, <1>23,
      <1>24, <1>25, <1>26, <1>27, <1>28 DEF Next, Step

\* A process that makes no step keeps what it has found.
LEMMA KeptFrame ==
  ASSUME TypeInv, StepInv, FreshInv, StageInv,
         RmInv, EntryWhole, KeptInv, [Next]_vars, NEW q \in Procs,
         pc'[q] = pc[q], key'[q] = key[q], i'[q] = i[q], seen'[q] = seen[q],
         read'[q] = read[q], miss'[q] = miss[q], rmback'[q] = rmback[q],
         key[q] \notin evicted', evicted \subseteq evicted', Kept(q)
  PROVE  Kept(q)'
<1>1. pc[q] # "idle" => key[q] \in Keys
  BY DEF StepInv
<1>2. key[q] \in Keys /\ Exists(key[q]) =>
        /\ \E d \in Dirs : path'[d] = key'[q]
        /\ \A d \in Dirs : path'[d] = key[q] => path[d] = key[q] /\ content'[d] = content[d]
  <2>1. ASSUME key[q] \in Keys, Exists(key[q])
        PROVE  /\ \E d \in Dirs : path'[d] = key'[q]
               /\ \A d \in Dirs : path'[d] = key[q] => path[d] = key[q] /\ content'[d] = content[d]
    <3>1. PICK e \in Dirs : path[e] = key[q]
      BY <2>1 DEF Exists
    <3>2. path'[e] = path[e] /\ content'[e] = content[e]
      BY <2>1, <3>1, EntryStays
    <3>3. \A d \in Dirs : path'[d] = path'[e] => d = e
      <4>1. FsType'
        BY FsTypeStep
      <4>2. key[q] # None
        BY <2>1, DiskCacheAssumption
      <4>. QED
        BY <3>1, <3>2, <4>1, <4>2 DEF FsType
    <3>. QED
      BY <3>1, <3>2, <3>3 DEF Exists
  <2>. QED
    BY <2>1
<1>3. ~Missed(q)'
  BY DEF Kept, Missed
<1>4. pc[q] \in {"present", "safe", "read"} \/ (pc[q] = "entry" /\ miss[q] = "cleanup") =>
        key[q] \in Keys /\ Exists(key[q])
  BY <1>1 DEF Kept
<1>5. pc[q] \in {"present", "safe", "read"} \/ (pc[q] = "entry" /\ miss[q] = "cleanup") =>
        \E d \in Dirs : path'[d] = key'[q]
  BY <1>2, <1>4
<1>6. pc[q] = "read" /\ i[q] > 1 => \A d \in Dirs : path'[d] = key[q] => read[q] = {content'[d]}
  <2>1. ASSUME pc[q] = "read", i[q] > 1, NEW d \in Dirs, path'[d] = key[q]
        PROVE  read[q] = {content'[d]}
    <3>1. path[d] = key[q] /\ content'[d] = content[d]
      BY <1>2, <1>4, <2>1
    <3>. QED
      BY <2>1, <3>1 DEF Kept
  <2>. QED
    BY <2>1
<1>7. /\ pc'[q] \notin Debrising \cup {"mismatch"}
      /\ pc'[q] \in {"present", "safe"} \/ (pc'[q] = "read" /\ i'[q] = 1) => read'[q] = {}
      /\ pc'[q] = "rm" => rmback'[q] \in {"idle", "trimming", "cleanup"}
  BY DEF Kept
<1>. QED
  BY <1>3, <1>5, <1>6, <1>7 DEF Kept, Exists

\* A lookup whose entry is not evicted finds all of it, from one compile.
LEMMA KeptStep ==
  ASSUME TypeInv, StepInv, FreshInv, StageInv, RmInv, EntryWhole,
         KeptInv, [Next]_vars
  PROVE  KeptInv'
<1>. USE DiskCacheAssumption
<1>t. /\ pc \in [Procs -> Labels] /\ key \in [Procs -> Keys \cup {None}]
      /\ staging \in [Procs -> Dirs \cup {None}] /\ aside \in [Procs -> Dirs \cup {None}]
      /\ rmpath \in [Procs -> Dirs \cup {None}] /\ rmdir \in [Procs -> Dirs \cup {None}]
      /\ rmback \in [Procs -> Backs] /\ miss \in [Procs -> {"compile", "cleanup"}]
      /\ \A p \in Procs : /\ miss[p] \in {"compile", "cleanup"}
                          /\ rmback[p] \in {"idle", "trimming", "compile", "cleanup"}
  BY Types
<1>f. /\ path \in [Dirs -> Keys \cup Dirs \cup {None}]
      /\ \A c, d \in Dirs : path[c] = path[d] /\ path[c] # None => c = d
      /\ files \in [Dirs -> SUBSET All] /\ content \in [Dirs -> Procs \cup {None}]
  BY DEF TypeInv, FsType
<1>r. \A p \in Procs, n \in Dirs \cup {None} : \A back : Rmtree(p, n, back) =>
        \/ \E d \in Dirs : /\ path[d] = n /\ n \in Dirs
                          /\ rmpath' = Put(rmpath, p, n) /\ rmdir' = Put(rmdir, p, d)
                          /\ rmback' = Put(rmback, p, back) /\ Go(p, "rm")
        \/ (n = None \/ ~Exists(n)) /\ Go(p, back) /\ UNCHANGED rmVars
  BY RmtreeEffect
<1>i. /\ i \in [Procs -> 1..3] /\ seen \in [Procs -> SUBSET All]
      /\ DOMAIN read = Procs
  BY DEF TypeInv, ProcessType
<1>1. ASSUME NEW p \in Procs, LookEntry(p)
     PROVE  KeptInv'
  <2>1. /\ \A q \in Procs \ {p} : /\ pc'[q] = pc[q] /\ key'[q] = key[q] /\ i'[q] = i[q]
                                  /\ seen'[q] = seen[q] /\ read'[q] = read[q]
                                  /\ miss'[q] = miss[q] /\ rmback'[q] = rmback[q]
        /\ debris' = debris /\ evicted' = evicted
    BY <1>1, <1>t, <1>i DEF LookEntry, Miss, AfterConflict
  <2>2. ASSUME key'[p] \notin evicted' PROVE Kept(p)'
    <3>1. /\ UNCHANGED <<path, content, key, miss, evicted>> /\ pc[p] = "entry"
          /\ i'[p] = 1 /\ read'[p] = {} /\ Go(p, IF Exists(key[p]) THEN "present" ELSE miss[p])
      BY <1>1, <1>i DEF LookEntry, Miss
    <3>2. Kept(p)
      BY <2>2, <3>1, KeptInv DEF KeptInv
    <3>3. ~Missed(p)'
      BY <3>1, <1>t DEF Missed
    <3>. QED
      BY <3>1, <3>2, <3>3, <1>t DEF Kept, Exists, Debrising
  <2>. QED
    BY <2>1, <2>2, KeptFrame, KeptInv DEF KeptInv
<1>2. ASSUME NEW p \in Procs, ReadFails(p)
     PROVE  KeptInv'
  BY <1>2, StepInv, KeptInv, <1>t, <1>f, <1>r, <1>i DEF ReadFails, Miss, KeptInv,
      Kept, Missed, Exists, StepInv, Staging, Debrising
<1>3. ASSUME NEW p \in Procs, LookFile(p)
     PROVE  KeptInv'
  <2>1. /\ \A q \in Procs \ {p} : /\ pc'[q] = pc[q] /\ key'[q] = key[q] /\ i'[q] = i[q]
                                  /\ seen'[q] = seen[q] /\ read'[q] = read[q]
                                  /\ miss'[q] = miss[q] /\ rmback'[q] = rmback[q]
        /\ debris' = debris /\ evicted' = evicted
    BY <1>3, <1>t, <1>i DEF LookFile, Miss, AfterConflict
  <2>2. ASSUME key'[p] \notin evicted' PROVE Kept(p)'
    <3>1. /\ UNCHANGED <<path, content, key, miss, evicted, read, files>> /\ pc[p] = "present"
          /\ i' = Put(i, p, NextFile(p)) /\ Go(p, IF i[p] = 3 THEN "safe" ELSE "present")
          /\ seen' = [seen EXCEPT ![p] = seen[p] \cup {x \in {ReadOrder[i[p]]} : Holds(key[p], x)}]
      BY <1>3 DEF LookFile
    <3>2. Kept(p) /\ key[p] \in Keys
      BY <2>2, <3>1, KeptInv, StepInv DEF KeptInv, StepInv
    <3>3. ReadOrder[i[p]] \in All /\ i[p] \in 1..3
      BY FileNamed
    <3>4. Holds(key[p], ReadOrder[i[p]])
      BY <3>1, <3>2, <3>3, AtPath, EntryWhole, KeptInv DEF Kept, Holds,
          EntryWhole, KeptInv
    <3>5. seen'[p] = seen[p] \cup {ReadOrder[i[p]]} /\ seen[p] \subseteq All
      BY <3>1, <3>4, <1>i
    <3>6. \A j \in 1..(i[p] - 1) : ReadOrder[j] \in seen[p]
      BY <3>1, <3>2 DEF Kept, Missed
    <3>7. i'[p] = NextFile(p) /\ pc'[p] = IF i[p] = 3 THEN "safe" ELSE "present"
      BY <3>1, <1>i, <1>t DEF Put
    <3>8. ~Missed(p)'
      <4>1. CASE i[p] = 3
        <5>1. ReadOrder[1] \in seen[p] /\ ReadOrder[2] \in seen[p]
          BY <3>6, <4>1
        <5>. QED
          <6>1. seen'[p] = All
            BY <3>5, <4>1, <5>1, FileNames
          <6>2. pc'[p] = "safe"
            BY <3>7, <4>1
          <6>. QED
            BY <6>1, <6>2 DEF Missed
      <4>2. CASE i[p] # 3
        <5>1. i'[p] = i[p] + 1 /\ pc'[p] = "present"
          BY <3>7, <4>2 DEF NextFile
        <5>2. \A j \in 1..(i[p] + 1 - 1) : j = i[p] \/ j \in 1..(i[p] - 1)
          BY <3>3
        <5>3. \A j \in 1..(i[p] + 1 - 1) : ReadOrder[j] \in seen'[p]
          BY <3>5, <3>6, <5>2
        <5>4. \A j \in 1..(i'[p] - 1) : ReadOrder[j] \in seen'[p]
          BY <3>3, <5>1, <5>3
        <5>. QED
          BY <5>1, <5>4, Zenon DEF Missed
      <4>. QED
        BY <4>1, <4>2
    <3>. QED
      <4>1. pc'[p] = "present" \/ (pc'[p] = "safe" /\ i'[p] = 1)
        BY <3>7 DEF NextFile
      <4>. QED
        BY <3>1, <3>2, <4>1, <3>8 DEF Kept, Exists, Debrising
  <2>. QED
    BY <2>1, <2>2, KeptFrame, KeptInv DEF KeptInv
<1>4. ASSUME NEW p \in Procs, LookSafe(p)
     PROVE  KeptInv'
  <2>1. /\ \A q \in Procs \ {p} : /\ pc'[q] = pc[q] /\ key'[q] = key[q] /\ i'[q] = i[q]
                                  /\ seen'[q] = seen[q] /\ read'[q] = read[q]
                                  /\ miss'[q] = miss[q] /\ rmback'[q] = rmback[q]
        /\ debris' = debris /\ evicted' = evicted
    BY <1>4, <1>t, <1>i DEF LookSafe, Miss, AfterConflict
  <2>2. ASSUME key'[p] \notin evicted' PROVE Kept(p)'
    <3>1. /\ UNCHANGED <<path, content, key, miss, evicted, read, files, seen>>
          /\ pc[p] = "safe" /\ i' = [i EXCEPT ![p] = NextFile(p)]
      BY <1>4, SafeEffect
    <3>2. Kept(p) /\ key[p] \in Keys
      BY <2>2, <3>1, KeptInv, StepInv DEF KeptInv, StepInv
    <3>3. seen[p] = All
      BY <3>1, <3>2 DEF Kept, Missed
    <3>4. \A f \in seen[p] : Holds(key[p], f)
      BY <3>1, <3>2, <3>3, AtPath, EntryWhole, KeptInv DEF Kept, Holds,
          EntryWhole, KeptInv
    <3>5. pc'[p] = "safe" \/ (pc'[p] = "read" /\ i'[p] = 1)
      <4>1. \/ Go(p, "safe")
            \/ NextFile(p) = 1 /\ Go(p, "read")
        BY <1>4, <3>3, <3>4, SafeEffect
      <4>. QED
        BY <4>1, <3>1, <1>t, <1>i
    <3>6. read[p] = {}
      BY <3>1, <3>2 DEF Kept
    <3>. QED
      BY <3>1, <3>2, <3>3, <3>5, <3>6 DEF Kept, Exists, Debrising, Missed
  <2>. QED
    BY <2>1, <2>2, KeptFrame, KeptInv DEF KeptInv
<1>5. ASSUME NEW p \in Procs, ReadFile(p)
     PROVE  KeptInv'
  <2>1. /\ \A q \in Procs \ {p} : /\ pc'[q] = pc[q] /\ key'[q] = key[q] /\ i'[q] = i[q]
                                  /\ seen'[q] = seen[q] /\ read'[q] = read[q]
                                  /\ miss'[q] = miss[q] /\ rmback'[q] = rmback[q]
        /\ debris' = debris /\ evicted' = evicted
    BY <1>5, <1>t, <1>i DEF ReadFile, Miss, AfterConflict
  <2>2. ASSUME key'[p] \notin evicted' PROVE Kept(p)'
    <3>. DEFINE c == content[At(key[p])]
    <3>1. /\ UNCHANGED <<path, content, key, miss, evicted, files, seen>> /\ pc[p] = "read"
      BY <1>5 DEF ReadFile
    <3>2. Kept(p) /\ key[p] \in Keys
      BY <2>2, <3>1, KeptInv, StepInv DEF KeptInv, StepInv
    <3>3. ReadOrder[i[p]] \in All /\ i[p] \in 1..3
      BY FileNamed
    <3>4. /\ Holds(key[p], ReadOrder[i[p]]) /\ Exists(key[p])
          /\ At(key[p]) \in Dirs /\ path[At(key[p])] = key[p]
          /\ \A d \in Dirs : path[d] = key[p] => d = At(key[p])
      BY <3>1, <3>2, <3>3, AtPath, EntryWhole, KeptInv, DiskCacheAssumption
          DEF Kept, Holds, EntryWhole, KeptInv
    <3>5. read[p] \cup {c} = {c}
      BY <3>1, <3>2, <3>3, <3>4 DEF Kept
    <3>6. Cardinality({c}) = 1
      BY FS_Singleton
    <3>7. read'[p] = {c} /\ i'[p] = NextFile(p) /\ (i[p] < 3 => pc'[p] = "read")
          /\ (~(i[p] < 3) => pc'[p] = "cleanup")
      <4>1. /\ read' = Put(read, p, read[p] \cup {c}) /\ i' = Put(i, p, NextFile(p))
            /\ IF i[p] < 3 THEN Go(p, "read")
               ELSE IF Cardinality(read[p] \cup {c}) > 1 THEN Go(p, "mismatch")
               ELSE Go(p, "cleanup")
        BY <1>5, <3>4 DEF ReadFile
      <4>2. ~(Cardinality(read[p] \cup {c}) > 1)
        BY <3>5, <3>6
      <4>. HIDE DEF c
      <4>. QED
        BY <3>5, <4>1, <4>2, <1>t, <1>i DEF Go
    <3>8. ~Missed(p)'
      BY <3>7 DEF Missed
    <3>9. i'[p] # 1 \/ pc'[p] = "cleanup"
      BY <3>3, <3>7 DEF NextFile
    <3>. HIDE DEF c
    <3>. QED
      <4>1. pc'[p] \in {"read", "cleanup"}
        BY <3>3, <3>7
      <4>2. \A d \in Dirs : path'[d] = key'[p] => read'[p] = {content'[d]}
        BY <3>1, <3>4, <3>7 DEF c
      <4>3. \E d \in Dirs : path'[d] = key'[p]
        BY <3>1, <3>4
      <4>. QED
        BY <3>8, <3>9, <4>1, <4>2, <4>3 DEF Kept, Exists, Debrising
  <2>. QED
    BY <2>1, <2>2, KeptFrame, KeptInv DEF KeptInv
<1>6. ASSUME NEW p \in Procs, DebrisRename(p)
     PROVE  KeptInv'
  <2>1. /\ \A q \in Procs \ {p} : /\ pc'[q] = pc[q] /\ key'[q] = key[q] /\ i'[q] = i[q]
                                  /\ seen'[q] = seen[q] /\ read'[q] = read[q]
                                  /\ miss'[q] = miss[q] /\ rmback'[q] = rmback[q]
        /\ debris' = debris /\ evicted' = evicted
    BY <1>6, <1>t, <1>i, <1>r DEF DebrisRename, Miss, AfterConflict
  <2>2. ASSUME key'[p] \notin evicted' PROVE Kept(p)'
    BY <1>6, <2>2, <1>t, <1>i, KeptInv DEF KeptInv, Kept, DebrisRename, Missed,
        Debrising, Exists, AfterConflict
  <2>. QED
    BY <2>1, <2>2, KeptFrame, KeptInv DEF KeptInv
<1>7. ASSUME NEW p \in Procs, DebrisJudge(p)
     PROVE  KeptInv'
  <2>1. /\ \A q \in Procs \ {p} : /\ pc'[q] = pc[q] /\ key'[q] = key[q] /\ i'[q] = i[q]
                                  /\ seen'[q] = seen[q] /\ read'[q] = read[q]
                                  /\ miss'[q] = miss[q] /\ rmback'[q] = rmback[q]
        /\ debris' = debris /\ evicted' = evicted /\ key' = key
    BY <1>7, <1>t DEF DebrisJudge, Rmtree
  <2>2. key[p] \in evicted
    BY <1>7, KeptInv DEF DebrisJudge, KeptInv, Kept, Debrising
  <2>. QED
    BY <2>1, <2>2, KeptFrame, KeptInv DEF KeptInv
<1>8. ASSUME NEW p \in Procs, DebrisBack(p)
     PROVE  KeptInv'
  BY <1>8, StepInv, KeptInv, <1>t, <1>f, <1>r, <1>i DEF DebrisBack, Rename, Miss,
      CanRename, KeptInv, Kept, Missed, Exists, StepInv, Staging, Debrising
<1>9. ASSUME NEW p \in Procs, Compile(p)
     PROVE  KeptInv'
  BY <1>9, StepInv, KeptInv, <1>t, <1>f, <1>r, <1>i DEF Compile, Content, Writable,
      KeptInv, Kept, Missed, Exists, StepInv, Staging, Debrising
<1>10. ASSUME NEW p \in Procs, StageWrite(p)
     PROVE  KeptInv'
  <2>1. /\ \A q \in Procs \ {p} : /\ pc'[q] = pc[q] /\ key'[q] = key[q] /\ i'[q] = i[q]
                                  /\ seen'[q] = seen[q] /\ read'[q] = read[q]
                                  /\ miss'[q] = miss[q] /\ rmback'[q] = rmback[q]
        /\ debris' = debris /\ evicted' = evicted
    BY <1>10, <1>t, <1>i DEF StageWrite, Miss, AfterConflict
  <2>2. ASSUME key'[p] \notin evicted' PROVE Kept(p)'
    BY <1>10, <2>2, <1>t, <1>i, KeptInv, StepInv DEF KeptInv, Kept, StageWrite,
        StepInv, LastFile, Missed, Debrising, Exists, AfterConflict
  <2>. QED
    BY <2>1, <2>2, KeptFrame, KeptInv DEF KeptInv
<1>11. ASSUME NEW p \in Procs, Publish(p)
     PROVE  KeptInv'
  <2>1. /\ \A q \in Procs \ {p} : /\ pc'[q] = pc[q] /\ key'[q] = key[q] /\ i'[q] = i[q]
                                  /\ seen'[q] = seen[q] /\ read'[q] = read[q]
                                  /\ miss'[q] = miss[q] /\ rmback'[q] = rmback[q]
        /\ debris' = debris /\ evicted' = evicted
    BY <1>11, <1>t, <1>i DEF Publish, Miss, AfterConflict
  <2>2. ASSUME key'[p] \notin evicted' PROVE Kept(p)'
    BY <1>11, <2>2, <1>t, <1>i, KeptInv, StepInv, AtPath DEF KeptInv, Kept, Publish,
        StepInv, CanRename, Missed, Debrising, Exists, AfterConflict
  <2>. QED
    BY <2>1, <2>2, KeptFrame, KeptInv DEF KeptInv
<1>12. ASSUME NEW p \in Procs, Cleanup(p)
     PROVE  KeptInv'
  <2>1. /\ UNCHANGED <<path, content, debris, evicted, key, i, seen, read, miss>>
        /\ \/ Go(p, "rm") /\ rmback' = Put(rmback, p, "idle")
           \/ Go(p, "idle") /\ UNCHANGED rmback
    BY <1>12, <1>t, <1>r DEF Cleanup, Finally
  <2>. QED
    BY <2>1, <1>t, KeptInv DEF KeptInv, Kept, Missed, Debrising, Exists
<1>13. ASSUME NEW p \in Procs, GiveUp(p)
     PROVE  KeptInv'
  BY <1>13, StepInv, KeptInv, <1>t, <1>f, <1>r, <1>i DEF GiveUp, Unexpected,
      KeptInv, Kept, Missed, Exists, StepInv, Staging, Debrising
<1>14. ASSUME NEW p \in Procs, TrimList(p)
     PROVE  KeptInv'
  BY <1>14, StepInv, KeptInv, <1>t, <1>f, <1>r, <1>i DEF TrimList, KeptInv, Kept,
      Missed, Exists, StepInv, Staging, Debrising
<1>15. ASSUME NEW p \in Procs, TrimNext(p)
     PROVE  KeptInv'
  <2>1. \A n \in stale[p] : n \in Dirs \cup {None}
    BY Types
  <2>2. /\ pc[p] = "trimming" /\ UNCHANGED <<path, files, content, old, debris, evicted, i, seen, read, key,
                                         miss, staging, aside, victims, off, artifact>>
        /\ \/ \E n \in stale[p] : Exists(n) /\ At(n) \in old /\ Rmtree(p, n, "trimming")
           \/ UNCHANGED rmVars /\ Go(p, IF victims[p] = <<>> THEN "cleanup" ELSE "discard")
    BY <1>15, TrimNextCases, Zenon
  <2>3. \/ Go(p, "rm") /\ rmback' = Put(rmback, p, "trimming")
        \/ (Go(p, "trimming") \/ Go(p, "cleanup") \/ Go(p, "discard")) /\ UNCHANGED rmback
    BY <1>r, <2>1, <2>2 DEF rmVars
  <2>. QED
    BY <2>2, <2>3, <1>t, KeptInv DEF KeptInv, Kept, Missed, Debrising, Exists
<1>16. ASSUME NEW p \in Procs, DiscardRename(p)
     PROVE  KeptInv'
  BY <1>16, StepInv, KeptInv, <1>t, <1>f, <1>r, <1>i DEF DiscardRename, Rename,
      KeptInv, Kept, Missed, Exists, StepInv, Staging, Debrising
<1>17. ASSUME NEW p \in Procs, DiscardRm(p)
     PROVE  KeptInv'
  <2>1. /\ \A q \in Procs \ {p} : /\ pc'[q] = pc[q] /\ key'[q] = key[q] /\ i'[q] = i[q]
                                  /\ seen'[q] = seen[q] /\ read'[q] = read[q]
                                  /\ miss'[q] = miss[q] /\ rmback'[q] = rmback[q]
        /\ debris' = debris /\ evicted' = evicted /\ key' = key
    BY <1>17, <1>t DEF DiscardRm, Rmtree
  <2>2. \/ Go(p, "rm") /\ rmback' = Put(rmback, p, "trimming")
        \/ Go(p, "trimming")
    BY <1>17 DEF DiscardRm, Rmtree
  <2>3. Kept(p)'
    BY <2>2, <1>t DEF Kept, Debrising, Missed
  <2>. QED
    BY <2>1, <2>3, KeptFrame, KeptInv DEF KeptInv
<1>18. ASSUME NEW p \in Procs, RmDir(p)
     PROVE  KeptInv'
  BY <1>18, StepInv, KeptInv, <1>t, <1>f, <1>r, <1>i DEF RmDir, KeptInv, Kept,
      Missed, Exists, StepInv, Staging, Debrising
<1>19. ASSUME NEW p \in Procs, NEW f \in All, RmFile(p, f)
     PROVE  KeptInv'
  BY <1>19, StepInv, KeptInv, <1>t, <1>f, <1>r, <1>i DEF RmFile, KeptInv, Kept,
      Missed, Exists, StepInv, Staging
<1>20. ASSUME NEW p \in Procs, NEW d \in Dirs, DebrisMkdir(p, d)
     PROVE  KeptInv'
  BY <1>20, StepInv, KeptInv, <1>t, <1>f, <1>r, <1>i, MkdtempEffect DEF DebrisMkdir,
      KeptInv, Kept, Missed, Exists, StepInv, Staging, Debrising
<1>21. ASSUME NEW p \in Procs, NEW d \in Dirs, StageMkdir(p, d)
     PROVE  KeptInv'
  BY <1>21, StepInv, KeptInv, <1>t, <1>f, <1>r, <1>i, MkdtempEffect DEF StageMkdir,
      KeptInv, Kept, Missed, Exists, StepInv, Staging, Debrising
<1>22. ASSUME NEW p \in Procs, NEW d \in Dirs, DiscardMkdir(p, d)
     PROVE  KeptInv'
  BY <1>22, StepInv, KeptInv, <1>t, <1>f, <1>r, <1>i, MkdtempEffect DEF
      DiscardMkdir, KeptInv, Kept, Missed, Exists, StepInv, Staging, Debrising
<1>23. ASSUME NEW p \in Procs, Kill(p)
     PROVE  KeptInv'
  BY <1>23, StepInv, KeptInv, <1>t, <1>f, <1>r, <1>i DEF Kill, KeptInv, Kept,
      Missed, Exists, StepInv, Staging, Debrising
<1>24. ASSUME NEW p \in Procs, NEW k \in Keys, Lookup(p, k)
     PROVE  KeptInv'
  BY <1>24, StepInv, KeptInv, <1>t, <1>f, <1>r, <1>i DEF Lookup, KeptInv, Kept,
      Missed, Exists, StepInv, Staging, Debrising
<1>25. ASSUME NEW d \in Dirs, Hour(d)
     PROVE  KeptInv'
  BY <1>25, StepInv, KeptInv, <1>t, <1>f, <1>r, <1>i DEF Hour, AtRest, KeptInv,
      Kept, Missed, Exists, StepInv, Staging
<1>26. CASE UNCHANGED vars
  BY <1>26, StepInv, KeptInv, <1>t, <1>f, <1>r, <1>i DEF vars, KeptInv, Kept,
      Missed, Exists, StepInv, Staging
<1>27. ASSUME NEW p \in Procs, ReadRaises(p)
     PROVE  KeptInv'
  BY <1>27, StepInv, KeptInv, <1>t, <1>f, <1>r, <1>i DEF ReadRaises, Miss, KeptInv,
      Kept, Missed, Exists, StepInv, Staging, Debrising
<1>28. ASSUME NEW p \in Procs, RenameRefused(p)
     PROVE  KeptInv'
  <2>1. PICK back \in {"compile", "cleanup"} :
          /\ Rmtree(p, aside[p], back)
          /\ back = IF pc[p] = "discardRename" THEN "cleanup" ELSE miss[p]
    BY <1>28, RefusedEffect, Zenon
  <2>2. /\ pc[p] \in {"debrisRename", "debrisBack", "discardRename"}
        /\ UNCHANGED <<path, files, content, old, debris, taken, evicted, i, seen,
                       read, key, miss, staging, aside, victims, artifact>>
    BY <1>28, RefusedEffect
  <2>3. \/ Go(p, "rm") /\ rmback' = Put(rmback, p, back)
        \/ Go(p, back) /\ rmback' = rmback
    BY <2>1 DEF Rmtree
  <2>4. \A q \in Procs \ {p} : /\ pc'[q] = pc[q] /\ key'[q] = key[q] /\ i'[q] = i[q]
                                /\ seen'[q] = seen[q] /\ read'[q] = read[q]
                                /\ miss'[q] = miss[q] /\ rmback'[q] = rmback[q]
    BY <2>2, <2>3, <1>t
  <2>5. ASSUME key'[p] \notin evicted' PROVE Kept(p)'
    <3>1. pc[p] = "discardRename"
      BY <2>2, <2>5, KeptInv DEF KeptInv, Kept, Debrising
    <3>2. back = "cleanup"
      BY <2>1, <3>1
    <3>3. pc'[p] \in {"rm", "cleanup"} /\ (pc'[p] = "rm" => rmback'[p] = "cleanup")
      BY <2>3, <3>2, <1>t
    <3>. QED
      BY <3>3 DEF Kept, Debrising, Missed
  <2>. QED
    BY <2>2, <2>4, <2>5, KeptFrame, KeptInv DEF KeptInv
<1>. QED
  BY <1>1, <1>2, <1>3, <1>4, <1>5, <1>6, <1>7, <1>8, <1>9, <1>10, <1>11, <1>12,
      <1>13, <1>14, <1>15, <1>16, <1>17, <1>18, <1>19, <1>20, <1>21, <1>22, <1>23,
      <1>24, <1>25, <1>26, <1>27, <1>28 DEF Next, Step

\* Where there was no debris, no entry is damaged at first.
LEMMA KeptInit ==
  ASSUME DebrisKeys = {}, Init
  PROVE  KeptInv
<1>1. debris = {}
  BY DEF Init
<1>. QED
  BY <1>1 DEF Init, KeptInv, Kept, Missed, Debrising

\* Without debris, the files that a lookup reads come from two compiles only
\* when the key was evicted meanwhile, whatever is killed or fails.
THEOREM RaceIsNoTampering ==
  ASSUME DebrisKeys = {}, "stall" \notin Faults
  PROVE  Spec => []NoFalseMismatch
<1>1. Init => KeptInv
  BY KeptInit
<1>2. IInv /\ KeptInv /\ [Next]_vars => KeptInv'
  BY KeptStep DEF IInv
<1>3. KeptInv => NoFalseMismatch
  BY DEF KeptInv, Kept, NoFalseMismatch
<1>. QED
  BY Invariance, <1>1, <1>2, <1>3, PTL DEF Spec

-------------------------------------------------------------------------------
(* The artifact that a process holds. *)

\* The files of an entry that a lookup has found are there.
LEMMA KeptHolds ==
  ASSUME TypeInv, StepInv, EntryWhole, KeptInv, NEW p \in Procs, Kept(p),
         pc[p] \in {"present", "safe", "read"}
  PROVE  /\ \A f \in All : Holds(key[p], f)
         /\ At(key[p]) \in Dirs /\ path[At(key[p])] = key[p]
<1>1. Exists(key[p]) /\ key[p] \in Keys
  BY DEF Kept, StepInv
<1>2. At(key[p]) \in Dirs /\ path[At(key[p])] = key[p]
  BY <1>1, AtPath
<1>. QED
  BY <1>1, <1>2 DEF Holds, EntryWhole, KeptInv

\* An entry that a process holds stays until it is evicted.
LEMMA HeldEntry ==
  ASSUME TypeInv, StepInv, FreshInv, StageInv,
         RmInv, EntryWhole, KeptInv, [Next]_vars,
         NEW k \in Keys, k \notin evicted', NEW a,
         \E d \in Dirs : path[d] = k /\ content[d] = a
  PROVE  \E d \in Dirs : path'[d] = k /\ content'[d] = a
<1>1. PICK d \in Dirs : path[d] = k /\ content[d] = a
  OBVIOUS
<1>. QED
  BY <1>1, EntryStays

\* A step that is not its own takes nothing from a process that has its artifact.
LEMMA HeldFrame ==
  ASSUME TypeInv, StepInv, FreshInv, StageInv,
         RmInv, EntryWhole, KeptInv, [Next]_vars, NEW q \in Procs,
         key'[q] = key[q], artifact'[q] = artifact[q], miss'[q] = miss[q],
         \/ pc'[q] = pc[q]
         \/ pc[q] \in Finished /\ pc'[q] \in Finished,
         key[q] \notin evicted', Held(q)
  PROVE  Held(q)'
<1>1. artifact[q] # None /\ pc[q] \in Finished =>
        \E d \in Dirs : path'[d] = key[q] /\ content'[d] = artifact[q]
  BY HeldEntry DEF Held
<1>. QED
  BY <1>1 DEF Held, Finished

\* A process that comes to the end of a call holds the entry of its key.
LEMMA HeldStep ==
  ASSUME TypeInv, StepInv, FreshInv, StageInv, RmInv, EntryWhole,
         KeptInv, HeldInv, Faults \cap {"read", "write"} = {}, OffInv,
         [Next]_vars
  PROVE  HeldInv'
<1>. USE DiskCacheAssumption
<1>t. /\ pc \in [Procs -> Labels] /\ key \in [Procs -> Keys \cup {None}]
      /\ staging \in [Procs -> Dirs \cup {None}] /\ aside \in [Procs -> Dirs \cup {None}]
      /\ rmpath \in [Procs -> Dirs \cup {None}] /\ rmdir \in [Procs -> Dirs \cup {None}]
      /\ rmback \in [Procs -> Backs] /\ miss \in [Procs -> {"compile", "cleanup"}]
      /\ \A p \in Procs : /\ miss[p] \in {"compile", "cleanup"}
                          /\ rmback[p] \in {"idle", "trimming", "compile", "cleanup"}
  BY Types
<1>r. \A p \in Procs, n \in Dirs \cup {None} : \A back : Rmtree(p, n, back) =>
        \/ \E d \in Dirs : /\ path[d] = n /\ n \in Dirs
                          /\ rmpath' = Put(rmpath, p, n) /\ rmdir' = Put(rmdir, p, d)
                          /\ rmback' = Put(rmback, p, back) /\ Go(p, "rm")
        \/ (n = None \/ ~Exists(n)) /\ Go(p, back) /\ UNCHANGED rmVars
  BY RmtreeEffect
<1>m. DOMAIN artifact = Procs /\ miss \in [Procs -> {"compile", "cleanup"}]
      /\ key \in [Procs -> Keys \cup {None}]
  BY DEF TypeInv, ProcessType
<1>1. ASSUME NEW p \in Procs, LookEntry(p)
     PROVE  HeldInv'
  <2>1. /\ \A q \in Procs \ {p} : /\ pc'[q] = pc[q] /\ key'[q] = key[q]
                                  /\ artifact'[q] = artifact[q] /\ miss'[q] = miss[q]
        /\ evicted \subseteq evicted'
    BY <1>1, <1>t, <1>m, <1>r DEF LookEntry, Miss
  <2>2. ASSUME p \notin ReadOnly, key'[p] \notin evicted' PROVE Held(p)'
    <3>0. key[p] \notin evicted /\ key'[p] = key[p] => Held(p) /\ Kept(p) /\ Kept(p)'
      BY <2>1, <2>2, KeptInv, KeptStep, HeldInv DEF KeptInv, HeldInv
    <3>1. UNCHANGED <<key, artifact, miss, evicted>> /\ Held(p) /\ Kept(p) /\ Kept(p)'
      BY <1>1, <2>2, <3>0 DEF LookEntry
    <3>2. pc[p] = "entry" /\ pc'[p] = IF Exists(key[p]) THEN "present" ELSE miss[p]
      BY <1>1, <1>t DEF LookEntry, Miss
    <3>. QED
      BY <3>1, <3>2 DEF Held, Kept, Finished
  <2>. QED
    BY <2>1, <2>2, HeldFrame, HeldInv DEF HeldInv
<1>2. ASSUME NEW p \in Procs, ReadFails(p)
     PROVE  HeldInv'
  <2>1. /\ \A q \in Procs \ {p} : /\ pc'[q] = pc[q] /\ key'[q] = key[q]
                                  /\ artifact'[q] = artifact[q] /\ miss'[q] = miss[q]
        /\ evicted \subseteq evicted'
    BY <1>2, <1>t, <1>m, <1>r DEF ReadFails, Miss
  <2>2. ASSUME p \notin ReadOnly, key'[p] \notin evicted' PROVE Held(p)'
    <3>0. key[p] \notin evicted /\ key'[p] = key[p] => Held(p) /\ Kept(p) /\ Kept(p)'
      BY <2>1, <2>2, KeptInv, KeptStep, HeldInv DEF KeptInv, HeldInv
    <3>1. key[p] \notin evicted /\ key'[p] = key[p]
      BY <1>2, <2>2 DEF ReadFails
    <3>. QED
      BY <1>2, <3>0, <3>1 DEF ReadFails, Kept
  <2>. QED
    BY <2>1, <2>2, HeldFrame, HeldInv DEF HeldInv
<1>3. ASSUME NEW p \in Procs, LookFile(p)
     PROVE  HeldInv'
  <2>1. /\ \A q \in Procs \ {p} : /\ pc'[q] = pc[q] /\ key'[q] = key[q]
                                  /\ artifact'[q] = artifact[q] /\ miss'[q] = miss[q]
        /\ evicted \subseteq evicted'
    BY <1>3, <1>t, <1>m, <1>r DEF LookFile
  <2>2. ASSUME p \notin ReadOnly, key'[p] \notin evicted' PROVE Held(p)'
    <3>0. key[p] \notin evicted /\ key'[p] = key[p] => Held(p) /\ Kept(p) /\ Kept(p)'
      BY <2>1, <2>2, KeptInv, KeptStep, HeldInv DEF KeptInv, HeldInv
    <3>1. UNCHANGED <<key, artifact, miss, evicted>> /\ Held(p) /\ Kept(p) /\ Kept(p)'
      BY <1>3, <2>2, <3>0 DEF LookFile
    <3>. QED
      BY <1>3, <3>1, <1>t DEF LookFile, Held, Finished
  <2>. QED
    BY <2>1, <2>2, HeldFrame, HeldInv DEF HeldInv
<1>4. ASSUME NEW p \in Procs, LookSafe(p)
     PROVE  HeldInv'
  <2>1. /\ \A q \in Procs \ {p} : /\ pc'[q] = pc[q] /\ key'[q] = key[q]
                                  /\ artifact'[q] = artifact[q] /\ miss'[q] = miss[q]
        /\ evicted \subseteq evicted'
    BY <1>4, <1>t, SafeEffect
  <2>2. ASSUME p \notin ReadOnly, key'[p] \notin evicted' PROVE Held(p)'
    <3>0. key[p] \notin evicted /\ key'[p] = key[p] => Held(p) /\ Kept(p) /\ Kept(p)'
      BY <2>1, <2>2, KeptInv, KeptStep, HeldInv DEF KeptInv, HeldInv
    <3>1. UNCHANGED <<key, artifact, miss, evicted>> /\ Held(p) /\ Kept(p) /\ Kept(p)'
      BY <1>4, <2>2, <3>0 DEF LookSafe
    <3>2. seen[p] = All /\ \A f \in All : Holds(key[p], f)
      BY <1>4, <3>1, KeptHolds DEF LookSafe, Kept, Missed
    <3>3. pc'[p] \in {"safe", "read"}
      BY <1>4, <3>2, <1>t, SafeEffect
    <3>. QED
      BY <1>4, <3>1, <3>3 DEF LookSafe, Held, Finished
  <2>. QED
    BY <2>1, <2>2, HeldFrame, HeldInv DEF HeldInv
<1>5. ASSUME NEW p \in Procs, ReadFile(p)
     PROVE  HeldInv'
  <2>1. /\ \A q \in Procs \ {p} : /\ pc'[q] = pc[q] /\ key'[q] = key[q]
                                  /\ artifact'[q] = artifact[q] /\ miss'[q] = miss[q]
        /\ evicted \subseteq evicted'
    BY <1>5, <1>t, <1>m, <1>r DEF ReadFile, Miss
  <2>2. ASSUME p \notin ReadOnly, key'[p] \notin evicted' PROVE Held(p)'
    <3>0. key[p] \notin evicted /\ key'[p] = key[p] => Held(p) /\ Kept(p) /\ Kept(p)'
      BY <2>1, <2>2, KeptInv, KeptStep, HeldInv DEF KeptInv, HeldInv
    <3>1. UNCHANGED <<key, miss, path, content, evicted>> /\ pc[p] = "read"
      BY <1>5 DEF ReadFile
    <3>2. Held(p) /\ Kept(p) /\ Kept(p)' /\ key[p] \in Keys
      BY <2>2, <3>0, <3>1, StepInv DEF StepInv
    <3>3. /\ \A f \in All : Holds(key[p], f)
          /\ At(key[p]) \in Dirs /\ path[At(key[p])] = key[p]
      BY <3>1, <3>2, KeptHolds
    <3>4. ReadOrder[i[p]] \in All
      BY FileNamed
    <3>5. \/ pc'[p] = "read" /\ artifact' = artifact
          \/ pc'[p] = "mismatch"
          \/ pc'[p] = "cleanup" /\ artifact'[p] = content[At(key[p])]
      BY <1>5, <3>3, <3>4, <1>t, <1>m DEF ReadFile
    <3>. QED
      BY <3>1, <3>2, <3>3, <3>5 DEF Held, Kept, Finished
  <2>. QED
    BY <2>1, <2>2, HeldFrame, HeldInv DEF HeldInv
<1>6. ASSUME NEW p \in Procs, DebrisRename(p)
     PROVE  HeldInv'
  <2>1. /\ \A q \in Procs \ {p} : /\ pc'[q] = pc[q] /\ key'[q] = key[q]
                                  /\ artifact'[q] = artifact[q] /\ miss'[q] = miss[q]
        /\ evicted \subseteq evicted'
    BY <1>6, <1>t, <1>m, <1>r DEF DebrisRename
  <2>2. ASSUME p \notin ReadOnly, key'[p] \notin evicted' PROVE Held(p)'
    <3>0. key[p] \notin evicted /\ key'[p] = key[p] => Held(p) /\ Kept(p) /\ Kept(p)'
      BY <2>1, <2>2, KeptInv, KeptStep, HeldInv DEF KeptInv, HeldInv
    <3>1. key[p] \notin evicted /\ key'[p] = key[p]
      BY <1>6, <2>2 DEF DebrisRename
    <3>. QED
      BY <1>6, <3>0, <3>1 DEF DebrisRename, Kept, Debrising
  <2>. QED
    BY <2>1, <2>2, HeldFrame, HeldInv DEF HeldInv
<1>7. ASSUME NEW p \in Procs, DebrisJudge(p)
     PROVE  HeldInv'
  <2>1. /\ \A q \in Procs \ {p} : /\ pc'[q] = pc[q] /\ key'[q] = key[q]
                                  /\ artifact'[q] = artifact[q] /\ miss'[q] = miss[q]
        /\ evicted \subseteq evicted'
    BY <1>7, <1>t, <1>m, <1>r DEF DebrisJudge
  <2>2. ASSUME p \notin ReadOnly, key'[p] \notin evicted' PROVE Held(p)'
    <3>0. key[p] \notin evicted /\ key'[p] = key[p] => Held(p) /\ Kept(p) /\ Kept(p)'
      BY <2>1, <2>2, KeptInv, KeptStep, HeldInv DEF KeptInv, HeldInv
    <3>1. key[p] \notin evicted /\ key'[p] = key[p]
      BY <1>7, <2>2 DEF DebrisJudge
    <3>. QED
      BY <1>7, <3>0, <3>1 DEF DebrisJudge, Kept, Debrising
  <2>. QED
    BY <2>1, <2>2, HeldFrame, HeldInv DEF HeldInv
<1>8. ASSUME NEW p \in Procs, DebrisBack(p)
     PROVE  HeldInv'
  <2>1. /\ \A q \in Procs \ {p} : /\ pc'[q] = pc[q] /\ key'[q] = key[q]
                                  /\ artifact'[q] = artifact[q] /\ miss'[q] = miss[q]
        /\ evicted \subseteq evicted'
    BY <1>8, <1>t, <1>m, <1>r DEF DebrisBack, Miss
  <2>2. ASSUME p \notin ReadOnly, key'[p] \notin evicted' PROVE Held(p)'
    <3>0. key[p] \notin evicted /\ key'[p] = key[p] => Held(p) /\ Kept(p) /\ Kept(p)'
      BY <2>1, <2>2, KeptInv, KeptStep, HeldInv DEF KeptInv, HeldInv
    <3>1. key[p] \notin evicted /\ key'[p] = key[p]
      BY <1>8, <2>2 DEF DebrisBack
    <3>. QED
      BY <1>8, <3>0, <3>1 DEF DebrisBack, Kept, Debrising
  <2>. QED
    BY <2>1, <2>2, HeldFrame, HeldInv DEF HeldInv
<1>9. ASSUME NEW p \in Procs, Compile(p)
     PROVE  HeldInv'
  <2>1. /\ \A q \in Procs \ {p} : /\ pc'[q] = pc[q] /\ key'[q] = key[q]
                                  /\ artifact'[q] = artifact[q] /\ miss'[q] = miss[q]
        /\ evicted \subseteq evicted'
    BY <1>9, <1>t, <1>m, <1>r DEF Compile
  <2>2. ASSUME p \notin ReadOnly, key'[p] \notin evicted' PROVE Held(p)'
    <3>0. key[p] \notin evicted /\ key'[p] = key[p] => Held(p) /\ Kept(p) /\ Kept(p)'
      BY <2>1, <2>2, KeptInv, KeptStep, HeldInv DEF KeptInv, HeldInv
    <3>1. UNCHANGED <<key, miss, evicted>> /\ key[p] \in Keys /\ pc[p] = "compile"
      BY <1>9, StepInv DEF Compile, StepInv
    <3>2. artifact[p] = None
      BY <2>2, <3>0, <3>1 DEF Held
    <3>3. off[p] = {}
      BY OffInv DEF OffInv
    <3>4. \/ artifact' = artifact
          \/ artifact'[p] = p /\ pc'[p] = "stage"
      BY <1>9, <2>2, <3>3, <1>t, <1>m DEF Compile, Writable, Content
    <3>. QED
      BY <3>1, <3>2, <3>4 DEF Held, Finished
  <2>. QED
    BY <2>1, <2>2, HeldFrame, HeldInv DEF HeldInv
<1>10. ASSUME NEW p \in Procs, StageWrite(p)
     PROVE  HeldInv'
  <2>1. /\ \A q \in Procs \ {p} : /\ pc'[q] = pc[q] /\ key'[q] = key[q]
                                  /\ artifact'[q] = artifact[q] /\ miss'[q] = miss[q]
        /\ evicted \subseteq evicted'
    BY <1>10, <1>t, <1>m, <1>r DEF StageWrite
  <2>2. ASSUME p \notin ReadOnly, key'[p] \notin evicted' PROVE Held(p)'
    <3>0. key[p] \notin evicted /\ key'[p] = key[p] => Held(p) /\ Kept(p) /\ Kept(p)'
      BY <2>1, <2>2, KeptInv, KeptStep, HeldInv DEF KeptInv, HeldInv
    <3>1. UNCHANGED <<key, artifact, miss, evicted>> /\ Held(p) /\ Kept(p) /\ Kept(p)'
      BY <1>10, <2>2, <3>0 DEF StageWrite
    <3>. QED
      BY <1>10, <3>1, <1>t DEF StageWrite, Held, Finished
  <2>. QED
    BY <2>1, <2>2, HeldFrame, HeldInv DEF HeldInv
<1>11. ASSUME NEW p \in Procs, Publish(p)
     PROVE  HeldInv'
  <2>1. /\ \A q \in Procs \ {p} : /\ pc'[q] = pc[q] /\ key'[q] = key[q]
                                  /\ artifact'[q] = artifact[q] /\ miss'[q] = miss[q]
        /\ evicted \subseteq evicted'
    BY <1>11, <1>t, <1>m, <1>r DEF Publish, AfterConflict
  <2>2. ASSUME p \notin ReadOnly, key'[p] \notin evicted' PROVE Held(p)'
    <3>0. key[p] \notin evicted /\ key'[p] = key[p] => Held(p) /\ Kept(p) /\ Kept(p)'
      BY <2>1, <2>2, KeptInv, KeptStep, HeldInv DEF KeptInv, HeldInv
    <3>1. UNCHANGED <<key, artifact, evicted, content>> /\ key[p] \in Keys /\ staging[p] \in Dirs
          /\ pc[p] = "publish"
      BY <1>11, StepInv DEF Publish, StepInv, Staging
    <3>2. Held(p)
      BY <2>2, <3>0, <3>1
    <3>3. PICK d \in Dirs : path[d] = staging[p]
      BY <1>11 DEF Publish, Exists
    <3>4. content[d] = p
      BY <3>1, <3>3, StageInv DEF StageInv
    <3>5. \/ pc'[p] = "trim" /\ Rename(staging[p], key[p])
          \/ pc'[p] = "entry" /\ miss'[p] = "cleanup"
      BY <1>11, <1>t, <1>m DEF Publish, AfterConflict
    <3>6. pc'[p] = "trim" => path'[d] = key[p]
      BY <3>3, <3>5 DEF Rename
    <3>. QED
      BY <3>1, <3>2, <3>3, <3>4, <3>5, <3>6 DEF Held, Finished
  <2>. QED
    BY <2>1, <2>2, HeldFrame, HeldInv DEF HeldInv
<1>12. ASSUME NEW p \in Procs, Cleanup(p)
     PROVE  HeldInv'
  <2>1. /\ \A q \in Procs \ {p} : /\ pc'[q] = pc[q] /\ key'[q] = key[q]
                                  /\ artifact'[q] = artifact[q] /\ miss'[q] = miss[q]
        /\ evicted \subseteq evicted'
    BY <1>12, <1>t, <1>m, <1>r DEF Cleanup, Finally
  <2>2. ASSUME p \notin ReadOnly, key'[p] \notin evicted' PROVE Held(p)'
    <3>0. key[p] \notin evicted /\ key'[p] = key[p] => Held(p) /\ Kept(p) /\ Kept(p)'
      BY <2>1, <2>2, KeptInv, KeptStep, HeldInv DEF KeptInv, HeldInv
    <3>1. UNCHANGED <<key, artifact, miss>>
      BY <1>12 DEF Cleanup
    <3>2. Held(p) /\ Kept(p)
      BY <2>1, <2>2, <3>0, <3>1
    <3>3. pc[p] \in Finished /\ pc'[p] \in Finished
      BY <1>12, <3>2, <1>t, <1>r DEF Cleanup, Finished, Kept, Finally
    <3>. QED
      BY <2>2, <3>1, <3>2, <3>3, HeldFrame
  <2>. QED
    BY <2>1, <2>2, HeldFrame, HeldInv DEF HeldInv
<1>13. ASSUME NEW p \in Procs, GiveUp(p)
     PROVE  HeldInv'
  <2>1. /\ \A q \in Procs \ {p} : /\ pc'[q] = pc[q] /\ key'[q] = key[q]
                                  /\ artifact'[q] = artifact[q] /\ miss'[q] = miss[q]
        /\ evicted \subseteq evicted'
    BY <1>13, <1>t, <1>m, <1>r DEF GiveUp
  <2>2. ASSUME p \notin ReadOnly, key'[p] \notin evicted' PROVE Held(p)'
    <3>0. key[p] \notin evicted /\ key'[p] = key[p] => Held(p) /\ Kept(p) /\ Kept(p)'
      BY <2>1, <2>2, KeptInv, KeptStep, HeldInv DEF KeptInv, HeldInv
    <3>1. key[p] \notin evicted /\ key'[p] = key[p]
      BY <1>13, <2>2 DEF GiveUp
    <3>. QED
      BY <1>13, <3>0, <3>1, FreshInv, StepInv DEF GiveUp, Kept, FreshInv,
          Unexpected, Works, StepInv, Staging
  <2>. QED
    BY <2>1, <2>2, HeldFrame, HeldInv DEF HeldInv
<1>14. ASSUME NEW p \in Procs, TrimList(p)
     PROVE  HeldInv'
  <2>1. /\ \A q \in Procs \ {p} : /\ pc'[q] = pc[q] /\ key'[q] = key[q]
                                  /\ artifact'[q] = artifact[q] /\ miss'[q] = miss[q]
        /\ evicted \subseteq evicted'
    BY <1>14, <1>t, <1>m, <1>r DEF TrimList
  <2>2. ASSUME p \notin ReadOnly, key'[p] \notin evicted' PROVE Held(p)'
    <3>0. key[p] \notin evicted /\ key'[p] = key[p] => Held(p) /\ Kept(p) /\ Kept(p)'
      BY <2>1, <2>2, KeptInv, KeptStep, HeldInv DEF KeptInv, HeldInv
    <3>1. UNCHANGED <<key, artifact, miss>>
      BY <1>14 DEF TrimList
    <3>2. Held(p) /\ Kept(p)
      BY <2>1, <2>2, <3>0, <3>1
    <3>3. pc[p] \in Finished /\ pc'[p] \in Finished
      BY <1>14, <3>2, <1>t, <1>r DEF TrimList, Finished, Kept
    <3>. QED
      BY <2>2, <3>1, <3>2, <3>3, HeldFrame
  <2>. QED
    BY <2>1, <2>2, HeldFrame, HeldInv DEF HeldInv
<1>15. ASSUME NEW p \in Procs, TrimNext(p)
     PROVE  HeldInv'
  <2>1. \A n \in stale[p] : n \in Dirs \cup {None}
    BY Types
  <2>2. /\ pc[p] = "trimming" /\ UNCHANGED <<path, files, content, old, debris, evicted, i, seen, read, key,
                                         miss, staging, aside, victims, off, artifact>>
        /\ \/ \E n \in stale[p] : Exists(n) /\ At(n) \in old /\ Rmtree(p, n, "trimming")
           \/ UNCHANGED rmVars /\ Go(p, IF victims[p] = <<>> THEN "cleanup" ELSE "discard")
    BY <1>15, TrimNextCases, Zenon
  <2>3. Go(p, "rm") \/ Go(p, "trimming") \/ Go(p, "cleanup") \/ Go(p, "discard")
    BY <1>r, <2>1, <2>2
  <2>4. \A q \in Procs :
          /\ key'[q] = key[q] /\ artifact'[q] = artifact[q] /\ miss'[q] = miss[q]
          /\ pc'[q] = pc[q] \/ (pc[q] \in Finished /\ pc'[q] \in Finished)
    BY <2>2, <2>3, <1>t DEF Go, Finished
  <2>. QED
    BY <2>2, <2>4, HeldFrame, HeldInv DEF HeldInv
<1>16. ASSUME NEW p \in Procs, DiscardRename(p)
     PROVE  HeldInv'
  <2>1. /\ \A q \in Procs \ {p} : /\ pc'[q] = pc[q] /\ key'[q] = key[q]
                                  /\ artifact'[q] = artifact[q] /\ miss'[q] = miss[q]
        /\ evicted \subseteq evicted'
    BY <1>16, <1>t, <1>m, <1>r DEF DiscardRename
  <2>2. ASSUME p \notin ReadOnly, key'[p] \notin evicted' PROVE Held(p)'
    <3>0. key[p] \notin evicted /\ key'[p] = key[p] => Held(p) /\ Kept(p) /\ Kept(p)'
      BY <2>1, <2>2, KeptInv, KeptStep, HeldInv DEF KeptInv, HeldInv
    <3>1. UNCHANGED <<key, artifact, miss>>
      BY <1>16 DEF DiscardRename
    <3>2. Held(p) /\ Kept(p)
      BY <2>1, <2>2, <3>0, <3>1
    <3>3. pc[p] \in Finished /\ pc'[p] \in Finished
      BY <1>16, <3>2, <1>t, <1>r DEF DiscardRename, Finished, Kept
    <3>. QED
      BY <2>2, <3>1, <3>2, <3>3, HeldFrame
  <2>. QED
    BY <2>1, <2>2, HeldFrame, HeldInv DEF HeldInv
<1>17. ASSUME NEW p \in Procs, DiscardRm(p)
     PROVE  HeldInv'
  <2>1. /\ \A q \in Procs \ {p} : /\ pc'[q] = pc[q] /\ key'[q] = key[q]
                                  /\ artifact'[q] = artifact[q] /\ miss'[q] = miss[q]
        /\ evicted \subseteq evicted'
    BY <1>17, <1>t, <1>m, <1>r DEF DiscardRm
  <2>2. ASSUME p \notin ReadOnly, key'[p] \notin evicted' PROVE Held(p)'
    <3>0. key[p] \notin evicted /\ key'[p] = key[p] => Held(p) /\ Kept(p) /\ Kept(p)'
      BY <2>1, <2>2, KeptInv, KeptStep, HeldInv DEF KeptInv, HeldInv
    <3>1. UNCHANGED <<key, artifact, miss>>
      BY <1>17 DEF DiscardRm
    <3>2. Held(p) /\ Kept(p)
      BY <2>1, <2>2, <3>0, <3>1
    <3>3. pc[p] \in Finished /\ pc'[p] \in Finished
      BY <1>17, <3>2, <1>t, <1>r DEF DiscardRm, Finished, Kept
    <3>. QED
      BY <2>2, <3>1, <3>2, <3>3, HeldFrame
  <2>. QED
    BY <2>1, <2>2, HeldFrame, HeldInv DEF HeldInv
<1>18. ASSUME NEW p \in Procs, RmDir(p)
     PROVE  HeldInv'
  <2>1. /\ \A q \in Procs \ {p} : /\ pc'[q] = pc[q] /\ key'[q] = key[q]
                                  /\ artifact'[q] = artifact[q] /\ miss'[q] = miss[q]
        /\ evicted \subseteq evicted'
    BY <1>18, <1>t, <1>m, <1>r DEF RmDir
  <2>2. ASSUME p \notin ReadOnly, key'[p] \notin evicted' PROVE Held(p)'
    <3>0. key[p] \notin evicted /\ key'[p] = key[p] => Held(p) /\ Kept(p) /\ Kept(p)'
      BY <2>1, <2>2, KeptInv, KeptStep, HeldInv DEF KeptInv, HeldInv
    <3>1. UNCHANGED <<key, artifact, miss>>
      BY <1>18 DEF RmDir
    <3>2. Held(p) /\ Kept(p)
      BY <2>1, <2>2, <3>0, <3>1
    <3>3. pc[p] \in Finished /\ pc'[p] \in Finished
      BY <1>18, <3>2, <1>t, <1>r DEF RmDir, Finished, Kept
    <3>. QED
      BY <2>2, <3>1, <3>2, <3>3, HeldFrame
  <2>. QED
    BY <2>1, <2>2, HeldFrame, HeldInv DEF HeldInv
<1>19. ASSUME NEW p \in Procs, NEW f \in All, RmFile(p, f)
     PROVE  HeldInv'
  <2>1. /\ \A q \in Procs \ {p} : /\ pc'[q] = pc[q] /\ key'[q] = key[q]
                                  /\ artifact'[q] = artifact[q] /\ miss'[q] = miss[q]
        /\ evicted \subseteq evicted'
    BY <1>19, <1>t, <1>m, <1>r DEF RmFile
  <2>2. ASSUME p \notin ReadOnly, key'[p] \notin evicted' PROVE Held(p)'
    <3>0. key[p] \notin evicted /\ key'[p] = key[p] => Held(p) /\ Kept(p) /\ Kept(p)'
      BY <2>1, <2>2, KeptInv, KeptStep, HeldInv DEF KeptInv, HeldInv
    <3>1. UNCHANGED <<key, artifact, miss>>
      BY <1>19 DEF RmFile
    <3>2. Held(p) /\ Kept(p)
      BY <2>1, <2>2, <3>0, <3>1
    <3>3. pc[p] \in Finished /\ pc'[p] \in Finished
      BY <1>19, <3>2, <1>t, <1>r DEF RmFile, Finished, Kept
    <3>. QED
      BY <2>2, <3>1, <3>2, <3>3, HeldFrame
  <2>. QED
    BY <2>1, <2>2, HeldFrame, HeldInv DEF HeldInv
<1>20. ASSUME NEW p \in Procs, NEW d \in Dirs, DebrisMkdir(p, d)
     PROVE  HeldInv'
  <2>1. /\ \A q \in Procs \ {p} : /\ pc'[q] = pc[q] /\ key'[q] = key[q]
                                  /\ artifact'[q] = artifact[q] /\ miss'[q] = miss[q]
        /\ evicted \subseteq evicted'
    BY <1>20, <1>t, <1>m, <1>r, MkdtempEffect DEF DebrisMkdir
  <2>2. ASSUME p \notin ReadOnly, key'[p] \notin evicted' PROVE Held(p)'
    <3>0. key[p] \notin evicted /\ key'[p] = key[p] => Held(p) /\ Kept(p) /\ Kept(p)'
      BY <2>1, <2>2, KeptInv, KeptStep, HeldInv DEF KeptInv, HeldInv
    <3>1. key[p] \notin evicted /\ key'[p] = key[p]
      BY <1>20, <2>2, MkdtempEffect DEF DebrisMkdir
    <3>. QED
      BY <1>20, <3>0, <3>1 DEF DebrisMkdir, Kept, Debrising
  <2>. QED
    BY <2>1, <2>2, HeldFrame, HeldInv DEF HeldInv
<1>21. ASSUME NEW p \in Procs, NEW d \in Dirs, StageMkdir(p, d)
     PROVE  HeldInv'
  <2>1. /\ \A q \in Procs \ {p} : /\ pc'[q] = pc[q] /\ key'[q] = key[q]
                                  /\ artifact'[q] = artifact[q] /\ miss'[q] = miss[q]
        /\ evicted \subseteq evicted'
    BY <1>21, <1>t, <1>m, <1>r, MkdtempEffect DEF StageMkdir
  <2>2. ASSUME p \notin ReadOnly, key'[p] \notin evicted' PROVE Held(p)'
    <3>0. key[p] \notin evicted /\ key'[p] = key[p] => Held(p) /\ Kept(p) /\ Kept(p)'
      BY <2>1, <2>2, KeptInv, KeptStep, HeldInv DEF KeptInv, HeldInv
    <3>1. UNCHANGED <<key, artifact, miss, evicted>> /\ Held(p) /\ Kept(p) /\ Kept(p)'
      BY <1>21, <2>2, <3>0, MkdtempEffect DEF StageMkdir
    <3>. QED
      BY <1>21, <3>1, <1>t DEF StageMkdir, Held, Finished
  <2>. QED
    BY <2>1, <2>2, HeldFrame, HeldInv DEF HeldInv
<1>22. ASSUME NEW p \in Procs, NEW d \in Dirs, DiscardMkdir(p, d)
     PROVE  HeldInv'
  <2>1. /\ \A q \in Procs \ {p} : /\ pc'[q] = pc[q] /\ key'[q] = key[q]
                                  /\ artifact'[q] = artifact[q] /\ miss'[q] = miss[q]
        /\ evicted \subseteq evicted'
    BY <1>22, <1>t, <1>m, <1>r, MkdtempEffect DEF DiscardMkdir
  <2>2. ASSUME p \notin ReadOnly, key'[p] \notin evicted' PROVE Held(p)'
    <3>0. key[p] \notin evicted /\ key'[p] = key[p] => Held(p) /\ Kept(p) /\ Kept(p)'
      BY <2>1, <2>2, KeptInv, KeptStep, HeldInv DEF KeptInv, HeldInv
    <3>1. UNCHANGED <<key, artifact, miss>>
      BY <1>22 DEF DiscardMkdir
    <3>2. Held(p) /\ Kept(p)
      BY <2>1, <2>2, <3>0, <3>1
    <3>3. pc[p] \in Finished /\ pc'[p] \in Finished
      BY <1>22, <3>2, <1>t, <1>r DEF DiscardMkdir, Finished, Kept
    <3>. QED
      BY <2>2, <3>1, <3>2, <3>3, HeldFrame
  <2>. QED
    BY <2>1, <2>2, HeldFrame, HeldInv DEF HeldInv
<1>23. ASSUME NEW p \in Procs, Kill(p)
     PROVE  HeldInv'
  <2>1. /\ \A q \in Procs \ {p} : /\ pc'[q] = pc[q] /\ key'[q] = key[q]
                                  /\ artifact'[q] = artifact[q] /\ miss'[q] = miss[q]
        /\ evicted \subseteq evicted'
    BY <1>23, <1>t, <1>m, <1>r DEF Kill
  <2>2. ASSUME p \notin ReadOnly, key'[p] \notin evicted' PROVE Held(p)'
    BY <1>23, <1>m DEF Kill, Held
  <2>. QED
    BY <2>1, <2>2, HeldFrame, HeldInv DEF HeldInv
<1>24. ASSUME NEW p \in Procs, NEW k \in Keys, Lookup(p, k)
     PROVE  HeldInv'
  <2>1. /\ \A q \in Procs \ {p} : /\ pc'[q] = pc[q] /\ key'[q] = key[q]
                                  /\ artifact'[q] = artifact[q] /\ miss'[q] = miss[q]
        /\ evicted \subseteq evicted'
    BY <1>24, <1>t, <1>m, <1>r DEF Lookup
  <2>2. ASSUME p \notin ReadOnly, key'[p] \notin evicted' PROVE Held(p)'
    BY <1>24, <1>m DEF Lookup, Held
  <2>. QED
    BY <2>1, <2>2, HeldFrame, HeldInv DEF HeldInv
<1>25. ASSUME NEW d \in Dirs, Hour(d)
     PROVE  HeldInv'
  <2>1. UNCHANGED <<pc, key, artifact, miss, evicted>>
    BY <1>25 DEF Hour
  <2>. QED
    BY <2>1, HeldFrame, HeldInv DEF HeldInv
<1>26. CASE UNCHANGED vars
  BY <1>26, HeldFrame, HeldInv DEF vars, HeldInv
<1>27. ASSUME NEW p \in Procs, ReadRaises(p)
     PROVE  HeldInv'
  <2>1. /\ \A q \in Procs \ {p} : /\ pc'[q] = pc[q] /\ key'[q] = key[q]
                                  /\ artifact'[q] = artifact[q] /\ miss'[q] = miss[q]
        /\ evicted \subseteq evicted'
    BY <1>27, <1>t, <1>m, <1>r DEF ReadRaises, Miss
  <2>2. ASSUME p \notin ReadOnly, key'[p] \notin evicted' PROVE Held(p)'
    <3>0. key[p] \notin evicted /\ key'[p] = key[p] => Held(p) /\ Kept(p) /\ Kept(p)'
      BY <2>1, <2>2, KeptInv, KeptStep, HeldInv DEF KeptInv, HeldInv
    <3>1. key[p] \notin evicted /\ key'[p] = key[p]
      BY <1>27, <2>2 DEF ReadRaises
    <3>. QED
      BY <1>27, <3>0, <3>1 DEF ReadRaises, Kept
  <2>. QED
    BY <2>1, <2>2, HeldFrame, HeldInv DEF HeldInv
<1>28. ASSUME NEW p \in Procs, RenameRefused(p)
     PROVE  HeldInv'
  <2>1. FALSE
    BY <1>28, RefusedEffect
  <2>. QED
    BY <2>1
<1>. QED
  BY <1>1, <1>2, <1>3, <1>4, <1>5, <1>6, <1>7, <1>8, <1>9, <1>10, <1>11, <1>12,
      <1>13, <1>14, <1>15, <1>16, <1>17, <1>18, <1>19, <1>20, <1>21, <1>22, <1>23,
      <1>24, <1>25, <1>26, <1>27, <1>28 DEF Next, Step

\* Without debris and failures of the file system, two processes hold the same
\* artifact for a key, whatever is killed, unless the key was evicted.
THEOREM FirstRenameWins ==
  ASSUME DebrisKeys = {}, Faults \cap {"read", "write", "stall"} = {}
  PROVE  Spec => []OneArtifactPerKey
<1>0. "stall" \notin Faults /\ Faults \cap {"read", "write"} = {}
  OBVIOUS
<1>1. Init => KeptInv /\ HeldInv
  BY KeptInit DEF Init, HeldInv, Held
<1>2. IInv /\ KeptInv /\ HeldInv /\ [Next]_vars => KeptInv' /\ HeldInv'
  BY <1>0, KeptStep, HeldStep DEF IInv
<1>3. IInv /\ KeptInv /\ HeldInv => OneArtifactPerKey
  <2>. SUFFICES ASSUME IInv, HeldInv,
                       NEW p \in Procs \ ReadOnly, NEW q \in Procs \ ReadOnly,
                       pc[p] = "idle", pc[q] = "idle", key[p] = key[q],
                       artifact[p] # None, artifact[q] # None, key[p] \notin evicted
                PROVE  artifact[p] = artifact[q]
    BY DEF OneArtifactPerKey
  <2>1. Held(p) /\ Held(q)
    BY DEF HeldInv
  <2>2. PICK c \in Dirs : path[c] = key[p] /\ content[c] = artifact[p]
    BY <2>1 DEF Held, Finished
  <2>3. PICK d \in Dirs : path[d] = key[q] /\ content[d] = artifact[q]
    BY <2>1 DEF Held, Finished
  <2>4. key[p] # None
    BY <2>1, DiskCacheAssumption DEF Held
  <2>5. c = d
    BY <2>2, <2>3, <2>4 DEF IInv, TypeInv, FsType
  <2>. QED
    BY <2>2, <2>3, <2>5
<1>. QED
  BY <1>0, Invariance, <1>1, <1>2, <1>3, PTL DEF Spec
===============================================================================
