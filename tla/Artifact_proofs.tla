--------------------------- MODULE Artifact_proofs ----------------------------
(* Proofs about artifact directories for all sets of runs, threads and        *)
(* directories, every list of kernels and whatever the runs are built from.   *)
EXTENDS Artifact, FiniteSetTheorems, SequenceTheorems, TLAPS

-------------------------------------------------------------------------------
(* The inductive invariant of the directories. *)

FileMaps == UNION {[S -> Contents] : S \in SUBSET Files}
Directories == [made : BOOLEAN, open : BOOLEAN, files : FileMaps]
WriterSteps == {"begin", "stage", "write", "failed", "done", "killed"}

FilesType ==
    /\ fs \in [Dirs \cup Writers -> Directories]
    /\ build \in Builds
    /\ wpc \in [Writers -> WriterSteps] /\ dest \in [Writers -> Dirs]
    /\ edited \subseteq Dirs /\ edits \in 0..MaxEdits

\* A staging directory is there while its run writes, or was killed then, and
\* holds the first files of the order in which that run writes them.
StageInv ==
    \A w \in Writers :
        /\ wpc[w] \notin {"write", "killed"} => fs[w] = Absent
        /\ wpc[w] \in {"write", "killed"} =>
             /\ fs[w].made /\ ~fs[w].open
             /\ \A f \in DOMAIN fs[w].files : fs[w].files[f] = w
             /\ \E n \in 0..Len(WriteOrder) :
                  /\ DOMAIN fs[w].files = {WriteOrder[i] : i \in 1..n}
                  /\ IsFiniteSet(DOMAIN fs[w].files)
                  /\ Cardinality(DOMAIN fs[w].files) = n

\* A file under an output name is of a run that reported success, or damaged.
OutputInv ==
    \A d \in Dirs : \A f \in DOMAIN fs[d].files :
        fs[d].files[f] # Damaged => wpc[fs[d].files[f]] = "done"

\* What PublishedWhole says, with a name for its witness.
WholeRun(d) ==
    \E w \in Writers : d = [made |-> TRUE, open |-> FALSE,
                            files |-> [f \in Files |-> w]]
PublishedInv == \A d \in Dirs : fs[d].made /\ d \notin edited => WholeRun(fs[d])

FilesInv == FilesType /\ StageInv /\ OutputInv /\ PublishedInv

-------------------------------------------------------------------------------
(* The inductive invariant of the loading process. *)

Artifacts == [dir : Dirs \cup {Unset}, run : Writers \cup {Native},
              parts : Seq(Writers)]
LimitValues == {OwnLimits} \cup {b[w].limits : b \in Builds, w \in Writers}
Locals ==
    [use : {"none", "limits", "admit", "native", "memo", "build"},
     target : Targets \cup {"none"}, named : Dirs \cup {Unset}, found : Artifacts,
     todo : Seq(KernelSet),
     limits : LimitValues,
     key : Writers \cup {Native}, served : Writers \cup {Native, "none"}]
Loading == {"directory", "manifest", "kernels", "publish"}
ThreadSteps == {"idle", "select", "lock", "use", "memo", "served"} \cup Loading

ProcessType ==
    /\ environ \in Dirs \cup {Unset} /\ slot \in Artifacts
    /\ lock \in Threads \cup {"none"} /\ pc \in [Threads -> ThreadSteps]
    /\ local \in [Threads -> Locals] /\ libraries \subseteq Writers
    /\ launcher \in Writers \cup {Unset} /\ calls \in 0..MaxCalls
    /\ \A k \in DOMAIN memo : memo[k] \in Writers \cup {Native}

\* The holder of the lock is the thread that loads.
LoadLock == \A t \in Threads : (lock = t) <=> pc[t] \in Loading

Whole(a) == /\ a.run \in libraries
            /\ a.parts = [i \in DOMAIN KernelFiles |-> a.run]

\* What a load has read so far is of the run of its manifest; what it publishes
\* and what a call uses is whole.
Reads(t) ==
    /\ pc[t] \in Loading \cup {"lock"} => local[t].named # Unset
    /\ pc[t] \in {"kernels", "publish", "use"} =>
         local[t].found.dir = local[t].named
    /\ pc[t] = "kernels" =>
         /\ local[t].found.run \in Writers
         /\ Len(local[t].found.parts) + Len(local[t].todo) = Len(KernelFiles)
         /\ \A i \in 1..Len(local[t].found.parts) :
              local[t].found.parts[i] = local[t].found.run
    /\ pc[t] = "publish" => Whole(local[t].found)
    /\ pc[t] = "use" /\ local[t].found # None => Whole(local[t].found)

LoadInv ==
    /\ slot # None => Whole(slot) /\ slot.dir # Unset
    /\ launcher # Unset => launcher \in libraries
    /\ \A t \in Threads : Reads(t)

\* A kernel was built from this text for this processor.
Fits(kernel, target) ==
    kernel # Native => build[kernel].text = OwnText /\ build[kernel].target = target

Serves(t) ==
    pc[t] = "served" => /\ local[t].served \in Writers \cup {Native}
                        /\ Fits(local[t].served, local[t].target)

ServeInv ==
    /\ \A k \in DOMAIN memo : Fits(memo[k], k[2])
    /\ \A t \in Threads : Serves(t)

ProcessInv == ProcessType /\ LoadLock /\ LoadInv /\ ServeInv

-------------------------------------------------------------------------------
(* Lemmas about directories and the order of the files. *)

\* A path without a directory has no files.
LEMMA AbsentType == Absent \in Directories /\ DOMAIN Absent.files = {}
<1>1. <<>> \in [{} -> Contents]
  OBVIOUS
<1>2. <<>> \in FileMaps
  BY <1>1 DEF FileMaps
<1> QED BY <1>2 DEF Absent, Directories

\* What the fields of a directory are.
LEMMA DirectoryFacts ==
  ASSUME NEW d \in Directories
  PROVE  /\ d = [made |-> d.made, open |-> d.open, files |-> d.files]
         /\ d.made \in BOOLEAN /\ d.open \in BOOLEAN
         /\ DOMAIN d.files \subseteq Files /\ d.files \in [DOMAIN d.files -> Contents]
<1>1. d.files \in FileMaps
  BY DEF Directories
<1>2. PICK S \in SUBSET Files : d.files \in [S -> Contents]
  BY <1>1 DEF FileMaps
<1> QED BY <1>2 DEF Directories

\* A directory with one file written.
LEMMA PutFacts ==
  ASSUME NEW d \in Directories, NEW f \in Files, NEW c \in Contents
  PROVE  /\ Put(d, f, c) \in Directories
         /\ Put(d, f, c).made = d.made /\ Put(d, f, c).open = d.open
         /\ DOMAIN Put(d, f, c).files = DOMAIN d.files \cup {f}
         /\ \A g \in DOMAIN d.files \cup {f} :
              Put(d, f, c).files[g] = IF g = f THEN c ELSE d.files[g]
<1> DEFINE new == [g \in DOMAIN d.files \cup {f} |-> IF g = f THEN c ELSE d.files[g]]
<1>1. DOMAIN d.files \subseteq Files /\ d.files \in [DOMAIN d.files -> Contents]
  BY DirectoryFacts
<1>2. Put(d, f, c) = [made |-> d.made, open |-> d.open, files |-> new]
  BY DEF Put, Directories
<1>3. new \in [DOMAIN d.files \cup {f} -> Contents]
  BY <1>1
<1>4. new \in FileMaps
  BY <1>1, <1>3 DEF FileMaps
<1>5. Put(d, f, c) \in Directories
  BY <1>2, <1>4, DirectoryFacts DEF Directories
<1> QED BY <1>2, <1>5

\* Every file is written once.
LEMMA OrderFacts ==
  /\ Len(WriteOrder) \in Nat
  /\ Files = {WriteOrder[i] : i \in 1..Len(WriteOrder)}
  /\ \A i, j \in 1..Len(WriteOrder) : WriteOrder[i] = WriteOrder[j] => i = j
<1> DEFINE K == KernelFiles
           n == Len(K)
<1>1. K \in Seq(KernelSet) /\ n \in Nat /\ DOMAIN K = 1..n
  BY KernelFilesAssumption DEF KernelSet
<1>2. KernelSet = {K[i] : i \in 1..n}
  BY <1>1 DEF KernelSet, ToSet
<1>3. /\ Len(WriteOrder) = n + 2 /\ WriteOrder[1] = "runtime"
      /\ \A i \in 1..n : WriteOrder[i + 1] = K[i]
      /\ WriteOrder[n + 2] = "manifest"
  <2> DEFINE a == <<"runtime">> \o K
  <2>1. /\ a \in Seq(KernelSet \cup {"runtime"}) /\ Len(a) = n + 1 /\ a[1] = "runtime"
        /\ \A i \in 1..n : a[i + 1] = K[i]
    BY <1>1
  <2> HIDE DEF a
  <2> QED BY <1>1, <2>1 DEF WriteOrder, a
<1>4. \A i \in 2..(n + 1) : WriteOrder[i] = K[i - 1] /\ i - 1 \in 1..n
  <2> TAKE i \in 2..(n + 1)
  <2>1. i - 1 \in 1..n /\ (i - 1) + 1 = i
    BY <1>1
  <2> QED BY <1>3, <2>1
<1>5. \A i \in 1..(n + 2) : i = 1 \/ i = n + 2 \/ i \in 2..(n + 1)
  BY <1>1
<1>6. \A i, j \in 1..n : K[i] = K[j] => i = j
  BY <1>1, KernelFilesAssumption
<1>7. \A i \in 1..n : K[i] # "runtime" /\ K[i] # "manifest"
  BY <1>2, KernelFilesAssumption DEF KernelSet
<1>8. Files = {WriteOrder[i] : i \in 1..(n + 2)}
  <2>1. \A f \in Files : \E i \in 1..(n + 2) : f = WriteOrder[i]
    <3>1. ASSUME NEW i \in 1..n PROVE \E j \in 1..(n + 2) : K[i] = WriteOrder[j]
      <4>1. i + 1 \in 1..(n + 2)
        BY <1>1
      <4> QED BY <4>1, <1>3
    <3> QED BY <1>1, <1>2, <1>3, <3>1 DEF Files
  <2>2. \A i \in 1..(n + 2) : WriteOrder[i] \in Files
    BY <1>2, <1>3, <1>4, <1>5 DEF Files
  <2> QED BY <2>1, <2>2
<1>9. \A i, j \in 1..(n + 2) : WriteOrder[i] = WriteOrder[j] => i = j
  <2> SUFFICES ASSUME NEW i \in 1..(n + 2), NEW j \in 1..(n + 2),
                      WriteOrder[i] = WriteOrder[j]
               PROVE  i = j
    OBVIOUS
  <2>1. CASE i \in 2..(n + 1) /\ j \in 2..(n + 1)
    BY <2>1, <1>1, <1>4, <1>6
  <2>2. CASE i \in 2..(n + 1) /\ j \notin 2..(n + 1)
    BY <2>2, <1>3, <1>4, <1>5, <1>7
  <2>3. CASE i \notin 2..(n + 1) /\ j \in 2..(n + 1)
    BY <2>3, <1>3, <1>4, <1>5, <1>7
  <2>4. CASE i \notin 2..(n + 1) /\ j \notin 2..(n + 1)
    BY <2>4, <1>3, <1>5
  <2> QED BY <2>1, <2>2, <2>3, <2>4
<1> QED BY <1>1, <1>3, <1>8, <1>9

\* A run that is not complete writes a file it has not written.
LEMMA NextFileFacts ==
  ASSUME FilesInv, NEW w \in Writers, wpc[w] = "write", ~Complete(w)
  PROVE  /\ NextFile(w) \in Files
         /\ LET D == DOMAIN fs[w].files \cup {NextFile(w)}
            IN  \E n \in 0..Len(WriteOrder) :
                  /\ D = {WriteOrder[i] : i \in 1..n}
                  /\ IsFiniteSet(D) /\ Cardinality(D) = n
<1> DEFINE D == DOMAIN fs[w].files
<1>1. PICK n \in 0..Len(WriteOrder) : /\ D = {WriteOrder[i] : i \in 1..n}
                                      /\ IsFiniteSet(D) /\ Cardinality(D) = n
  BY DEF FilesInv, StageInv
<1>2. n # Len(WriteOrder)
  BY <1>1, OrderFacts DEF Complete
<1>3. n + 1 \in 1..Len(WriteOrder) /\ NextFile(w) = WriteOrder[n + 1]
  BY <1>1, <1>2, OrderFacts DEF NextFile
<1>4. NextFile(w) \in Files
  BY <1>3, OrderFacts
<1>5. NextFile(w) \notin D
  <2> SUFFICES ASSUME NEW i \in 1..n, WriteOrder[i] = WriteOrder[n + 1]
               PROVE  FALSE
    BY <1>1, <1>3
  <2>1. i \in 1..Len(WriteOrder) /\ i # n + 1
    BY <1>1, OrderFacts
  <2> QED BY <2>1, <1>3, OrderFacts
<1>6. IsFiniteSet(D \cup {NextFile(w)}) /\ Cardinality(D \cup {NextFile(w)}) = n + 1
  BY <1>1, <1>5, FS_AddElement
<1>7. D \cup {NextFile(w)} = {WriteOrder[i] : i \in 1..(n + 1)}
  <2>1. n \in Nat
    BY <1>1, OrderFacts
  <2> QED BY <2>1, <1>1, <1>3
<1>8. n + 1 \in 0..Len(WriteOrder)
  BY <1>3, OrderFacts
<1> QED BY <1>4, <1>6, <1>7, <1>8

-------------------------------------------------------------------------------
(* Every step keeps the invariant of the directories. *)

\* The process only reads the directories.
LEMMA ProcessKeepsFiles ==
  ASSUME \/ \E t \in Threads : \/ Load(t) \/ Serve(t)
                               \/ \E target \in Targets : Call(t, target)
         \/ UNCHANGED vars
  PROVE  UNCHANGED <<fs, build, wpc, dest, edited, edits>>
<1>1. ASSUME NEW t \in Threads, Load(t)
      PROVE  UNCHANGED <<fs, build, wpc, dest, edited, edits>>
  BY <1>1 DEF Load, Select, Lock, CheckDirectory, ReadManifest, ReadKernel,
     LoadRuntime, Publish, files, runs
<1>2. ASSUME NEW t \in Threads, Serve(t)
      PROVE  UNCHANGED <<fs, build, wpc, dest, edited, edits>>
  BY <1>2 DEF Serve, PlanningLimits, Admit, NativeSwage, LookUp, Build, Return,
     files, runs
<1>3. ASSUME NEW t \in Threads, NEW target \in Targets, Call(t, target)
      PROVE  UNCHANGED <<fs, build, wpc, dest, edited, edits>>
  BY <1>3 DEF Call, files, runs
<1>4. CASE UNCHANGED vars
  BY <1>4 DEF vars
<1> QED BY <1>1, <1>2, <1>3, <1>4

\* A step that touches neither directories nor runs keeps what is known of them.
LEMMA FilesUnchanged ==
  ASSUME FilesInv, UNCHANGED <<fs, build, wpc, dest, edited, edits>>
  PROVE  FilesInv'
  BY DEF FilesInv, FilesType, StageInv, Complete, OutputInv, PublishedInv

\* A step of a run that leaves the directories alone and neither enters nor
\* leaves the writing of files.
LEMMA QuietRun ==
  ASSUME FilesInv, NEW w \in Writers, NEW step \in WriterSteps, GotoW(w, step),
         UNCHANGED <<fs, build, dest, edited, edits>>,
         wpc[w] # "done",
         (wpc[w] \in {"write", "killed"}) = (step \in {"write", "killed"})
  PROVE  FilesInv'
<1>1. /\ wpc' \in [Writers -> WriterSteps] /\ wpc'[w] = step
      /\ \A v \in Writers \ {w} : wpc'[v] = wpc[v]
  BY DEF GotoW, FilesInv, FilesType
<1>2. FilesType'
  BY <1>1 DEF FilesInv, FilesType
<1>3. StageInv'
  BY <1>1 DEF FilesInv, StageInv
<1>4. \A d \in Dirs : \A f \in DOMAIN fs[d].files :
        fs[d].files[f] # Damaged => fs[d].files[f] \in Writers
  <2> SUFFICES ASSUME NEW d \in Dirs, NEW f \in DOMAIN fs[d].files
               PROVE  fs[d].files[f] \in Contents
    BY DEF Contents
  <2>1. fs[d] \in Directories
    BY DEF FilesInv, FilesType
  <2> QED BY <2>1, DirectoryFacts
<1>5. OutputInv'
  BY <1>1, <1>4 DEF FilesInv, OutputInv
<1> QED BY <1>2, <1>3, <1>5 DEF FilesInv, PublishedInv

\* A run that changes its staging directory only.
LEMMA StagingRun ==
  ASSUME FilesInv, NEW w \in Writers, NEW d \in Directories,
         fs' = [fs EXCEPT ![w] = d],
         wpc' \in [Writers -> WriterSteps], wpc[w] # "done",
         \A v \in Writers \ {w} : wpc'[v] = wpc[v],
         UNCHANGED <<build, dest, edited, edits>>,
         wpc'[w] \notin {"write", "killed"} => d = Absent,
         wpc'[w] \in {"write", "killed"} =>
           /\ d.made /\ ~d.open
           /\ \A f \in DOMAIN d.files : d.files[f] = w
           /\ \E n \in 0..Len(WriteOrder) :
                /\ DOMAIN d.files = {WriteOrder[i] : i \in 1..n}
                /\ IsFiniteSet(DOMAIN d.files) /\ Cardinality(DOMAIN d.files) = n
  PROVE  FilesInv'
<1>1. /\ fs' \in [Dirs \cup Writers -> Directories] /\ fs'[w] = d
      /\ \A p \in (Dirs \cup Writers) \ {w} : fs'[p] = fs[p]
      /\ \A p \in Dirs : p # w
  BY NamesAssumption DEF FilesInv, FilesType
<1>2. FilesType'
  BY <1>1 DEF FilesInv, FilesType
<1>3. StageInv'
  BY <1>1 DEF FilesInv, StageInv
<1>4. OutputInv'
  <2> SUFFICES ASSUME NEW p \in Dirs, NEW f \in DOMAIN fs[p].files,
                      fs[p].files[f] # Damaged
               PROVE  wpc'[fs[p].files[f]] = "done"
    BY <1>1 DEF OutputInv
  <2>1. fs[p] \in Directories
    BY DEF FilesInv, FilesType
  <2>2. fs[p].files[f] \in Writers
    BY <2>1, DirectoryFacts DEF Contents
  <2> QED BY <2>2 DEF FilesInv, OutputInv
<1>5. PublishedInv'
  BY <1>1 DEF FilesInv, PublishedInv
<1> QED BY <1>2, <1>3, <1>4, <1>5 DEF FilesInv

\* rmtree of the staging directory.
LEMMA AbandonStep ==
  ASSUME FilesInv, NEW w \in Writers, wpc[w] = "write", Abandon(w),
         UNCHANGED <<build, dest, edited, edits>>
  PROVE  FilesInv'
<1>1. /\ wpc' \in [Writers -> WriterSteps] /\ wpc'[w] = "failed"
      /\ \A v \in Writers \ {w} : wpc'[v] = wpc[v]
      /\ fs' = [fs EXCEPT ![w] = Absent]
  BY DEF Abandon, GotoW, FilesInv, FilesType, WriterSteps
<1> QED BY <1>1, AbsentType, StagingRun

\* The rename publishes the complete staging directory under the output name.
LEMMA RenameStep ==
  ASSUME FilesInv, NEW w \in Writers, Rename(w) PROVE FilesInv'
<1>1. CASE Abandon(w) /\ UNCHANGED edited
  BY <1>1, AbandonStep DEF Rename
<1>2. CASE /\ CanRename(dest[w])
           /\ fs' = [fs EXCEPT ![dest[w]] = fs[w], ![w] = Absent]
           /\ edited' = edited \ {dest[w]} /\ GotoW(w, "done")
  <2> DEFINE to == dest[w]
  <2>1. to \in Dirs /\ w \notin Dirs /\ to # w /\ to \notin Writers
    BY NamesAssumption DEF FilesInv, FilesType
  <2>2. /\ fs'[to] = fs[w] /\ fs'[w] = Absent
        /\ \A p \in (Dirs \cup Writers) \ {to, w} : fs'[p] = fs[p]
        /\ fs' \in [Dirs \cup Writers -> Directories]
    BY <1>2, <2>1, AbsentType DEF FilesInv, FilesType
  <2>3. /\ wpc' \in [Writers -> WriterSteps] /\ wpc'[w] = "done"
        /\ \A v \in Writers \ {w} : wpc'[v] = wpc[v]
    BY <1>2 DEF GotoW, FilesInv, FilesType, WriterSteps
  <2>4. UNCHANGED <<build, dest, edits>> /\ edited' = edited \ {to} /\ wpc[w] = "write"
    BY <1>2 DEF Rename
  <2>5. FilesType'
    BY <2>2, <2>3, <2>4 DEF FilesInv, FilesType
  <2>6. StageInv'
    BY <2>1, <2>2, <2>3, <2>4 DEF FilesInv, StageInv
  <2>7. /\ fs[w].made = TRUE /\ fs[w].open = FALSE /\ DOMAIN fs[w].files = Files
        /\ \A f \in Files : fs[w].files[f] = w
    BY <2>4, DirectoryFacts DEF FilesInv, FilesType, StageInv, Rename, Complete
  <2>8. fs[w] = [made |-> TRUE, open |-> FALSE, files |-> [f \in Files |-> w]]
    BY <2>7, DirectoryFacts DEF FilesInv, FilesType
  <2>9. PublishedInv'
    <3>1. WholeRun(fs'[to])
      BY <2>2, <2>8 DEF WholeRun
    <3> QED BY <3>1, <2>1, <2>2, <2>4 DEF FilesInv, PublishedInv
  <2>10. OutputInv'
    <3> SUFFICES ASSUME NEW d \in Dirs, NEW f \in DOMAIN fs'[d].files,
                        fs'[d].files[f] # Damaged
                 PROVE  wpc'[fs'[d].files[f]] = "done"
      BY DEF OutputInv
    <3>1. CASE d = to
      BY <3>1, <2>2, <2>3, <2>7
    <3>2. CASE d # to
      <4>1. fs'[d] = fs[d] /\ fs[d] \in Directories
        BY <3>2, <2>1, <2>2 DEF FilesInv, FilesType
      <4>2. fs[d].files[f] \in Writers
        BY <4>1, DirectoryFacts DEF Contents
      <4>3. wpc[fs[d].files[f]] = "done"
        BY <4>1 DEF FilesInv, OutputInv
      <4> QED BY <4>1, <4>2, <4>3, <2>3
    <3> QED BY <3>1, <3>2
  <2> QED BY <2>5, <2>6, <2>9, <2>10 DEF FilesInv
<1> QED BY <1>1, <1>2 DEF Rename

\* The user changes a directory under an output name; unless it is gone, it
\* counts as edited from then on.
LEMMA EditStep ==
  ASSUME FilesInv, NEW d \in Dirs, NEW directory \in Directories,
         Edit(d, directory),
         \A f \in DOMAIN directory.files :
           \/ directory.files[f] = Damaged
           \/ f \in DOMAIN fs[d].files /\ directory.files[f] = fs[d].files[f]
  PROVE  FilesInv'
<1>1. /\ fs'[d] = directory /\ fs' \in [Dirs \cup Writers -> Directories]
      /\ \A p \in (Dirs \cup Writers) \ {d} : fs'[p] = fs[p]
      /\ d \notin Writers
      /\ UNCHANGED <<build, wpc, dest>>
      /\ edited' = IF directory = Absent THEN edited \ {d} ELSE edited \cup {d}
      /\ edits' = edits + 1 /\ edits < MaxEdits
  BY NamesAssumption DEF Edit, FilesInv, FilesType, runs
<1>2. FilesType'
  BY <1>1, NamesAssumption DEF FilesInv, FilesType
<1>3. StageInv'
  BY <1>1 DEF FilesInv, StageInv
<1>4. OutputInv'
  <2> SUFFICES ASSUME NEW p \in Dirs, NEW f \in DOMAIN fs'[p].files,
                      fs'[p].files[f] # Damaged
               PROVE  wpc[fs'[p].files[f]] = "done"
    BY <1>1 DEF OutputInv
  <2>1. CASE p = d
    BY <2>1, <1>1 DEF FilesInv, OutputInv
  <2>2. CASE p # d
    BY <2>2, <1>1 DEF FilesInv, OutputInv
  <2> QED BY <2>1, <2>2
<1>5. PublishedInv'
  <2>1. fs'[d].made => d \in edited'
    BY <1>1 DEF Absent
  <2> QED BY <2>1, <1>1 DEF FilesInv, PublishedInv
<1> QED BY <1>2, <1>3, <1>4, <1>5 DEF FilesInv

\* Every step keeps what is known of the directories and of the runs that write them.
LEMMA FilesStep == ASSUME FilesInv, [Next]_vars PROVE FilesInv'
<1>t. /\ fs \in [Dirs \cup Writers -> Directories]
      /\ wpc \in [Writers -> WriterSteps] /\ dest \in [Writers -> Dirs]
  BY DEF FilesInv, FilesType
<1>1. ASSUME NEW w \in Writers, CompilePrograms(w) PROVE FilesInv'
  <2>1. PICK step \in {"stage", "failed"} : GotoW(w, step)
    BY <1>1 DEF CompilePrograms
  <2>2. UNCHANGED <<fs, build, dest, edited, edits>> /\ wpc[w] = "begin"
    BY <1>1 DEF CompilePrograms, files
  <2> QED BY <2>1, <2>2, QuietRun DEF WriterSteps
<1>2. ASSUME NEW w \in Writers, Stage(w) PROVE FilesInv'
  <2>1. CASE GotoW(w, "failed") /\ UNCHANGED fs
    BY <1>2, <2>1, QuietRun DEF Stage, WriterSteps
  <2>2. CASE GotoW(w, "write") /\ fs' = [fs EXCEPT ![w].made = TRUE]
    <3> DEFINE d == [Absent EXCEPT !.made = TRUE]
    <3>1. fs[w] = Absent /\ wpc[w] = "stage"
      BY <1>2 DEF Stage, FilesInv, StageInv
    <3>2. fs' = [fs EXCEPT ![w] = d]
      BY <2>2, <3>1, <1>t
    <3>3. d \in Directories /\ d.made /\ ~d.open /\ DOMAIN d.files = {}
      BY AbsentType DEF Absent, Directories
    <3>4. /\ 0 \in 0..Len(WriteOrder) /\ DOMAIN d.files = {WriteOrder[i] : i \in 1..0}
          /\ IsFiniteSet(DOMAIN d.files) /\ Cardinality(DOMAIN d.files) = 0
      <4>1. 1..0 = {} /\ 0 \in 0..Len(WriteOrder)
        BY OrderFacts
      <4> QED BY <4>1, <3>3, FS_EmptySet
    <3>5. /\ wpc' \in [Writers -> WriterSteps] /\ wpc'[w] = "write"
          /\ \A v \in Writers \ {w} : wpc'[v] = wpc[v]
      BY <2>2, <1>t DEF GotoW, WriterSteps
    <3>6. UNCHANGED <<build, dest, edited, edits>>
      BY <1>2 DEF Stage
    <3> HIDE DEF d
    <3> QED BY <3>1, <3>2, <3>3, <3>4, <3>5, <3>6, StagingRun
  <2> QED BY <1>2, <2>1, <2>2 DEF Stage
<1>3. ASSUME NEW w \in Writers, WriteFile(w) PROVE FilesInv'
  <2>1. CASE Abandon(w)
    BY <1>3, <2>1, AbandonStep DEF WriteFile
  <2>2. CASE fs' = [fs EXCEPT ![w] = Put(@, NextFile(w), w)] /\ UNCHANGED wpc
    <3> DEFINE d == Put(fs[w], NextFile(w), w)
    <3>1. wpc[w] = "write" /\ ~Complete(w) /\ UNCHANGED <<build, dest, edited, edits>>
      BY <1>3 DEF WriteFile
    <3>2. NextFile(w) \in Files /\ w \in Contents /\ fs[w] \in Directories
      BY <3>1, <1>t, NextFileFacts DEF Contents
    <3>3. fs' = [fs EXCEPT ![w] = d] /\ d \in Directories
      BY <2>2, <3>2, PutFacts
    <3>4. /\ d.made = fs[w].made /\ d.open = fs[w].open
          /\ DOMAIN d.files = DOMAIN fs[w].files \cup {NextFile(w)}
          /\ \A g \in DOMAIN d.files :
               d.files[g] = IF g = NextFile(w) THEN w ELSE fs[w].files[g]
      BY <3>2, PutFacts
    <3> HIDE DEF d
    <3>5. d.made /\ ~d.open /\ \A f \in DOMAIN d.files : d.files[f] = w
      BY <3>1, <3>4 DEF FilesInv, StageInv
    <3>6. \E n \in 0..Len(WriteOrder) :
            /\ DOMAIN d.files = {WriteOrder[i] : i \in 1..n}
            /\ IsFiniteSet(DOMAIN d.files) /\ Cardinality(DOMAIN d.files) = n
      BY <3>1, <3>4, NextFileFacts
    <3> QED BY <2>2, <1>t, <3>1, <3>3, <3>5, <3>6, StagingRun
  <2> QED BY <1>3, <2>1, <2>2 DEF WriteFile
<1>4. ASSUME NEW w \in Writers, Rename(w) PROVE FilesInv'
  BY <1>4, RenameStep
<1>5. ASSUME NEW w \in Writers, Kill(w) PROVE FilesInv'
  BY <1>5, QuietRun DEF Kill, WriterSteps, files
<1>6. ASSUME NEW d \in Dirs, RemoveDirectory(d) PROVE FilesInv'
  BY <1>6, EditStep, AbsentType DEF RemoveDirectory
<1>7. ASSUME NEW d \in Dirs, MakeEmpty(d) PROVE FilesInv'
  <2>1. /\ [Absent EXCEPT !.made = TRUE] \in Directories
        /\ DOMAIN [Absent EXCEPT !.made = TRUE].files = {}
    BY AbsentType DEF Absent, Directories
  <2> QED BY <1>7, <2>1, EditStep DEF MakeEmpty
<1>8. ASSUME NEW d \in Dirs, OpenUp(d) PROVE FilesInv'
  <2>1. /\ [fs[d] EXCEPT !.open = TRUE] \in Directories
        /\ [fs[d] EXCEPT !.open = TRUE].files = fs[d].files
    BY <1>t DEF Directories
  <2> QED BY <1>8, <2>1, EditStep DEF OpenUp
<1>9. ASSUME NEW d \in Dirs, NEW f \in Files, Damage(d, f) PROVE FilesInv'
  <2>1. fs[d] \in Directories /\ Damaged \in Contents
    BY <1>t DEF Contents
  <2> QED BY <1>9, <2>1, PutFacts, EditStep DEF Damage
<1>10. ASSUME NEW e \in Dirs \cup {Unset}, SetVariable(e) PROVE FilesInv'
  <2>1. UNCHANGED <<fs, build, wpc, dest, edited>> /\ edits' \in 0..MaxEdits
    BY <1>10, NamesAssumption DEF SetVariable, runs, FilesInv, FilesType
  <2> QED BY <2>1 DEF FilesInv, FilesType, StageInv, OutputInv, PublishedInv
<1>11. CASE UNCHANGED vars \/ \E t \in Threads :
              Load(t) \/ Serve(t) \/ \E target \in Targets : Call(t, target)
  BY <1>11, ProcessKeepsFiles, FilesUnchanged
<1> QED BY <1>1, <1>2, <1>3, <1>4, <1>5, <1>6, <1>7, <1>8, <1>9, <1>10, <1>11
        DEF Next, Write

-------------------------------------------------------------------------------
(* Every step keeps the invariant of the loading process. *)

\* A step of one thread: the others keep what they have read, since libraries
\* stay loaded, and the lock goes with the labels between which a load runs.
LEMMA ThreadStep ==
  ASSUME ProcessInv, NEW t \in Threads, UNCHANGED <<build, environ>>,
         NEW l \in Locals, local' = [local EXCEPT ![t] = l],
         NEW step \in ThreadSteps, pc' = [pc EXCEPT ![t] = step],
         step \in Loading => lock \in {"none", t},
         lock' = IF step \in Loading THEN t ELSE IF lock = t THEN "none" ELSE lock,
         calls' \in 0..MaxCalls,
         libraries \subseteq libraries', libraries' \subseteq Writers,
         slot' \in Artifacts,
         slot' # slot => Whole(slot)' /\ slot'.dir # Unset,
         launcher' \in Writers \cup {Unset},
         launcher' # launcher => launcher' \in libraries',
         \A k \in DOMAIN memo' :
           memo'[k] \in Writers \cup {Native} /\ Fits(memo'[k], k[2]),
         Reads(t)', Serves(t)'
  PROVE  ProcessInv'
<1>1. /\ local' \in [Threads -> Locals] /\ pc' \in [Threads -> ThreadSteps]
      /\ pc'[t] = step
      /\ \A u \in Threads \ {t} : local'[u] = local[u] /\ pc'[u] = pc[u]
      /\ lock \in Threads \cup {"none"} /\ "none" \notin Threads
  BY NamesAssumption DEF ProcessInv, ProcessType
<1>2. ProcessType'
  BY <1>1 DEF ProcessInv, ProcessType
<1>3. LoadLock'
  BY <1>1 DEF ProcessInv, LoadLock
<1>4. \A a : Whole(a) => Whole(a)'
  BY DEF Whole
<1>5. ASSUME NEW u \in Threads \ {t} PROVE Reads(u)'
  <2>1. local'[u] = local[u] /\ pc'[u] = pc[u]
    BY <1>1
  <2>2. Reads(u)
    BY DEF ProcessInv, LoadInv
  <2>3. Whole(local[u].found) => Whole(local[u].found)'
    BY <2>1 DEF Whole
  <2> QED BY <2>1, <2>2, <2>3 DEF Reads
<1>6. LoadInv'
  BY <1>4, <1>5 DEF ProcessInv, LoadInv, Whole
<1>7. \A u \in Threads \ {t} : Serves(u)'
  BY <1>1 DEF ProcessInv, ServeInv, Serves, Fits
<1>8. ServeInv'
  BY <1>7 DEF ServeInv, Fits
<1> QED BY <1>2, <1>3, <1>6, <1>8 DEF ProcessInv

\* The values a call starts and ends with.
LEMMA NoLocalFacts ==
  /\ NoLocal \in Locals /\ None \in Artifacts /\ None.dir = Unset
  /\ NoLocal.found = None /\ NoLocal.named = Unset
<1>1. <<>> \in Seq(Writers) /\ <<>> \in Seq(KernelSet)
  OBVIOUS
<1>2. OwnLimits \in LimitValues
  BY DEF LimitValues
<1> QED BY <1>1, <1>2 DEF NoLocal, None, Locals, Artifacts

\* A thread that gives up raises: the lock is free if it held it.
LEMMA RaiseStep ==
  ASSUME ProcessInv, NEW t \in Threads, UNCHANGED <<build, environ>>, Raise(t),
         libraries \subseteq libraries', libraries' \subseteq Writers,
         UNCHANGED <<slot, launcher, memo, calls>>
  PROVE  ProcessInv'
<1>1. /\ local' = [local EXCEPT ![t] = NoLocal] /\ pc' = [pc EXCEPT ![t] = "idle"]
      /\ lock' = IF lock = t THEN "none" ELSE lock
      /\ pc \in [Threads -> ThreadSteps]
  BY DEF Raise, Goto, ProcessInv, ProcessType
<1>2. "idle" \in ThreadSteps /\ "idle" \notin Loading
  BY DEF ThreadSteps, Loading
<1>3. Reads(t)' /\ Serves(t)'
  BY <1>1 DEF Reads, Serves, Loading
<1>4. /\ slot \in Artifacts /\ launcher \in Writers \cup {Unset}
      /\ calls \in 0..MaxCalls
      /\ \A k \in DOMAIN memo :
           memo[k] \in Writers \cup {Native} /\ Fits(memo[k], k[2])
  BY DEF ProcessInv, ProcessType, ServeInv
<1> QED BY <1>1, <1>2, <1>3, <1>4, NoLocalFacts, ThreadStep

\* A step of one thread that touches nothing but its own variables.
LEMMA OwnStep ==
  ASSUME ProcessInv, NEW t \in Threads,
         NEW l \in Locals, local' = [local EXCEPT ![t] = l],
         NEW step \in ThreadSteps, pc' = [pc EXCEPT ![t] = step],
         step \in Loading <=> pc[t] \in Loading,
         UNCHANGED <<build, environ, lock, slot, libraries, launcher, memo, calls>>,
         Reads(t)', Serves(t)'
  PROVE  ProcessInv'
<1>1. /\ slot \in Artifacts /\ launcher \in Writers \cup {Unset}
      /\ calls \in 0..MaxCalls /\ libraries \subseteq Writers
      /\ \A k \in DOMAIN memo :
           memo[k] \in Writers \cup {Native} /\ Fits(memo[k], k[2])
  BY DEF ProcessInv, ProcessType, ServeInv
<1>2. lock = t <=> pc[t] \in Loading
  BY DEF ProcessInv, LoadLock
<1> QED BY <1>1, <1>2, ThreadStep

\* What the type of the process says of one thread, and of a directory it reads.
LEMMA ThreadFacts ==
  ASSUME ProcessInv, NEW t \in Threads
  PROVE  /\ local[t] \in Locals /\ local \in [Threads -> Locals]
         /\ pc[t] \in ThreadSteps /\ pc \in [Threads -> ThreadSteps]
         /\ slot \in Artifacts /\ environ \in Dirs \cup {Unset}
         /\ launcher \in Writers \cup {Unset} /\ calls \in 0..MaxCalls
         /\ libraries \subseteq Writers /\ Reads(t) /\ Serves(t)
         /\ (lock = t <=> pc[t] \in Loading)
         /\ \A k \in DOMAIN memo :
              memo[k] \in Writers \cup {Native} /\ Fits(memo[k], k[2])
BY DEF ProcessInv, ProcessType, LoadLock, LoadInv, ServeInv

\* The files that a loading thread is to read hold one run each, or are damaged.
LEMMA HereFacts ==
  ASSUME FilesInv, ProcessInv, NEW t \in Threads, pc[t] \in Loading
  PROVE  \A f : Listed(t, f) => Here(t).files[f] \in Writers \cup {Damaged}
<1>1. local[t].named \in Dirs
  BY ThreadFacts DEF Reads, Locals
<1>2. Here(t) \in Directories
  BY <1>1 DEF Here, FilesInv, FilesType
<1> QED BY <1>2, DirectoryFacts DEF Listed, Contents

\* A call begins with the planning limits it asks for.
LEMMA CallStep ==
  ASSUME ProcessInv, NEW t \in Threads, NEW target \in Targets, Call(t, target)
  PROVE  ProcessInv'
<1> DEFINE l == [NoLocal EXCEPT !.use = "limits", !.target = target]
<1>1. l \in Locals
  BY NoLocalFacts DEF Locals
<1>2. /\ local' = [local EXCEPT ![t] = l] /\ pc' = [pc EXCEPT ![t] = "select"]
      /\ pc[t] = "idle" /\ calls < MaxCalls /\ calls' = calls + 1
      /\ UNCHANGED <<build, environ, slot, lock, libraries, launcher, memo>>
  BY DEF Call, Goto, runs
<1>3. "select" \in ThreadSteps /\ "select" \notin Loading /\ "idle" \notin Loading
  BY DEF ThreadSteps, Loading
<1>4. pc'[t] = "select"
  BY <1>2, ThreadFacts
<1>5. Reads(t)' /\ Serves(t)'
  BY <1>4 DEF Reads, Serves, Loading
<1>6. calls' \in 0..MaxCalls
  BY <1>2, ThreadFacts, NamesAssumption
<1> HIDE DEF l
<1>7. lock' = IF lock = t THEN "none" ELSE lock
  BY <1>2, <1>3, ThreadFacts
<1> QED BY <1>1, <1>2, <1>3, <1>5, <1>6, <1>7, ThreadFacts, ThreadStep

\* selected(): the one slot answers without the lock when it is of the named directory.
LEMMA SelectStep == ASSUME ProcessInv, NEW t \in Threads, Select(t) PROVE ProcessInv'
<1> DEFINE found == IF environ = Unset THEN None ELSE slot
           hit == environ = found.dir
           l == [local[t] EXCEPT !.named = environ,
                                 !.found = IF hit THEN found ELSE None]
           step == IF hit THEN "use" ELSE "lock"
<1>1. /\ local' = [local EXCEPT ![t] = l] /\ pc' = [pc EXCEPT ![t] = step]
      /\ pc[t] = "select"
      /\ UNCHANGED <<build, environ, slot, lock, libraries, launcher, memo, calls>>
  BY ThreadFacts DEF Select, Goto, runs
<1>2. l \in Locals /\ l.named = environ /\ l.found = IF hit THEN found ELSE None
  BY ThreadFacts, NoLocalFacts DEF Locals
<1>3. step \in ThreadSteps /\ (step \in Loading <=> pc[t] \in Loading)
  BY <1>1 DEF ThreadSteps, Loading
<1>4. pc'[t] = step /\ local'[t] = l
  BY <1>1, ThreadFacts
<1>5. slot # None => Whole(slot)
  BY DEF ProcessInv, LoadInv
<1>6. Whole(slot) => Whole(slot)'
  BY <1>1 DEF Whole
<1>7. Reads(t)'
  <2>1. CASE hit
    <3>1. found # None => found = slot /\ Whole(slot)'
      BY <1>5, <1>6
    <3>2. Whole(slot)' => Whole(local[t].found)' \/ local'[t].found # slot
      BY <1>1 DEF Whole
    <3> QED BY <2>1, <1>2, <1>4, <3>1, <3>2 DEF Reads, Loading
  <2>2. CASE ~hit
    <3>1. environ # Unset
      BY <2>2, NoLocalFacts
    <3> QED BY <2>2, <3>1, <1>2, <1>4 DEF Reads, Loading
  <2> QED BY <2>1, <2>2
<1>8. Serves(t)'
  BY <1>4 DEF Serves
<1> HIDE DEF l, step
<1> QED BY <1>1, <1>2, <1>3, <1>7, <1>8, OwnStep

\* The lock is taken, unless another thread has loaded the directory meanwhile.
LEMMA LockStep == ASSUME ProcessInv, NEW t \in Threads, Lock(t) PROVE ProcessInv'
<1>1. /\ pc[t] = "lock" /\ lock = "none" /\ local[t].named # Unset
      /\ UNCHANGED <<build, environ, slot, libraries, launcher, memo, calls>>
  BY ThreadFacts DEF Lock, Reads, runs
<1>2. CASE slot.dir = local[t].named
  <2> DEFINE l == [local[t] EXCEPT !.found = slot]
  <2>1. /\ local' = [local EXCEPT ![t] = l] /\ pc' = [pc EXCEPT ![t] = "use"]
        /\ UNCHANGED lock
    BY <1>2, ThreadFacts DEF Lock, Let, Goto
  <2>2. l \in Locals /\ l.found = slot /\ l.named = local[t].named
    BY ThreadFacts DEF Locals
  <2>3. pc'[t] = "use" /\ local'[t] = l
    BY <2>1, ThreadFacts
  <2>4. "use" \in ThreadSteps /\ "use" \notin Loading /\ "lock" \notin Loading
    BY DEF ThreadSteps, Loading
  <2>5. slot # None => Whole(slot)
    BY DEF ProcessInv, LoadInv
  <2>6. Reads(t)' /\ Serves(t)'
    BY <1>1, <1>2, <2>2, <2>3, <2>5 DEF Reads, Serves, Loading, Whole
  <2> HIDE DEF l
  <2> QED BY <1>1, <2>1, <2>2, <2>4, <2>6, OwnStep
<1>3. CASE slot.dir # local[t].named
  <2>1. local' = local /\ pc' = [pc EXCEPT ![t] = "directory"] /\ lock' = t
    BY <1>3 DEF Lock, Goto
  <2>2. local' = [local EXCEPT ![t] = local[t]] /\ pc'[t] = "directory"
    BY <2>1, ThreadFacts
  <2>3. "directory" \in ThreadSteps /\ "directory" \in Loading
    BY DEF ThreadSteps, Loading
  <2>4. Reads(t)' /\ Serves(t)'
    BY <1>1, <2>1, <2>2 DEF Reads, Serves
  <2> QED BY <1>1, <2>1, <2>2, <2>3, <2>4, ThreadFacts, ThreadStep
<1> QED BY <1>2, <1>3

\* The directory is one that may be loaded, or the call raises.
LEMMA CheckDirectoryStep ==
  ASSUME ProcessInv, NEW t \in Threads, CheckDirectory(t) PROVE ProcessInv'
<1>1. /\ pc[t] = "directory"
      /\ UNCHANGED <<build, environ, slot, libraries, launcher, memo, calls>>
  BY DEF CheckDirectory, runs
<1>2. CASE Raise(t)
  BY <1>1, <1>2, ThreadFacts, RaiseStep
<1>3. CASE Goto(t, "manifest") /\ UNCHANGED <<lock, local>>
  <2>1. /\ local' = [local EXCEPT ![t] = local[t]] /\ local' = local
        /\ pc' = [pc EXCEPT ![t] = "manifest"] /\ pc'[t] = "manifest"
    BY <1>3, ThreadFacts DEF Goto
  <2>2. "manifest" \in ThreadSteps /\ {"directory", "manifest"} \subseteq Loading
    BY DEF ThreadSteps, Loading
  <2>3. Reads(t)' /\ Serves(t)'
    BY <1>1, <2>1, <2>2, ThreadFacts DEF Reads, Serves
  <2> QED BY <1>1, <1>3, <2>1, <2>2, <2>3, ThreadFacts, OwnStep
<1> QED BY <1>2, <1>3 DEF CheckDirectory

\* What a thread has read while it reads the kernels.
LEMMA Kernels ==
  ASSUME NEW t \in Threads, NEW l, local'[t] = l, pc'[t] = "kernels",
         l.named # Unset, l.found.dir = l.named, l.found.run \in Writers,
         Len(l.found.parts) + Len(l.todo) = Len(KernelFiles),
         \A i \in 1..Len(l.found.parts) : l.found.parts[i] = l.found.run
  PROVE  Reads(t)' /\ Serves(t)'
BY DEF Reads, Serves

\* The manifest fixes the run whose files the thread expects.
LEMMA ReadManifestStep ==
  ASSUME FilesInv, ProcessInv, NEW t \in Threads, ReadManifest(t) PROVE ProcessInv'
<1> DEFINE run == Here(t).files["manifest"]
           found == [dir |-> local[t].named, run |-> run, parts |-> <<>>]
           l == [local[t] EXCEPT !.found = found, !.todo = KernelFiles]
<1>1. /\ pc[t] = "manifest"
      /\ UNCHANGED <<build, environ, slot, libraries, launcher, memo, calls>>
  BY DEF ReadManifest, runs
<1>2. CASE Raise(t)
  BY <1>1, <1>2, ThreadFacts, RaiseStep
<1>3. CASE /\ Listed(t, "manifest") /\ run # Damaged
           /\ local' = [local EXCEPT ![t].found = found, ![t].todo = KernelFiles]
           /\ Goto(t, "kernels") /\ UNCHANGED lock
  <2>1. {"manifest", "kernels"} \subseteq Loading /\ "kernels" \in ThreadSteps
    BY DEF Loading, ThreadSteps
  <2>2. run \in Writers /\ local[t].named \in Dirs
    <3>1. pc[t] \in Loading /\ local[t].named # Unset
      BY <1>1, <2>1, ThreadFacts DEF Reads
    <3>2. local[t].named \in Dirs
      BY <3>1, ThreadFacts DEF Locals
    <3> QED BY <1>3, <3>1, <3>2, HereFacts
  <2>3. found \in Artifacts /\ Len(found.parts) = 0
    <3>1. <<>> \in Seq(Writers) /\ Len(<<>>) = 0
      OBVIOUS
    <3> QED BY <2>2, <3>1 DEF Artifacts
  <2>4. KernelFiles \in Seq(KernelSet) /\ Len(KernelFiles) \in Nat
    BY KernelFilesAssumption DEF KernelSet
  <2>5. /\ local' = [local EXCEPT ![t] = l] /\ pc' = [pc EXCEPT ![t] = "kernels"]
    BY <1>3, ThreadFacts DEF Goto
  <2>6. found.run = run /\ found.dir = local[t].named
    OBVIOUS
  <2> HIDE DEF run, found
  <2>7. l \in Locals /\ l.found = found /\ l.todo = KernelFiles /\ l.named = local[t].named
    BY <2>3, <2>4, ThreadFacts DEF Locals
  <2>8. local'[t] = l /\ pc'[t] = "kernels"
    BY <2>5, ThreadFacts
  <2> HIDE DEF l
  <2>9. Reads(t)' /\ Serves(t)'
    <3>1. Len(l.found.parts) + Len(l.todo) = Len(KernelFiles)
      BY <2>3, <2>4, <2>7
    <3>2. \A i \in 1..Len(l.found.parts) : l.found.parts[i] = l.found.run
      BY <2>3, <2>7
    <3>3. /\ l.named # Unset /\ l.found.dir = l.named /\ l.found.run \in Writers
      BY <2>2, <2>6, <2>7, NamesAssumption
    <3> QED BY <2>8, <3>1, <3>2, <3>3, Kernels
  <2> QED BY <1>1, <1>3, <2>1, <2>5, <2>7, <2>9, OwnStep
<1> QED BY <1>2, <1>3 DEF ReadManifest

\* One more kernel is read; its digest makes it a file of the same run.
LEMMA ReadKernelStep ==
  ASSUME FilesInv, ProcessInv, NEW t \in Threads, ReadKernel(t) PROVE ProcessInv'
<1> DEFINE f == Head(local[t].todo)
           run == local[t].found.run
           found == [local[t].found EXCEPT !.parts = Append(@, Here(t).files[f])]
           l == [local[t] EXCEPT !.found = found, !.todo = Tail(@)]
<1>1. /\ pc[t] = "kernels" /\ local[t].todo # <<>>
      /\ UNCHANGED <<build, environ, slot, libraries, launcher, memo, calls>>
  BY DEF ReadKernel, runs
<1>2. CASE Raise(t)
  BY <1>1, <1>2, ThreadFacts, RaiseStep
<1>3. CASE /\ Verified(t, f)
           /\ local' = [local EXCEPT
                 ![t].found.parts = Append(@, Here(t).files[f]), ![t].todo = Tail(@)]
           /\ UNCHANGED <<lock, pc>>
  <2>1. /\ run \in Writers /\ local[t].named # Unset
        /\ local[t].found.dir = local[t].named
        /\ Len(local[t].found.parts) + Len(local[t].todo) = Len(KernelFiles)
        /\ \A i \in 1..Len(local[t].found.parts) : local[t].found.parts[i] = run
    BY <1>1, ThreadFacts DEF Reads, Loading
  <2>2. /\ local[t].found \in Artifacts /\ local[t].found.parts \in Seq(Writers)
        /\ local[t].todo \in Seq(KernelSet)
    BY ThreadFacts DEF Locals, Artifacts
  <2>3. Here(t).files[f] = run
    BY <1>3 DEF Verified
  <2>4. /\ found \in Artifacts /\ found.run = run /\ found.dir = local[t].named
        /\ found.parts = Append(local[t].found.parts, run)
    <3>1. Append(local[t].found.parts, run) \in Seq(Writers)
      BY <2>1, <2>2
    <3> QED BY <2>1, <2>2, <2>3, <3>1 DEF Artifacts
  <2>5. /\ Len(found.parts) + Len(Tail(local[t].todo)) = Len(KernelFiles)
        /\ \A i \in 1..Len(found.parts) : found.parts[i] = run
        /\ Tail(local[t].todo) \in Seq(KernelSet)
    <3>1. Len(Tail(local[t].todo)) = Len(local[t].todo) - 1
      BY <1>1, <2>2
    <3>2. Len(found.parts) = Len(local[t].found.parts) + 1
      BY <2>2, <2>4
    <3>3. Len(local[t].found.parts) \in Nat /\ Len(local[t].todo) \in Nat
      BY <2>2
    <3>4. \A i \in 1..Len(found.parts) : found.parts[i] = run
      <4> DEFINE parts == local[t].found.parts
      <4>1. parts \in Seq(Writers) /\ \A i \in 1..Len(parts) : parts[i] = run
        BY <2>1, <2>2
      <4> HIDE DEF parts, run
      <4>2. \A i \in 1..Len(Append(parts, run)) : Append(parts, run)[i] = run
        BY <4>1
      <4> QED BY <2>4, <4>2 DEF parts
    <3>5. Tail(local[t].todo) \in Seq(KernelSet)
      BY <1>1, <2>2
    <3>6. Len(local[t].found.parts) + Len(local[t].todo) = Len(KernelFiles)
      BY <2>1
    <3>7. Len(found.parts) + Len(Tail(local[t].todo)) = Len(KernelFiles)
      <4>1. \A a, b \in Nat : (a + 1) + (b - 1) = a + b
        OBVIOUS
      <4>2. (Len(local[t].found.parts) + 1) + (Len(local[t].todo) - 1)
              = Len(local[t].found.parts) + Len(local[t].todo)
        BY <3>3, <4>1, Zenon
      <4> QED BY <3>1, <3>2, <3>6, <4>2, Zenon
    <3> QED BY <3>4, <3>5, <3>7
  <2>6. local' = [local EXCEPT ![t] = l] /\ pc' = [pc EXCEPT ![t] = "kernels"]
    BY <1>1, <1>3, ThreadFacts
  <2> HIDE DEF found, f, run
  <2>7. /\ l \in Locals /\ l.found = found /\ l.named = local[t].named
        /\ l.todo = Tail(local[t].todo)
    <3>1. found \in Artifacts /\ Tail(local[t].todo) \in Seq(KernelSet)
      BY <2>4, <2>5
    <3> DEFINE rest == Tail(local[t].todo)
    <3>2. l = [local[t] EXCEPT !.found = found, !.todo = rest]
      OBVIOUS
    <3> HIDE DEF rest, l
    <3>3. rest \in Seq(KernelSet)
      BY <3>1 DEF rest
    <3>4. l \in Locals /\ l.found = found /\ l.named = local[t].named /\ l.todo = rest
      BY <3>1, <3>2, <3>3, ThreadFacts DEF Locals
    <3> QED BY <3>4 DEF rest
  <2>8. local'[t] = l /\ pc'[t] = "kernels"
    BY <2>6, ThreadFacts
  <2>9. "kernels" \in ThreadSteps /\ "kernels" \in Loading
    BY DEF ThreadSteps, Loading
  <2> HIDE DEF l
  <2>10. Reads(t)' /\ Serves(t)'
    <3>1. /\ Len(l.found.parts) + Len(l.todo) = Len(KernelFiles)
          /\ \A i \in 1..Len(l.found.parts) : l.found.parts[i] = l.found.run
      BY <2>4, <2>5, <2>7
    <3>2. l.named # Unset /\ l.found.dir = l.named /\ l.found.run \in Writers
      BY <2>1, <2>4, <2>7
    <3> QED BY <2>8, <3>1, <3>2, Kernels
  <2> QED BY <1>1, <1>3, <2>6, <2>7, <2>9, <2>10, OwnStep
<1> QED BY <1>2, <1>3 DEF ReadKernel

\* All kernels are read when nothing is left to do: what is published is whole.
LEMMA LoadRuntimeStep ==
  ASSUME FilesInv, ProcessInv, NEW t \in Threads, LoadRuntime(t) PROVE ProcessInv'
<1> DEFINE found == local[t].found
<1>1. /\ pc[t] = "kernels" /\ local[t].todo = <<>>
      /\ UNCHANGED <<build, environ, slot, launcher, memo, calls>>
  BY DEF LoadRuntime, runs
<1>2. /\ found.run \in Writers /\ local[t].named # Unset
      /\ found.dir = local[t].named
      /\ Len(found.parts) = Len(KernelFiles)
      /\ \A i \in 1..Len(found.parts) : found.parts[i] = found.run
      /\ found.parts \in Seq(Writers)
  <2>1. found.parts \in Seq(Writers) /\ Len(<<>>) = 0
    BY ThreadFacts DEF Locals, Artifacts
  <2>2. /\ found.run \in Writers /\ local[t].named # Unset
        /\ found.dir = local[t].named
        /\ Len(found.parts) + Len(local[t].todo) = Len(KernelFiles)
        /\ \A i \in 1..Len(found.parts) : found.parts[i] = found.run
    BY <1>1, ThreadFacts DEF Reads, Loading
  <2> HIDE DEF found
  <2>3. Len(found.parts) \in Nat /\ Len(local[t].todo) = 0
    BY <1>1, <2>1
  <2> QED BY <2>1, <2>2, <2>3
<1>3. found.parts = [i \in DOMAIN KernelFiles |-> found.run]
  <2>1. DOMAIN KernelFiles = 1..Len(KernelFiles)
    BY KernelFilesAssumption DEF KernelSet
  <2> HIDE DEF found
  <2> QED BY <1>2, <2>1
<1>4. Verified(t, "runtime") => Here(t).files["runtime"] = found.run
  BY DEF Verified
<1>5. CASE Raise(t) /\ UNCHANGED libraries
  BY <1>1, <1>5, ThreadFacts, RaiseStep
<1>6. CASE /\ Raise(t) /\ Verified(t, "runtime")
           /\ libraries' = libraries \cup {Here(t).files["runtime"]}
  <2>1. libraries \subseteq libraries' /\ libraries' \subseteq Writers
    BY <1>2, <1>4, <1>6, ThreadFacts
  <2> QED BY <1>1, <1>6, <2>1, RaiseStep
<1>7. CASE /\ Verified(t, "runtime") /\ Goto(t, "publish") /\ UNCHANGED <<lock, local>>
           /\ libraries' = libraries \cup {Here(t).files["runtime"]}
  <2>1. libraries' = libraries \cup {found.run} /\ libraries' \subseteq Writers
    BY <1>2, <1>4, <1>7, ThreadFacts
  <2>2. /\ local' = local /\ local' = [local EXCEPT ![t] = local[t]]
        /\ pc' = [pc EXCEPT ![t] = "publish"] /\ pc'[t] = "publish"
        /\ local[t] \in Locals
    BY <1>7, ThreadFacts DEF Goto
  <2>3. "publish" \in ThreadSteps /\ {"kernels", "publish"} \subseteq Loading
    BY DEF ThreadSteps, Loading
  <2>4. Whole(found)'
    BY <1>3, <2>1, <2>2 DEF Whole
  <2>5. Reads(t)' /\ Serves(t)'
    BY <1>2, <2>2, <2>4 DEF Reads, Serves
  <2> QED BY <1>1, <1>7, <2>1, <2>2, <2>3, <2>5, ThreadFacts, ThreadStep
<1> QED BY <1>5, <1>6, <1>7 DEF LoadRuntime

\* What was loaded takes the slot, and the lock is given back.
LEMMA PublishStep == ASSUME ProcessInv, NEW t \in Threads, Publish(t) PROVE ProcessInv'
<1>1. /\ pc[t] = "publish" /\ slot' = local[t].found /\ lock' = "none"
      /\ pc' = [pc EXCEPT ![t] = "use"] /\ UNCHANGED local
      /\ UNCHANGED <<build, environ, libraries, launcher, memo, calls>>
  BY DEF Publish, Goto, runs
<1>2. "publish" \in Loading /\ "use" \in ThreadSteps /\ "use" \notin Loading
  BY DEF Loading, ThreadSteps
<1>3. /\ Whole(local[t].found) /\ local[t].named # Unset /\ lock = t
      /\ local[t].found.dir = local[t].named
  BY <1>1, <1>2, ThreadFacts DEF Reads
<1>4. /\ slot' \in Artifacts /\ slot'.dir # Unset /\ pc'[t] = "use"
      /\ local' = [local EXCEPT ![t] = local[t]]
  BY <1>1, <1>3, ThreadFacts DEF Locals
<1>5. Whole(slot)' /\ Reads(t)' /\ Serves(t)'
  BY <1>1, <1>2, <1>3, <1>4 DEF Whole, Reads, Serves
<1>6. lock' = IF lock = t THEN "none" ELSE lock
  BY <1>1, <1>3
<1> QED BY <1>1, <1>2, <1>4, <1>5, <1>6, ThreadFacts, ThreadStep

\* A call goes on to ask selected() again, or looks the kernel up.
LEMMA ContinueStep ==
  ASSUME ProcessInv, NEW t \in Threads, pc[t] = "use",
         local[t].use \in {"limits", "admit", "native"},
         NEW value, NEW field \in {"limits", "key"},
         field = "limits" => value \in LimitValues,
         field = "key" => value \in Writers \cup {Native},
         Continue(t, field, value),
         UNCHANGED <<build, environ, slot, libraries, launcher, memo, calls>>
  PROVE  ProcessInv'
<1> DEFINE use == Next4[local[t].use]
           step == IF local[t].use = "native" THEN "memo" ELSE "select"
           l == [local[t] EXCEPT ![field] = value, !.named = Unset, !.found = None,
                                 !.use = use]
<1>1. /\ local' = [local EXCEPT ![t] = l] /\ pc' = [pc EXCEPT ![t] = step]
      /\ UNCHANGED lock
  BY ThreadFacts DEF Continue, Goto
<1>2. use \in {"admit", "native", "memo"}
  BY DEF Next4
<1>3. use \in {"none", "limits", "admit", "native", "memo", "build"}
  BY <1>2
<1> HIDE DEF use
<1>4. l \in Locals
  <2>1. CASE field = "limits"
    BY <1>3, <2>1, ThreadFacts, NoLocalFacts DEF Locals
  <2>2. CASE field = "key"
    BY <1>3, <2>2, ThreadFacts, NoLocalFacts DEF Locals
  <2> QED BY <2>1, <2>2
<1>5. pc'[t] = step /\ step \in {"memo", "select"}
  BY <1>1, ThreadFacts
<1>6. /\ step \in ThreadSteps /\ step \notin Loading /\ "use" \notin Loading
  BY <1>5 DEF ThreadSteps, Loading
<1>7. Reads(t)' /\ Serves(t)'
  BY <1>5 DEF Reads, Serves, Loading
<1> HIDE DEF l, step
<1> QED BY <1>1, <1>4, <1>6, <1>7, OwnStep

\* The planning limits come from the artifact that is selected.
LEMMA PlanningLimitsStep ==
  ASSUME FilesInv, ProcessInv, NEW t \in Threads, PlanningLimits(t) PROVE ProcessInv'
<1>1. /\ pc[t] = "use" /\ local[t].use = "limits"
      /\ Continue(t, "limits", Limits(local[t].found))
      /\ UNCHANGED <<build, environ, slot, libraries, launcher, memo, calls>>
  BY DEF PlanningLimits, Using, runs
<1>2. Limits(local[t].found) \in LimitValues
  <2>1. CASE local[t].found = None
    BY <2>1 DEF Limits, LimitValues
  <2>2. CASE local[t].found # None
    <3>1. local[t].found.run \in Writers
      BY <1>1, <2>2, ThreadFacts DEF Reads, Whole
    <3> QED BY <2>2, <3>1 DEF Limits, LimitValues, FilesInv, FilesType
  <2> QED BY <2>1, <2>2
<1> QED BY <1>1, <1>2, ContinueStep

\* The build host answered for this text under these limits, or the call raises.
LEMMA AdmitStep == ASSUME ProcessInv, NEW t \in Threads, Admit(t) PROVE ProcessInv'
<1>1. /\ pc[t] = "use" /\ local[t].use = "admit" /\ local[t].limits \in LimitValues
      /\ UNCHANGED <<build, environ, slot, libraries, launcher, memo, calls>>
  BY ThreadFacts DEF Admit, Using, runs, Locals
<1>2. CASE Raise(t)
  BY <1>1, <1>2, ThreadFacts, RaiseStep
<1>3. CASE Continue(t, "limits", local[t].limits)
  BY <1>1, <1>3, ContinueStep
<1> QED BY <1>2, <1>3 DEF Admit

\* The kernel is named by the compile function of the selected artifact.
LEMMA NativeSwageStep ==
  ASSUME ProcessInv, NEW t \in Threads, NativeSwage(t) PROVE ProcessInv'
<1>1. /\ pc[t] = "use" /\ local[t].use = "native"
      /\ local[t].found.run \in Writers \cup {Native}
      /\ Continue(t, "key", local[t].found.run)
      /\ UNCHANGED <<build, environ, slot, libraries, launcher, memo, calls>>
  BY ThreadFacts DEF NativeSwage, Using, runs, Locals, Artifacts
<1> QED BY <1>1, ContinueStep

\* _compile_once serves what it remembers under the name, or builds.
LEMMA LookUpStep == ASSUME ProcessInv, NEW t \in Threads, LookUp(t) PROVE ProcessInv'
<1>1. /\ pc[t] = "memo"
      /\ UNCHANGED <<build, environ, slot, lock, libraries, launcher, memo, calls>>
  BY DEF LookUp, runs
<1>2. "memo" \notin Loading /\ {"served", "select"} \subseteq ThreadSteps \ Loading
  BY DEF Loading, ThreadSteps
<1>3. CASE Key(t) \in DOMAIN memo /\ End(t, memo[Key(t)])
  <2> DEFINE kernel == memo[Key(t)]
             l == [local[t] EXCEPT !.served = kernel]
  <2>1. kernel \in Writers \cup {Native} /\ Fits(kernel, local[t].target)
    BY <1>3, ThreadFacts DEF Key
  <2>2. local' = [local EXCEPT ![t] = l] /\ pc' = [pc EXCEPT ![t] = "served"]
    BY <1>3, ThreadFacts DEF End, Let, Goto
  <2> HIDE DEF kernel
  <2>3. l \in Locals /\ l.served = kernel /\ l.target = local[t].target
    BY <2>1, ThreadFacts DEF Locals
  <2>4. pc'[t] = "served" /\ local'[t] = l
    BY <2>2, ThreadFacts
  <2> HIDE DEF l
  <2>5. Reads(t)' /\ Serves(t)'
    BY <1>1, <2>1, <2>3, <2>4 DEF Reads, Serves, Loading, Fits
  <2> QED BY <1>1, <1>2, <2>2, <2>3, <2>5, OwnStep
<1>4. CASE Let(t, "use", "build") /\ Goto(t, "select")
  <2> DEFINE l == [local[t] EXCEPT !.use = "build"]
  <2>1. local' = [local EXCEPT ![t] = l] /\ pc' = [pc EXCEPT ![t] = "select"]
    BY <1>4, ThreadFacts DEF Let, Goto
  <2>2. l \in Locals
    BY ThreadFacts DEF Locals
  <2>3. pc'[t] = "select"
    BY <2>1, ThreadFacts
  <2> HIDE DEF l
  <2>4. Reads(t)' /\ Serves(t)'
    BY <2>3 DEF Reads, Serves, Loading
  <2> QED BY <1>1, <1>2, <2>1, <2>2, <2>4, OwnStep
<1> QED BY <1>3, <1>4 DEF LookUp

\* Every part of a whole artifact is its run, the kernel it serves too.
LEMMA BuildStep == ASSUME ProcessInv, NEW t \in Threads, Build(t) PROVE ProcessInv'
<1> DEFINE found == local[t].found
           kernel == IF found = None THEN Native ELSE Head(found.parts)
           l == [local[t] EXCEPT !.served = kernel]
<1>1. /\ pc[t] = "use" /\ UNCHANGED <<build, environ, slot, libraries, calls>>
  BY DEF Build, Using, runs
<1>2. CASE Raise(t) /\ UNCHANGED <<launcher, memo>>
  BY <1>1, <1>2, ThreadFacts, RaiseStep
<1>3. CASE /\ Holds(found, local[t].target) \/ (found = None /\ local[t].key = Native)
           /\ memo' = [k \in DOMAIN memo \cup {Key(t)} |->
                         IF k = Key(t) THEN kernel ELSE memo[k]]
           /\ launcher' = IF found # None /\ launcher = Unset
                            THEN found.run ELSE launcher
           /\ End(t, kernel) /\ UNCHANGED lock
  <2>1. found # None => found.run \in libraries /\ found.run \in Writers
                        /\ Head(found.parts) = found.run
    <3> SUFFICES ASSUME found # None
                 PROVE  found.run \in libraries /\ found.run \in Writers
                        /\ Head(found.parts) = found.run
      OBVIOUS
    <3>1. found.run \in libraries /\ found.parts = [i \in DOMAIN KernelFiles |-> found.run]
      BY <1>1, ThreadFacts DEF Reads, Whole
    <3>2. 1 \in DOMAIN KernelFiles
      BY KernelFilesAssumption
    <3>3. found.parts[1] = found.run
      BY <3>1, <3>2
    <3>4. Head(found.parts) = found.parts[1]
      BY DEF Head
    <3> QED BY <3>1, <3>3, <3>4, ThreadFacts
  <2>2. kernel \in Writers \cup {Native} /\ Fits(kernel, local[t].target)
    BY <1>3, <2>1 DEF Holds, Fits
  <2>3. /\ launcher' \in Writers \cup {Unset}
        /\ launcher' # launcher => launcher' \in libraries
    BY <1>3, <2>1, ThreadFacts
  <2>4. local' = [local EXCEPT ![t] = l] /\ pc' = [pc EXCEPT ![t] = "served"]
    BY <1>3, ThreadFacts DEF End, Let, Goto
  <2> HIDE DEF kernel
  <2>5. l \in Locals /\ l.served = kernel /\ l.target = local[t].target
    BY <2>2, ThreadFacts DEF Locals
  <2>6. pc'[t] = "served" /\ local'[t] = l
    BY <2>4, ThreadFacts
  <2>7. Key(t)[2] = local[t].target
    BY DEF Key
  <2>8. \A k \in DOMAIN memo' :
          memo'[k] \in Writers \cup {Native} /\ Fits(memo'[k], k[2])
    BY <1>3, <2>2, <2>7, ThreadFacts
  <2>9. "served" \in ThreadSteps /\ {"use", "served"} \cap Loading = {}
    BY DEF ThreadSteps, Loading
  <2> HIDE DEF l
  <2>10. Reads(t)' /\ Serves(t)'
    BY <1>1, <2>2, <2>5, <2>6 DEF Reads, Serves, Loading, Fits
  <2>11. lock' = IF lock = t THEN "none" ELSE lock
    BY <1>1, <1>3, <2>9, ThreadFacts
  <2> QED BY <1>1, <2>3, <2>4, <2>5, <2>8, <2>9, <2>10, <2>11, ThreadFacts, ThreadStep
<1> QED BY <1>2, <1>3 DEF Build

\* The call ends, and its thread keeps nothing of it.
LEMMA ReturnStep == ASSUME ProcessInv, NEW t \in Threads, Return(t) PROVE ProcessInv'
<1>1. /\ pc[t] = "served" /\ local' = [local EXCEPT ![t] = NoLocal]
      /\ pc' = [pc EXCEPT ![t] = "idle"]
      /\ UNCHANGED <<build, environ, slot, lock, libraries, launcher, memo, calls>>
  BY DEF Return, Goto, runs
<1>2. "idle" \in ThreadSteps /\ {"idle", "served"} \cap Loading = {} /\ pc'[t] = "idle"
  BY <1>1, ThreadFacts DEF ThreadSteps, Loading
<1>3. Reads(t)' /\ Serves(t)'
  BY <1>2 DEF Reads, Serves, Loading
<1> QED BY <1>1, <1>2, <1>3, NoLocalFacts, OwnStep

\* A step that leaves the process alone but for the variable it reads.
LEMMA ProcessUnchanged ==
  ASSUME ProcessInv, environ' \in Dirs \cup {Unset},
         UNCHANGED <<build, slot, lock, pc, local, libraries, launcher, memo, calls>>
  PROVE  ProcessInv'
<1>1. ProcessType'
  BY DEF ProcessInv, ProcessType
<1>2. LoadLock'
  BY DEF ProcessInv, LoadLock
<1>3. LoadInv'
  BY DEF ProcessInv, LoadInv, Reads, Whole
<1>4. ServeInv'
  BY DEF ProcessInv, ServeInv, Serves, Fits
<1> QED BY <1>1, <1>2, <1>3, <1>4 DEF ProcessInv

\* Every step keeps what is known of the threads, the selection and the lock.
LEMMA ProcessStep == ASSUME FilesInv, ProcessInv, [Next]_vars PROVE ProcessInv'
<1>1. ASSUME NEW t \in Threads, Load(t) PROVE ProcessInv'
  BY <1>1, SelectStep, LockStep, CheckDirectoryStep, ReadManifestStep, ReadKernelStep,
     LoadRuntimeStep, PublishStep DEF Load
<1>2. ASSUME NEW t \in Threads, Serve(t) PROVE ProcessInv'
  BY <1>2, PlanningLimitsStep, AdmitStep, NativeSwageStep, LookUpStep, BuildStep,
     ReturnStep DEF Serve
<1>3. ASSUME NEW t \in Threads, NEW target \in Targets, Call(t, target)
      PROVE  ProcessInv'
  BY <1>3, CallStep
<1>4. ASSUME NEW e \in Dirs \cup {Unset}, SetVariable(e) PROVE ProcessInv'
  <2>1. /\ environ' = e
        /\ UNCHANGED <<build, slot, lock, pc, local, libraries, launcher, memo, calls>>
    BY <1>4 DEF SetVariable, runs
  <2> QED BY <2>1, ProcessUnchanged
<1>5. CASE \/ UNCHANGED vars \/ \E w \in Writers : Write(w)
           \/ \E d \in Dirs : RemoveDirectory(d) \/ MakeEmpty(d) \/ OpenUp(d)
           \/ \E d \in Dirs, f \in Files : Damage(d, f)
  <2>1. UNCHANGED <<build, process>>
    BY <1>5 DEF Write, CompilePrograms, Stage, WriteFile, Rename, Kill, RemoveDirectory,
                MakeEmpty, OpenUp, Damage, Edit, vars, process, runs
  <2>2. environ' \in Dirs \cup {Unset}
    BY <2>1 DEF process, ProcessInv, ProcessType
  <2> QED BY <2>1, <2>2, ProcessUnchanged DEF process
<1> QED BY <1>1, <1>2, <1>3, <1>4, <1>5 DEF Next

-------------------------------------------------------------------------------
(* The invariant, and what it says. *)

IInv == FilesInv /\ ProcessInv

\* At first no run has written anything.
LEMMA InitFiles == Init => FilesInv
<1> SUFFICES ASSUME Init PROVE FilesInv
  OBVIOUS
<1>1. /\ fs = [p \in Dirs \cup Writers |-> Absent] /\ build \in Builds
      /\ wpc = [w \in Writers |-> "begin"] /\ dest \in [Writers -> Dirs]
      /\ edited = {} /\ edits = 0
  BY DEF Init
<1>2. FilesType
  BY <1>1, AbsentType, NamesAssumption DEF FilesType, WriterSteps
<1>3. StageInv
  BY <1>1 DEF StageInv
<1>4. OutputInv
  BY <1>1, AbsentType DEF OutputInv
<1>5. PublishedInv
  BY <1>1 DEF PublishedInv, Absent
<1> QED BY <1>2, <1>3, <1>4, <1>5 DEF FilesInv

\* At first nothing is selected, loaded or called.
LEMMA InitProcess == Init => ProcessInv
<1> SUFFICES ASSUME Init PROVE ProcessInv
  OBVIOUS
<1>1. /\ environ \in Dirs /\ slot = None /\ lock = "none"
      /\ pc = [t \in Threads |-> "idle"] /\ local = [t \in Threads |-> NoLocal]
      /\ libraries = {} /\ launcher = Unset /\ memo = <<>> /\ calls = 0
  BY DEF Init
<1>2. ProcessType
  BY <1>1, NoLocalFacts, NamesAssumption DEF ProcessType, ThreadSteps
<1>3. LoadLock
  BY <1>1, NamesAssumption DEF LoadLock, Loading
<1>4. LoadInv
  BY <1>1 DEF LoadInv, Reads, Loading
<1>5. ServeInv
  BY <1>1 DEF ServeInv, Serves
<1> QED BY <1>2, <1>3, <1>4, <1>5 DEF ProcessInv

\* The inductive invariant holds in every state of every behaviour.
THEOREM Invariance == Spec => []IInv
<1>1. Init => IInv
  BY InitFiles, InitProcess DEF IInv
<1>2. IInv /\ [Next]_vars => IInv'
  BY FilesStep, ProcessStep DEF IInv
<1> QED BY <1>1, <1>2, PTL DEF Spec

\* Type correctness, and that the one holder of _compile_lock is the thread that
\* loads an artifact (selected(), _artifact.py).
THEOREM TypeCorrect == Spec => []TypeOK
<1>1. IInv => TypeOK
  <2> SUFFICES ASSUME IInv PROVE TypeOK
    OBVIOUS
  <2>1. \A p \in DOMAIN fs :
          /\ fs[p].made \in BOOLEAN /\ fs[p].open \in BOOLEAN
          /\ DOMAIN fs[p].files \subseteq Files
          /\ \A f \in DOMAIN fs[p].files : fs[p].files[f] \in Contents
    <3> TAKE p \in DOMAIN fs
    <3>1. fs[p] \in Directories
      BY DEF IInv, FilesInv, FilesType
    <3> QED BY <3>1, DirectoryFacts
  <2>2. /\ edited \subseteq Dirs /\ edits \in 0..MaxEdits
    BY DEF IInv, FilesInv, FilesType
  <2> QED BY <2>1, <2>2 DEF TypeOK, IInv, ProcessInv, ProcessType, LoadLock, Loading
<1> QED BY <1>1, Invariance, PTL

\* For every number of runs, directories and kernels: a directory under an output
\* name that the user has not edited holds every file of one run
\* (_write_artifact, compile.py).
THEOREM ReaderSeesWhole == Spec => []PublishedWhole
<1>1. IInv => PublishedWhole
  BY DEF IInv, FilesInv, PublishedInv, WholeRun, PublishedWhole
<1> QED BY <1>1, Invariance, PTL

\* A failed or killed run leaves no file under an output name, a failed one no
\* staging directory either, wherever it failed (_write_artifact, compile.py).
THEOREM FailureLeavesNothing == Spec => []FailedRunLeavesNothing
<1>1. IInv => FailedRunLeavesNothing
  <2> SUFFICES ASSUME IInv, NEW w \in Writers
               PROVE  /\ wpc[w] = "failed" => ~fs[w].made
                      /\ wpc[w] \in {"failed", "killed"} =>
                           \A d \in Dirs : \A f \in DOMAIN fs[d].files :
                             fs[d].files[f] # w
    BY DEF FailedRunLeavesNothing
  <2>1. wpc[w] = "failed" => ~fs[w].made
    BY DEF IInv, FilesInv, StageInv, Absent
  <2>2. w # Damaged
    BY NamesAssumption
  <2>3. ASSUME NEW d \in Dirs, NEW f \in DOMAIN fs[d].files, fs[d].files[f] = w
        PROVE  wpc[w] = "done"
    BY <2>2, <2>3 DEF IInv, FilesInv, OutputInv
  <2> QED BY <2>1, <2>3
<1> QED BY <1>1, Invariance, PTL

\* What the process loads, holds in its slot and launches with is one run of one
\* directory, however many threads load and whatever happens to the directory
\* between two reads (selected(), _load).
THEOREM OneRun == Spec => []ArtifactIsOneRun
<1>1. IInv => ArtifactIsOneRun
  BY DEF IInv, ProcessInv, LoadInv, Reads, Whole, ArtifactIsOneRun
<1> QED BY <1>1, Invariance, PTL

\* A call is served a kernel of the program text of this swage and of the
\* processor of its device, from an artifact or from the memo, although it asks
\* selected() again and again (_compile_once, kernel()).
THEOREM ServedFits == Spec => []ServedKernelFits
<1>1. IInv => ServedKernelFits
  BY DEF IInv, ProcessInv, ServeInv, Serves, Fits, ServedKernelFits
<1> QED BY <1>1, Invariance, PTL
===============================================================================
