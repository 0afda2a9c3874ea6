------------------------------- MODULE Artifact --------------------------------
(***************************************************************************)
(* Artifact directories: runs of python -m swage.compile that write them   *)
(* (compile.py), the user who removes, damages or opens them up, and one   *)
(* process whose threads load the directory that SWAGE_ARTIFACT_DIR names  *)
(* and take kernels from it (_artifact.py, and the calls of selected() in  *)
(* the segmented runner).                                                  *)
(*                                                                         *)
(* A file is the run that wrote it, or Damaged, which also stands for one  *)
(* that accounts other than its owner can write: the SHA-256 a manifest    *)
(* states holds for exactly the files of its own run.  What the runs were  *)
(* built from is a member of Builds, the "flaw" of a run the first check   *)
(* that the writer or a loader of this swage refuses it for.               *)
(***************************************************************************)
EXTENDS Naturals, Sequences, SequencesExt, FiniteSets

CONSTANTS
    Writers,      \* runs of python -m swage.compile
    Threads,      \* threads of the loading process
    Dirs,         \* directories that --output and the variable can name
    KernelFiles,  \* the kernel files of an artifact, in manifest order
    Builds,       \* bound: what the runs are built from, [Writers -> ...]
    OwnText,      \* the program text of the loading swage
    OwnLimits,    \* the planning limits of the native bindings
    Targets,      \* processors of the devices of the loading process
    MaxEdits,     \* bound: edits of the user, of files and of the variable
    MaxCalls      \* bound: segmented calls of the process

Unset == "unset"
Native == "native"
Damaged == "damaged"
None == [dir |-> Unset, run |-> Native, parts |-> <<>>]

\* Checks of the writer, of the manifest, and of the runtime library.
WriterFlaws == {"frontend", "contract"}
ManifestFlaws == {"format", "width", "program"}
KernelFlaws == {"arguments", "kernel missing"}
LibraryFlaws == {"machine", "abi", "glibc", "reported abi"}

ASSUME BuildsAreBuilds ==
    \A b \in Builds : \A w \in Writers :
        /\ {"text", "target", "limits", "flaw"} = DOMAIN b[w]
        /\ b[w].flaw \in {"none"} \cup WriterFlaws \cup ManifestFlaws
                          \cup KernelFlaws \cup LibraryFlaws

\* An artifact has kernels, each in a file of its own.
ASSUME KernelFilesAssumption ==
    /\ KernelFiles # <<>> /\ KernelFiles \in Seq(ToSet(KernelFiles))
    /\ \A i, j \in DOMAIN KernelFiles : KernelFiles[i] = KernelFiles[j] => i = j
    /\ {"runtime", "manifest"} \cap ToSet(KernelFiles) = {}

ASSUME NamesAssumption ==
    /\ Writers \cap Dirs = {} /\ {Unset, Native, Damaged} \cap Writers = {}
    /\ Unset \notin Dirs /\ "none" \notin Threads \cup Writers
    /\ MaxEdits \in Nat /\ MaxCalls \in Nat

VARIABLES
    fs,        \* fs[p]: directory p; the staging directory of run w is fs[w]
    build,     \* build[w]: what run w is built from
    wpc, dest, \* step of each run, and its --output
    edited,    \* directories whose files the user has edited
    edits,     \* edits so far
    environ,   \* SWAGE_ARTIFACT_DIR of the loading process
    slot,      \* _selected
    lock,      \* the holder of _compile_lock, or none
    pc,        \* step of each thread
    local,     \* local[t]: what the call of thread t has read
    libraries, \* runtime libraries loaded into the process
    launcher,  \* the artifact whose library launches, of a driver without bindings
    memo,      \* _ptx_memo
    calls      \* calls so far

files == <<fs, edited, edits>>
runs == <<build, wpc, dest>>
process == <<environ, slot, lock, pc, local, libraries, launcher, memo, calls>>
vars == <<fs, build, wpc, dest, edited, edits, environ, slot, lock, pc, local,
          libraries, launcher, memo, calls>>

KernelSet == ToSet(KernelFiles)
Files == KernelSet \cup {"runtime", "manifest"}
Contents == Writers \cup {Damaged}
Absent == [made |-> FALSE, open |-> FALSE, files |-> <<>>]
NoLocal == [use |-> "none", target |-> "none", named |-> Unset, found |-> None,
            todo |-> <<>>, limits |-> OwnLimits, key |-> Native,
            served |-> "none"]

Init ==
    /\ fs = [p \in Dirs \cup Writers |-> Absent]
    /\ build \in Builds
    /\ wpc = [w \in Writers |-> "begin"] /\ dest \in [Writers -> Dirs]
    /\ edited = {} /\ edits = 0
    /\ environ \in Dirs
    /\ slot = None /\ lock = "none"
    /\ pc = [t \in Threads |-> "idle"] /\ local = [t \in Threads |-> NoLocal]
    /\ libraries = {} /\ launcher = Unset /\ memo = <<>> /\ calls = 0

-------------------------------------------------------------------------------
\* A run of python -m swage.compile.
GotoW(w, step) == wpc' = [wpc EXCEPT ![w] = step]
WriteOrder == <<"runtime">> \o KernelFiles \o <<"manifest">>

\* Everything before the first file: the run ends if the output exists, the
\* bindings were not built beside this frontend, an input is missing, the
\* compiler refuses, or a kernel does not fit the table of the loader.
Compiles(w) == build[w].flaw \notin WriterFlaws

CompilePrograms(w) ==
    /\ wpc[w] = "begin"
    /\ \/ ~fs[dest[w]].made /\ Compiles(w) /\ GotoW(w, "stage")
       \/ GotoW(w, "failed")
    /\ UNCHANGED <<build, dest, files, process>>

Stage(w) ==
    /\ wpc[w] = "stage"
    /\ \/ GotoW(w, "write") /\ fs' = [fs EXCEPT ![w].made = TRUE]
       \/ GotoW(w, "failed") /\ UNCHANGED fs
    /\ UNCHANGED <<build, dest, edited, edits, process>>

\* rmtree of the staging directory, after any error behind mkdtemp.
LeaveStage(w) == fs' = fs /\ GotoW(w, "failed")
Abandon(w) == fs' = [fs EXCEPT ![w] = Absent] /\ GotoW(w, "failed")

NextFile(w) == WriteOrder[Cardinality(DOMAIN fs[w].files) + 1]
Complete(w) == DOMAIN fs[w].files = Files
Put(d, f, content) ==
    [d EXCEPT !.files = [g \in DOMAIN @ \cup {f} |-> IF g = f THEN content ELSE @[g]]]

WriteFile(w) ==
    /\ wpc[w] = "write" /\ ~Complete(w)
    /\ \/ fs' = [fs EXCEPT ![w] = Put(@, NextFile(w), w)] /\ UNCHANGED wpc
       \/ Abandon(w)
    /\ UNCHANGED <<build, dest, edited, edits, process>>

\* os.rename of a directory: onto nothing or onto an empty directory.
CanRename(d) == ~fs[d].made \/ DOMAIN fs[d].files = {}

RenameEarly(w) ==
    /\ wpc[w] = "write" /\ DOMAIN fs[w].files # {}
    /\ IF CanRename(dest[w])
       THEN /\ fs' = [fs EXCEPT ![dest[w]] = fs[w], ![w] = Absent]
            /\ edited' = edited \ {dest[w]} /\ GotoW(w, "done")
       ELSE Abandon(w) /\ UNCHANGED edited
    /\ UNCHANGED <<build, dest, edits, process>>

\* chmod and rename, the last statements that can fail.
Rename(w) ==
    /\ wpc[w] = "write" /\ Complete(w)
    /\ \/ /\ CanRename(dest[w])
          /\ fs' = [fs EXCEPT ![dest[w]] = fs[w], ![w] = Absent]
          /\ edited' = edited \ {dest[w]} /\ GotoW(w, "done")
       \/ Abandon(w) /\ UNCHANGED edited
    /\ UNCHANGED <<build, dest, edits, process>>

\* The run is killed; its staging directory stays.
Kill(w) ==
    /\ wpc[w] = "write"
    /\ GotoW(w, "killed")
    /\ UNCHANGED <<build, dest, files, process>>

-------------------------------------------------------------------------------
\* The user removes a directory, makes an empty one, damages a file, makes the
\* directory writable for others, or names another directory.
Edit(d, directory) ==
    /\ edits < MaxEdits
    /\ fs' = [fs EXCEPT ![d] = directory]
    /\ edited' = IF directory = Absent THEN edited \ {d} ELSE edited \cup {d}
    /\ edits' = edits + 1
    /\ UNCHANGED <<runs, process>>
RemoveDirectory(d) == fs[d].made /\ Edit(d, Absent)
MakeEmpty(d) == ~fs[d].made /\ Edit(d, [Absent EXCEPT !.made = TRUE])
Damage(d, f) == f \in DOMAIN fs[d].files /\ Edit(d, Put(fs[d], f, Damaged))
OpenUp(d) == fs[d].made /\ Edit(d, [fs[d] EXCEPT !.open = TRUE])
SetVariable(e) ==
    /\ edits < MaxEdits /\ environ # e
    /\ environ' = e /\ edits' = edits + 1
    /\ UNCHANGED <<fs, edited, runs, slot, lock, pc, local, libraries, launcher, memo, calls>>

-------------------------------------------------------------------------------
\* A segmented call of thread t on a device with the given processor.
Goto(t, step) == pc' = [pc EXCEPT ![t] = step]
Let(t, field, value) == local' = [local EXCEPT ![t][field] = value]

Call(t, target) ==
    /\ pc[t] = "idle" /\ calls < MaxCalls
    /\ calls' = calls + 1
    /\ local' = [local EXCEPT ![t] = [NoLocal EXCEPT !.use = "limits",
                                                     !.target = target]]
    /\ Goto(t, "select")
    /\ UNCHANGED <<files, runs, environ, slot, lock, libraries, launcher, memo>>

\* selected(): the variable is read at every call of it; the one slot answers
\* without the lock.
Select(t) ==
    /\ pc[t] = "select"
    /\ LET found == IF environ = Unset THEN None ELSE slot
           hit == environ = found.dir
       IN /\ local' = [local EXCEPT ![t].named = environ,
                                    ![t].found = IF hit THEN found ELSE None]
          /\ Goto(t, IF hit THEN "use" ELSE "lock")
    /\ UNCHANGED <<files, runs, environ, slot, lock, libraries, launcher, memo, calls>>

\* with _compile_lock: another thread may have loaded the directory meanwhile.
Lock(t) ==
    /\ pc[t] = "lock" /\ lock = "none"
    /\ IF slot.dir = local[t].named
       THEN Let(t, "found", slot) /\ Goto(t, "use") /\ UNCHANGED lock
       ELSE lock' = t /\ Goto(t, "directory") /\ UNCHANGED local
    /\ UNCHANGED <<files, runs, environ, slot, libraries, launcher, memo, calls>>

\* A check that fails: the lock is given back, the call raises, the slot stays.
RaiseWithLock(t) ==
    /\ Goto(t, "idle") /\ UNCHANGED lock
    /\ local' = [local EXCEPT ![t] = NoLocal]

Raise(t) ==
    /\ lock' = (IF lock = t THEN "none" ELSE lock) /\ Goto(t, "idle")
    /\ local' = [local EXCEPT ![t] = NoLocal]

Here(t) == fs[local[t].named]
Listed(t, f) == f \in DOMAIN Here(t).files

CheckDirectory(t) ==
    /\ pc[t] = "directory"
    /\ IF Here(t).made /\ ~Here(t).open
       THEN Goto(t, "manifest") /\ UNCHANGED <<lock, local>>
       ELSE Raise(t)
    /\ UNCHANGED <<files, runs, environ, slot, libraries, launcher, memo, calls>>

\* The manifest, its format, widths, planning limits and programs.
ReadManifest(t) ==
    /\ pc[t] = "manifest"
    /\ LET run == Here(t).files["manifest"]
       IN IF /\ Listed(t, "manifest") /\ run # Damaged
             /\ build[run].flaw \notin ManifestFlaws
          THEN /\ local' = [local EXCEPT ![t].found = [dir |-> local[t].named,
                              run |-> run, parts |-> <<>>], ![t].todo = KernelFiles]
               /\ Goto(t, "kernels") /\ UNCHANGED lock
          ELSE Raise(t)
    /\ UNCHANGED <<files, runs, environ, slot, libraries, launcher, memo, calls>>

\* _read_verified: the file is there, safe, and has the digest of the manifest.
VerifiedByName(t, f) == Listed(t, f)
Verified(t, f) == Listed(t, f) /\ Here(t).files[f] = local[t].found.run

\* One kernel of the manifest, described as this swage launches it.
ReadKernel(t) ==
    /\ pc[t] = "kernels" /\ local[t].todo # <<>>
    /\ LET f == Head(local[t].todo)
           run == local[t].found.run
       IN IF build[run].flaw # "arguments" /\ Verified(t, f)
          THEN /\ local' = [local EXCEPT
                    ![t].found.parts = Append(@, Here(t).files[f]),
                    ![t].todo = Tail(@)]
               /\ UNCHANGED <<lock, pc>>
          ELSE Raise(t)
    /\ UNCHANGED <<files, runs, environ, slot, libraries, launcher, memo, calls>>

\* Every kernel a call can request is there; then the runtime library is
\* verified, loaded from the verified bytes, and asked for its version.
LoadRuntime(t) ==
    LET run == local[t].found.run
        flaw == build[run].flaw
        loadable == /\ flaw \notin {"kernel missing", "machine", "abi", "glibc"}
                    /\ Verified(t, "runtime")
    IN /\ pc[t] = "kernels" /\ local[t].todo = <<>>
       /\ \/ /\ loadable /\ flaw # "reported abi"
             /\ libraries' = libraries \cup {Here(t).files["runtime"]}
             /\ Goto(t, "publish") /\ UNCHANGED <<lock, local>>
          \/ /\ loadable /\ flaw = "reported abi"
             /\ libraries' = libraries \cup {Here(t).files["runtime"]}
             /\ Raise(t)
          \/ Raise(t) /\ UNCHANGED libraries
       /\ UNCHANGED <<files, runs, environ, slot, launcher, memo, calls>>

Publish(t) ==
    /\ pc[t] = "publish"
    /\ slot' = local[t].found
    /\ lock' = "none" /\ Goto(t, "use")
    /\ UNCHANGED <<files, runs, environ, local, libraries, launcher, memo, calls>>

-------------------------------------------------------------------------------
\* What a call does with the answers of selected() that decide which kernel it
\* gets.  It asks more often (_require_bindings, the classifier of offsets, the
\* launchers of the driver), and what those answers decide is left out.
Next4 == [limits |-> "admit", admit |-> "native", native |-> "memo"]
Continue(t, field, value) ==
    /\ local' = [local EXCEPT ![t][field] = value, ![t].named = Unset,
                              ![t].found = None, ![t].use = Next4[local[t].use]]
    /\ Goto(t, IF local[t].use = "native" THEN "memo" ELSE "select")
    /\ UNCHANGED lock
End(t, kernel) ==
    /\ Let(t, "served", kernel) /\ Goto(t, "served")

Using(t, use) == pc[t] = "use" /\ local[t].use = use
Limits(found) == IF found = None THEN OwnLimits ELSE build[found.run].limits

\* _planning_limits, from the target description.
PlanningLimits(t) ==
    /\ Using(t, "limits")
    /\ Continue(t, "limits", Limits(local[t].found))
    /\ UNCHANGED <<files, runs, environ, slot, libraries, launcher, memo, calls>>

\* admit(): the build host answered for this text under these limits.
Admits(found, limits) ==
    found # None => /\ build[found.run].limits = limits
                    /\ build[found.run].text = OwnText
Admit(t) ==
    /\ Using(t, "admit")
    /\ IF Admits(local[t].found, local[t].limits)
       THEN Continue(t, "limits", local[t].limits) ELSE Raise(t)
    /\ UNCHANGED <<files, runs, environ, slot, libraries, launcher, memo, calls>>

\* _native_swage: the compile function that names the kernel, native or the
\* stand-in of one artifact.
NativeSwage(t) ==
    /\ Using(t, "native")
    /\ Continue(t, "key", local[t].found.run)
    /\ UNCHANGED <<files, runs, environ, slot, libraries, launcher, memo, calls>>

\* _compile_once: the memo, or build(), which asks selected() again.
Key(t) == <<local[t].key, local[t].target>>
LookUp(t) ==
    /\ pc[t] = "memo"
    /\ IF Key(t) \in DOMAIN memo THEN End(t, memo[Key(t)])
       ELSE Let(t, "use", "build") /\ Goto(t, "select")
    /\ UNCHANGED <<files, runs, environ, slot, lock, libraries, launcher, memo, calls>>

\* kernel(): the artifact holds the kernel, for this target and this text.
HoldsUnchecked(found, target) == found # None
Holds(found, target) ==
    /\ found # None
    /\ build[found.run].target = target
    /\ build[found.run].text = OwnText

\* Without an artifact the compile function is called, and a stand-in is none.
\* The first artifact that serves a kernel lends the driver its launcher.
Build(t) ==
    LET found == local[t].found
        kernel == IF found = None THEN Native ELSE Head(found.parts)
    IN /\ Using(t, "build")
       /\ IF Holds(found, local[t].target) \/ (found = None /\ local[t].key = Native)
          THEN /\ memo' = [k \in DOMAIN memo \cup {Key(t)} |->
                             IF k = Key(t) THEN kernel ELSE memo[k]]
               /\ launcher' = IF found # None /\ launcher = Unset
                               THEN found.run ELSE launcher
               /\ End(t, kernel) /\ UNCHANGED lock
          ELSE Raise(t) /\ UNCHANGED <<launcher, memo>>
       /\ UNCHANGED <<files, runs, environ, slot, libraries, calls>>

Return(t) ==
    /\ pc[t] = "served"
    /\ local' = [local EXCEPT ![t] = NoLocal] /\ Goto(t, "idle")
    /\ UNCHANGED <<files, runs, environ, slot, lock, libraries, launcher, memo, calls>>

-------------------------------------------------------------------------------
Write(w) ==
    \/ CompilePrograms(w) \/ Stage(w) \/ WriteFile(w) \/ Rename(w)
    \/ Kill(w)
Load(t) ==
    \/ Select(t) \/ Lock(t) \/ CheckDirectory(t) \/ ReadManifest(t)
    \/ ReadKernel(t) \/ LoadRuntime(t) \/ Publish(t)
Serve(t) ==
    \/ PlanningLimits(t) \/ Admit(t) \/ NativeSwage(t) \/ LookUp(t) \/ Build(t)
    \/ Return(t)

Next ==
    \/ \E w \in Writers : Write(w)
    \/ \E t \in Threads : Load(t) \/ Serve(t) \/ \E target \in Targets : Call(t, target)
    \/ \E d \in Dirs : RemoveDirectory(d) \/ MakeEmpty(d) \/ OpenUp(d)
    \/ \E d \in Dirs, f \in Files : Damage(d, f)
    \/ \E e \in Dirs \cup {Unset} : SetVariable(e)

Spec == Init /\ [][Next]_vars

-------------------------------------------------------------------------------
TypeOK ==
    /\ \A p \in DOMAIN fs :
         /\ fs[p].made \in BOOLEAN /\ fs[p].open \in BOOLEAN
         /\ DOMAIN fs[p].files \subseteq Files
         /\ \A f \in DOMAIN fs[p].files : fs[p].files[f] \in Contents
    /\ edited \subseteq Dirs /\ edits \in 0..MaxEdits /\ calls \in 0..MaxCalls
    /\ environ \in Dirs \cup {Unset} /\ lock \in Threads \cup {"none"}
    /\ libraries \subseteq Writers /\ launcher \in Writers \cup {Unset}
    /\ \A k \in DOMAIN memo : memo[k] \in Writers \cup {Native}
    /\ \A t \in Threads : (lock = t) <=>
         pc[t] \in {"directory", "manifest", "kernels", "publish"}

\* A reader never sees part of an artifact: a directory under an output name
\* that the user has not edited holds every file of one run, although runs
\* race for the name, fail between any two files, and are killed (_write_artifact).
PublishedWhole ==
    \A d \in Dirs : fs[d].made /\ d \notin edited =>
        \E w \in Writers : fs[d] = [made |-> TRUE, open |-> FALSE,
                                    files |-> [f \in Files |-> w]]

\* A failed run leaves nothing: neither its staging directory nor a file under
\* an output name; a run that reports success wrote the whole artifact.
FailedRunLeavesNothing ==
    \A w \in Writers :
        /\ wpc[w] = "failed" => ~fs[w].made
        /\ wpc[w] \in {"failed", "killed"} =>
             \A d \in Dirs : \A f \in DOMAIN fs[d].files : fs[d].files[f] # w

\* An artifact is one run from one directory: whatever is replaced, removed or
\* damaged while a load reads file after file, the slot and the artifact a
\* thread uses hold the kernels of the run whose manifest was read, its library
\* is loaded, as is the one that launches, and the directory is the one the
\* variable named (selected()).
ArtifactIsOneRun ==
    LET whole(a) == /\ a.run \in libraries
                    /\ a.parts = [i \in DOMAIN KernelFiles |-> a.run]
    IN /\ slot # None => whole(slot)
       /\ launcher # Unset => launcher \in libraries
       /\ \A t \in Threads : pc[t] = "use" =>
            /\ local[t].found.dir = local[t].named
            /\ local[t].found # None => whole(local[t].found)

\* A kernel that a call is served, from the memo too, was compiled from the
\* program text of this swage for the processor of the call's device, although
\* the variable may name another artifact each time a call asks on the way to its
\* kernel and the memo files the kernel under the first one (_compile_once,
\* kernel()).
ServedKernelFits ==
    \A t \in Threads : pc[t] = "served" /\ local[t].served # Native =>
        /\ local[t].served \in Writers
        /\ build[local[t].served].text = OwnText
        /\ build[local[t].served].target = local[t].target
===============================================================================
