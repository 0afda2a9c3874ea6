# swage: TLA+ models of the runtime

swage compiles Python kernels through MLIR to PTX and launches them on CUDA
devices. Its Python runtime keeps compiled kernels in a process cache and in a
cache on disk that processes share, keeps loaded CUDA modules in an LRU, and
unloads a module when nothing on the GPU can still use it. The compiler is
sequential; the runtime is where threads, processes, the GPU, interpreter exit
and `fork` meet. Segmented operations plan their work on the host from offsets
the device reads again, and artifacts carry compiled kernels to machines without
a compiler. These modules model that runtime, one action per stretch of code
that nothing else can interrupt, and the index arithmetic of the segmented
kernels. Paths below are relative to `src/`.

- [1. Inventory](#1-inventory)
- [2. Modules](#2-modules)
- [3. Runs](#3-runs)
- [4. Where the code and its documentation disagree](#4-where-the-code-and-its-documentation-disagree)
- [5. Proofs](#5-proofs)
- [6. What is left out](#6-what-is-left-out)
- [7. Plan](#7-plan)

Running: `tlc -config ResidencyLru.cfg MCResidency` checks a run,
`tlapm ModuleResidency_proofs.tla` checks the proofs of a module. `PROJECT.json` maps every
definition to the lines it models and lists runs, hazards, findings, theorems
and, for each property, a mutation of the model that breaks it (an operator
beside the one it replaces, such as `Excess_OneTooFew` beside `Excess`).

## 1. Inventory

| Component | State | Operations | Hard part |
|---|---|---|---|
| CUDA module residency (`python/swage/_cuda_backend.py`) | `_LoadedModule` (leases, `cache_resident`, `capture_pinned`, `unload_queued`, `unload_blocked`, `unloading`, `unloaded`, events, pending streams), the LRU `_loaded_functions`, `_retired_loaded` | lease, launch, release, poll, evict, retire, unload | lock-free warm lookup, fences on streams that may capture or be gone, errors and interrupts in the middle of a poll |
| Native fixed launcher (`python/SwageExtensionNanobind.cpp`, `FixedCUDALaunch`) | the prepared launch of a module | call | launches without a lease, under residency lock and GIL |
| Cold path (`python/swage/_runtime.py`, `_ColdPathLock`, `_single_flight`) | a closable RLock, the compile places, the flights | acquire, enter a place, close at exit, fork handlers | exit against daemon threads, fork against everything |
| Process cache (`_runtime.py`, `_artifact_cache`) | LRU of artifacts | lookup, insert | eviction between build and lookup of a waiter |
| Persistent cache (`_runtime.py`, `_read_cache_entry` ... `_atomic_write`) | a directory per kernel under a shared root, staging directories, `_cache_off` | lookup, publish, repair, discard, trim | several processes without a lock, kills, stalls |
| Compiler identity (`_runtime.py`, `_compiler_identity` ... `_verify_bindings`) | the digest of the compiler and the front end, the memo of library identities, the start time of the process | derive, check before lookup and before publish, verify the bindings | the files on disk change under a running process |
| Launch front door (`_runtime.py`, `launch`, `_finish_fixed_launch`) | storage kept alive, version counters | validate, launch, clean up | one of several cleanups fails |
| Segmented runtime (`_segmented_runtime.py`) | memo of built programs, leases of several kernels | describe the target, build, lease, enqueue | one call asks several times which artifact is selected |
| Segment planning (`_segments.py`, `_segmented_plan.py`, `_segmented_validation.py`, `_segmented_programs.py`, `lib/Dialect/SwagePlan/IR/TaskClassifier.cpp`, `lib/Conversion/SwagePlanToGPU`) | none | check and narrow offsets, classify segments into warp, CTA and split work, lay out records, reduce them | boundaries: empty segments, int64 to int32, plans that do not fit; a count, a layout and a kernel that must agree |
| Segmented launches (`_segmented_qualification.py`) | prepared reductions, the prepared persistent sum with its counters, scratch and events | one-shot launches, prepare, launch again | cleanup of a partly failed launch; one scratch for several threads and streams |
| CPU oracle (`_segmented_oracle.py`) | none | compare results | numerical |
| Artifacts and `compile()` (`_artifact.py`, `compile.py`) | a directory on disk, the one loaded artifact `_selected` | write, load, serve kernels | runs race for a name; files change while they are read; the variable changes during a call |
| Kernel contract (`_abi.py`) | none | parse, serialise, marshal | pure functions of one document |
| Autograd (`_autograd.py`) | saved tensors and versions | forward, backward | offsets written between the two |
| Front end and language (`_frontend.py`, `language.py`) | none | translate | syntax directed |
| Environment and bindings (`env.py`, `_native.py`, `_backends.py`, `_cpu_backend.py`) | import state | report, execute on the host | little state |
| Benchmarks (`bench.py`) | none | measure | none |
| MLIR dialects and lowering (`lib/Conversion`, `lib/Support`, `lib/CAPI`) | MLIR modules | passes | the schedules they emit |
| C runtime (`lib/Runtime/SwageRuntime.c`) | a loaded library | classify, launch | three walks over the offsets that must agree |

How they interact. A launch derives the compiler identity, looks in the process
cache, and on a miss builds in a single flight and a compile place of the cold
path. The build looks in the persistent cache, compiles on a miss and publishes
the entry. The launch then leases the loaded module (on a miss it loads it under
the cold-path lock), enqueues the kernel, and releases the lease. Every lease
and launch first polls the retired modules. A module whose arguments are of the
simplest kind also gets a native launcher that skips most of this.

A segmented call checks its arguments, copies the offsets to the host, validates,
narrows and classifies them, compiles and leases one to three kernels (or takes
them from the selected artifact), uploads task records, enqueues, and cleans up
after whatever failed. A prepared reduction keeps the leases and the records and
is launched again; the prepared persistent sum also keeps one counter array and
one scratch buffer. A recorded call keeps the offsets for its backward. The
selected artifact is loaded under the cold-path lock into one slot.

What makes each part correct:

- residency: no module is unloaded under a kernel, a lease or a graph; no loaded
  module is forgotten; the LRU keeps its bound; a destroyed stream is not used;
  no lock cycle;
- cold path: one build per kernel; every waiter has somebody to wake it, also in
  a forked child; exit finds no native work in daemon threads; no wait cycle;
- persistent cache: an entry is complete or absent; a race never makes a process
  give up its cache; all processes use one artifact per key; no debris; a
  read-only process writes nothing;
- compiler identity: an entry is the work of the code its key names, and a
  process is served only entries of the code it runs;
- segmented calls: every segment is reduced once over the validated offsets; no
  access leaves its buffer, whatever is written to the offsets afterwards; a
  failure at any step gives back every lease, keeps the memory queued work needs,
  counts every write and reports the first error; a refusal touches nothing;
- persistent sum: launches no stream orders never share the scratch; no kernel
  reads task records that are not there; a write of the user is never hidden;
- artifacts: what is published is whole, what is loaded is one run, what is
  served fits the device and the program text.

`PROJECT.json` lists the hazards line by line.

## 2. Modules

| Module | Models | Checked by |
|---|---|---|
| `ModuleResidency` | residency and the native launcher | `MCResidency`, `ModuleResidency_proofs` |
| `ColdPath` | cold-path lock, flights, process cache, exit, fork | `MCColdPath`, `ColdPath_proofs` |
| `DiskCache` | the persistent cache, one file-system call per step | `MCDiskCache`, `DiskCache_proofs` |
| `CompilerIdentity` | the identity gate, one file per step | `MCIdentity`, `CompilerIdentity_proofs` |
| `SegmentPlan` | offsets, classification, records, kernels, gradients: operators without state | through `SegmentedCall`; `SegmentPlan_proofs` |
| `SegmentedCall` | one segmented, fixed or prepared call with its cleanup and backward; extends `SegmentPlan` | `MCSegments`, `SegmentedCall_proofs` |
| `ScratchOwner` | the abstract owner of the scratch of a prepared sum | refined by `PersistentQueue` |
| `PersistentQueue` | the prepared persistent sum on several threads and streams | `MCPersistent`, `PersistentQueue_proofs` |
| `Artifact` | artifact directories: writers, the user, a loading process | `MCArtifact`, `Artifact_proofs` |

Where they meet, each models the other's side as an opaque
step: `ModuleResidency` holds `compile_lock` (the lock of `ColdPath`) around a
load, and the `Compile` step of `ColdPath` stands for a lookup and a publish of
`DiskCache`, whose own gate is `CompilerIdentity` (there the cache is a set of
entries and its failures are left to `DiskCache`). The compiles and leases of
`SegmentedCall` succeed or fail as steps; what they do is `Artifact` and
`ModuleResidency`. Nothing in `DiskCache` takes a lock of `ColdPath`, and a load takes
no flight, so neither side can block the other through anything else.

### ModuleResidency

The variables in lower case carry the names of the fields of `_LoadedModule` and
of the tables. `_loaded_functions`, an `OrderedDict`, is the map `loaded` with
its `order`; `_retired_loaded` is split into the slots named by a key
(`retired`) and the slots `(key, id(entry))` that a second module of the same
key takes (`retired_extra`).

| Actions | Code |
|---|---|
| `Begin` | `lease()` from `launch` or the segmented launch |
| `PollSelect` ... `PollLeave`, `PollError`, `PollInterrupt` | `_poll_deferred`: reserve, lock and look again, fence, query, unload, give back |
| `WarmGet`, `WarmMiss`, `WarmHit`, `WarmTouch` | `_warm_lease`: the unlocked get, the check under `entry.lock`, the refresh if the lock is free |
| `ColdLock`, `ColdFind`, `ColdLoad`, `ColdLoadError`, `ColdClaim`, `ColdPublish` | `_load_artifact`: reuse, revive or load, lease, publish, evict |
| `StartLaunch`, `Enqueue`, `EnqueueError` | `_launch_loaded` |
| `StartRelease`, `Release`, `ReleaseQueue`, `Drop` | `_ModuleLease.release`, then once more by `__del__` |
| `Prepare`, `SkipPrepare` | `_prepare_fixed_launch` |
| `FastCheck`, `FastLaunch`, `FastRefuse` | `FixedCUDALaunch::call`: the capture check, after which the GIL may go; then, under both residency locks, the second look and the enqueue with its fence, or no launch |
| `Complete`, `Replay`, `ToggleCapture`, `CloseStream` | the GPU and the owner of the streams (external) |

The driver is modelled from its use: a stream is a counter of enqueued and of
completed launches, an event is the position at which it was recorded, and work
completes in order at any time. `cuStreamIsCapturing` on the legacy stream
reports the capture of any stream. A failing launch may or may not have enqueued
its kernel.

Two simplifications of atomicity. `cuModuleUnload` and the bookkeeping right
after it are one step (both under `entry.lock` of a module nobody can find). A
lease object is collected where its call drops it: leases are reference counted
and sit in no cycle in this code.

### ColdPath

A critical section is two steps, so that a fork can find a lock taken. Threads
run `Launch` (identity, `Lookup`, flight, place, `Compile`, two `Insert`s) or
`Load`. `Main` alone runs the exit handler (`Close`, `CloseLock`, `CloseIdle`,
`CloseTimeout`); daemon threads that ask for the closed lock park. A thread may
fork once, from outside the runtime or from a callback inside a flight
(`ForkAt`); the behaviour continues in the parent (`ForkParent`) or in the child
(`ForkChild`), where the other threads are `gone`, the flights are reset, and a
lock that a vanished thread held stays held by `Ghost`.

Two things stop a thread inside its call for good, and the properties name them:
`ShutOut`, by a `close()` that another thread ran, and `Orphaned`, at a
`_cache_lock` that was taken when the process forked. A thread that stands at any
other label of a builder goes on (`GoesOn`).

### DiskCache

A directory is an object with a path; a step asks by path which directory is
there now, and only a removal keeps the directory it opened, as `rmtree` does.
A reader opens the three files of an entry one by one. `Kill` ends a process
between any two calls, `Hour` ages a directory, between the calls of the processes
or while one is stalled inside a call, and faults make reads, writes and renames in
the root fail (`ReadFails`, `ReadRaises`, `GiveUp`, `RenameRefused`). A trim
computes its limit before it lists the root, so what grows old during the trim is
spared (`aged`). The listing of the root by the trim is one step; its removals are
not. `content` records which compile wrote a directory, so that a mixed read is
visible, `evicted` which keys a trim has removed, and `taken` which directories a
trim began to remove while a process inside its call still used them; no step reads
the last two.

### CompilerIdentity

A process runs the code it loaded (`loaded`) and names entries after the files it
finds on disk. The code of a file stands for its contents, build id and digest; a
digest of several files is the function from files to code, `Gone` for a file it
does not list. `Status` tells apart the three outcomes of `_compiler_identity`.

| Actions | Code |
|---|---|
| `Start`, `Import`, `Fork` | `_PROCESS_START_NS`, the import of the package, a fork, which keeps the start time of the process that loaded the code |
| `Derive`, `Sign`, `Read`, `Keep`, `Signed` | `_compiler_identity`, `_content_identity`: hash the sources, then stat, read and stat again each library and decide whether the memo may keep it |
| `Launch`, `Usable`, `CheckSource`, `CheckAge`, `CheckLibrary` | `_cache_usable`: every file older than the process and unchanged |
| `Lookup`, `Load`, `Verify`, `Compile`, `Publish` | the lookup, the libraries that load when they are first used, `_verify_bindings`, the compile, the second check and the publish |
| `Install`, `Delete`, `Tick` | an installer and the clock (external) |

`removed` remembers the libraries that were ever taken away; no step reads it, and
the two properties except such a library (section 4).

`Verify` is one step. What it decides by, a revision and `git`, is the constant
`Revision`: without one the sources on disk must be the front end that the
bindings were built beside.

### SegmentPlan and SegmentedCall

`SegmentPlan` holds the offset check in its array form and its sequential form
(`OffsetVerdict`, `SequentialVerdict`), the narrowing to int32 (`Narrow`, modulo
`2 * I32Limit`), the classifier that the C++ dialect and the C runtime both have
(`FirstOffsetError`, `PlanFits`, the counts, and `Walk`, which moves one cursor per
list and collects the stores as pairs of an index and a word), the launch arguments,
and what each kernel
stores as a function of its arguments and of the offsets it reads on the device
(`DirectWrites`, `TaskListWrites`, `FusedWrites`, `PartialWrites`, `MergeWrites`,
with the clamp of `Emission.cpp` and the comparison of a loaded segment with the
segment count, without which a task or a merge stores nothing). A value is the sequence of rows it was reduced
from, so that a row lost, repeated or out of order is visible; `Gather`, `Tied`
and `TieCount` are the backward's.

`SegmentedCall` runs one call. A launch function is a script (`PlannedBody`,
`RowsBody`, `ColumnsBody`, `SoftmaxBody`, `DirectBody`, `TasksBody`, `FixedBody`,
`PrepareBody`, `LaunchBody`): its compiles, leases, uploads and enqueues in the
order of the code. Its `finally` block is a second script (`Final`,
`FixedFinal`).

| Actions | Code |
|---|---|
| `FrontDoor`, `ValidateShapes`, `Plan`, `RefuseProgram` | the checks of `segment_reduce` and `segment_softmax` in their order, the host copy, `_validate_shapes`, the plan |
| `Compile`, `Lease`, `Upload`, `Enqueue`, `EndPhase`, `EndBody` | the steps of a body; an enqueue that raises may have queued its kernel |
| `Retain`, `Advance`, `Release`, `Conclude` | `_finish_launch`, `_finish_fixed_launch`: each step is attempted, the first error is remembered |
| `Launch` | a launch of a prepared reduction: `unchanged()` with its checks of the version and of the storage, `wait_for_tasks`, the chosen kernels |
| `Backward` | the backward of a recorded reduction or softmax |
| `Run`, `CompleteUpload`, `WriteOffsets`, `Rebind`, `Drop`, `Reuse` | the device, a writer of the offsets, the caller and the allocator (external) |

The device moves only between launches (`Between`): no step of a body reads what
it changes, and it may lag as long as it likes, so no order of effects is lost.

### PersistentQueue and ScratchOwner

The queue of a stream holds the upload of the task records, the record of
`tasks_ready`, waits for it, resets and kernels (`use`) and records of
`in_flight` (`fence`). An event has completed when its record has left the queue.

| Actions | Code |
|---|---|
| `Check`, `Acquire` | `unchanged()`, the launch lock, which turns a second thread away |
| `Admit` | `require_idle`, `wait_for_tasks`, the invalidation of the old fence |
| `Reset`, `Enqueue` | `counters.zero_()` and the kernel; an error does not tell whether the work was queued |
| `Fence`, `Advance`, `StepVersion` | `_finish_launch`: retention and `completion()`, then `wrote_output` |
| `Release` | the restore after a captured launch, and the lock |
| `Run`, `WriteOffsets`, `Rebind`, `BeginCapture`, `EndCapture` | the device and the user (external) |

`ScratchOwner` has one variable, the streams with unfinished launches: a launch
joins the stream that owns the storage or takes storage nobody uses. The
refinement maps it to the streams whose queue holds a `use`.

### Artifact

A file is the run that wrote it, or `Damaged`; a manifest's digests hold for the
files of its own run. `Builds` says what each run was built from and the first
check it fails.

| Actions | Code |
|---|---|
| `CompilePrograms`, `Stage`, `WriteFile`, `Rename`, `Kill` | `compile.py`: everything before the first file, `mkdtemp`, the files, `chmod` and rename, a kill |
| `RemoveDirectory`, `MakeEmpty`, `Damage`, `OpenUp`, `SetVariable` | the user (external) |
| `Call`, `Select`, `Lock`, `CheckDirectory`, `ReadManifest`, `ReadKernel`, `LoadRuntime`, `Publish` | `selected()` and the load under `_compile_lock` |
| `PlanningLimits`, `Admit`, `NativeSwage`, `LookUp`, `Build`, `Return` | the questions of a call whose answers decide its kernel, and the memo of kernels |

## 3. Runs

| Run | Distinct states | Shows |
|---|---|---|
| `ResidencyLru` | 2.1 million | leases, polls, loads, evictions and failures of two threads over two kernels in an LRU of one |
| `ResidencyCapture` | 4.2 million | capture, replay, destruction and failing launches of a caller's stream, beside calls on the legacy stream |
| `ResidencyLive` | 0.5 million | every call ends |
| `ColdPathSafe` | 3.0 million | three threads, two kernels, failing builds, exit and fork together |
| `ColdPathLive` | 0.6 million | every call ends, in the parent and in the child, when a cache of one entry may evict a build before its waiter looks, but for the threads that exit stopped |
| `DiskCacheRace` | 1.6 million | two writers whose compiles differ, two kernels, a bound of one entry: everything is evicted and published again |
| `DiskCacheFault` | 0.7 million | kills, stalls, refused reads, writes and renames, aging, an incomplete entry at the start, read-only processes with and without a compiler |
| `Identity` | 7.0 million | two processes, one possibly a fork of the other, and an installer that rewrites and removes files between any two steps |
| `PersistentSafe` | 1.9 million | two threads on two streams, every failure except of a captured launch |
| `PersistentCaptureFault` | violation | see section 4 |
| `SegmentedCalls` | 1.8 million | every launch path over all small offsets, up to two failing steps (7,941 different calls) |
| `Artifacts` | 3.3 million | two writers, two directories, two threads of one loading process, a user who edits both |

What the properties say:

- `UnloadedModuleIsIdle`: when a module is unloaded, every launch of it, leased,
  native or replayed, has completed.
- `ClaimedModuleStaysLoaded`: a module with an unreleased lease, or in a
  captured graph, is not unloaded.
- `LeasesAreCounted`, `ReservationHasOneOwner`: counts and reservations survive
  every failure; a leaked one would pin a module for ever.
- `NoModuleForgotten`: every loaded module is in a table or in the hands of the
  cold path. It needs three modules: the third load of two keys in an LRU of one
  retires a second module of a key.
- `ResidencyBound`: at most `Limit` resident modules; order and map agree.
- `DestroyedStreamUnused`: no handle of a destroyed stream reaches the driver.
- `OneBuildPerKey`, `WaiterHasBuilder`, `FlightHasOwner`: the single flight, in
  the parent and, for the last two, in the child. A child whose thread forked
  inside its own build has forgotten that build's flight, so two threads of such
  a child can build the same key: harmless, and excluded from the first. Whoever
  waits for a flight, and whoever launches its key later, depends on its owner to go
  on. The last two say that it does, but for the two stops of section 2, and that
  there is no third: behind a stopped owner a caller does wait for ever, which
  section 4 reports.
- `PlacesAreCounted`: the compile count is exact, and nobody who holds a place
  waits for the lock under which exit and fork wait for places.
- `ExitFindsNoNativeWork`: when `close()` returned in time, no daemon thread is
  or will be in native code.
- `CallsReturn` (both modules): calls end. In `ColdPath` a thread that exit stopped
  and a thread that waits for the flight of such a thread are excepted
  (`LeftAtExit`).
- `EntryNeverPartial`, `RaceNeverDisablesCache`, `NoStagingLeftBehind`,
  `OneArtifactPerKey`, `NoFalseMismatch`, `ReadOnlyNeverWrites`: section 1's list
  for the persistent cache. `OneArtifactPerKey` and `NoFalseMismatch` speak of
  keys that no trim has evicted: after an eviction a process may keep the
  artifact of the old entry, and a reader may mix two entries, which the digests
  then reject. `EntryNeverPartial` excepts the directories in `taken`, and debris of
  an earlier release: a stalled writer does publish a part of its entry (section 4).
- `EntryMadeByItsKey`, `ServedByOwnCode`: the identity gate, for publishing and
  for looking up. Both except a file that was gone when the identity was derived,
  which the identity does not name, and a library that was removed at some time
  (section 4).
- `TasksUploadedFirst`, `VersionsInStep`, `ImplementsScratchOwner`: the prepared
  persistent sum. `VersionsInStep` relates the version a launch expects to the
  writes of the user, so that neither a failing step nor a shared counter hides
  one.
- `BothFormsAgree`: the two forms of the offset check and the classifier accept
  the same offsets.
- `ResultRight`: after a launch that returned, the output holds the reduction of
  every segment over the offsets of the call.
- `AccessInBounds`: the record writer fills exactly the buffer the counts sized,
  and no kernel leaves its buffers, also with scrambled offsets on the device.
- `GradientUsesForwardOffsets`: a gradient is the one of the segments the forward
  reduced; only a write PyTorch cannot see escapes.
- `LeasesReturned`, `QueuedWorkKeepsItsMemory`, `WritesAreCounted`,
  `FirstErrorRaised`, `RefusalTouchesNothing`: the cleanup, whatever failed, a
  cleanup step included.
- `PublishedWhole`, `FailedRunLeavesNothing`: a run of the artifact writer
  publishes all or nothing. `ArtifactIsOneRun`: what a load accepts is one run,
  although files change under it. `ServedKernelFits`: a kernel fits the device
  and the text although the variable changes within a call.

Each module's `TypeOK` holds on the instances of its runs; it is listed for
`ResidencyLru` and `Artifacts`, where a mutation breaks it, and proved for
`ModuleResidency`, `ColdPath`, `DiskCache`, `PersistentQueue` and `Artifact`.

Bounds. `Modules`, `Flights` and `Dirs` bound the objects created, `MaxPos` the
launches per stream, `MaxCalls` the calls; `Limit = 1` and `MaxEntries = 1` make
every second key an eviction; `ColdPathSafe` has a cache of two artifacts, where
a hit refreshes the order. Two threads suffice for the residency races, which
are all between a poll and one other operation, and the theorems of section 5
cover any number. Three threads give an owner, a waiter and an exiting or
forking thread; `ColdPathLive` has two, which still wait for, evict and fork
under each other's builds, because its state graph must be searched for cycles.
In `ResidencyLru` launches go to the legacy stream and in
`ResidencyCapture` to a caller's stream (a call on the legacy stream leases,
polls and then fails to launch); kernels on both at once, and native launches on
both kinds of stream, exceed what TLC finishes and are covered by the theorems
alone. `Identity` has one source, one
library, two versions of each and two changes (`MaxUpdates`), one before and one
after the step that matters; the gate treats the files one after the other, so a
second file adds no new kind of mix. `PersistentSafe` has three launches
(`MaxLaunches`): one unfinished, one captured, one that follows. `SegmentedCalls`
scales the sizes down (`I32Limit` 8 for 2^31, chunks of two, warps of one) so
that up to three segments reach every class, every split and words that wrap to
valid offsets when narrowed; five features are three column groups of two, so that
three segments give nine items, more than the largest grid of seven, and blocks loop;
`MaxFaults = 2` lets a cleanup fail after a body.
`Artifacts` has one run that fits and one that differs in one respect.
`CHECK_DEADLOCK FALSE` stands
where the model may stop: the calls are used up or the process exits.

Fairness. `FairSpec` asks for strong fairness of the steps of each thread that
is inside a call: the operating system runs every thread again and again, and a
thread that waits for a lock that keeps coming free gets it. Nothing is assumed
of the GPU, of callers (a lease may be held for ever) or of the owner of a
stream: a poll gives up on a busy module instead of waiting for it. The exit
handler's timeout is an action of its own. In `ColdPathLive` the exit handler may run
at any time, and what `close()` stops is excepted. The run derives the identity
before the start and caches one entry, which is never refreshed, so that no fork
meets `_identity_lock` or `_cache_lock` taken (section 4). The other modules
state no fairness and no liveness.

## 4. Where the code and its documentation disagree

**A launch that fails during a capture** (`PersistentCaptureFault`). A captured
launch of a prepared persistent sum cannot query the completion event, so
`require_idle` lets it pass beside an unfinished launch on another stream. It
then sets `in_flight_stream` and `in_flight_recorded` as an ordinary launch does,
and puts them back after it succeeded. When its reset or its enqueue fails,
nothing is put back (`_segmented_qualification.py:1571`): the prepared object has
forgotten the unfinished launch, the next ordinary launch on the stream of the
capture is admitted, and it resets the counters and the scratch that the older
launch still uses. `docs/internals/persistent-execution.md:158`: "It raises
`RuntimeError` when an earlier launch of the object is still in flight on another
stream." `OneUser` proves that this is the only way: without a failure during a
capture the property holds for every instance.

Observations without a run:

- The poll asks only the streams in `pending_streams` whether they capture
  (`_cuda_backend.py:407`). A launch outside a capture is fenced at once and
  leaves no pending stream; if its stream begins a capture later, the module is
  unloaded meanwhile, against `docs/reference/runtime-environment.md:305`. The
  module is idle then (`UnloadedModuleIsIdle` holds).
- The fork handlers take the cold-path lock and renew `_flights_lock`;
  `_identity_lock` and `_cache_lock` are copied as they are. A child forked while
  another thread derives the identity waits for ever at its first launch. A child
  forked while another thread is in the process cache waits at the inherited
  `_cache_lock` when it inserts what it built (`Orphaned`), and so does whoever waits
  for its flight.
- After `close()`, a daemon thread inside a flight parks in `acquire()`
  (`_runtime.py:107-110`) and never ends the flight. A later exit handler that
  launches the same kernel waits for it for ever (`_runtime.py:242`), although
  `close()` promises it the lock (`_runtime.py:72`: "The exiting thread itself can
  still take the lock, because a later exit handler may reach a cold path").
  `ShutOut` is this stop: `WaiterHasBuilder`, `FlightHasOwner` and `CallsReturn`
  hold only with it as an exception.
- `_closed_by` is not reset after a fork: a child forked by a daemon thread while
  the parent exits has a cold path that another thread's `close()` closed, and its
  launches park, where the comment at `_runtime.py:109` says "Only a daemon thread
  gets here, and its process is ending."
- The trim removes a staging directory older than an hour file by file
  (`_runtime.py:2301`); a writer that stalled that long may rename it in between
  and publish a partial entry, which the next lookup repairs. This is against
  `_runtime.py:2220-2222` ("A writer that was only stalled for longer finds its
  directory gone, fails to publish, and keeps its kernel") and against
  `docs/reference/runtime-environment.md:555`, which `EntryNeverPartial` quotes. TLC
  finds it when the property does not except `taken`: the writer is about to rename
  the staging directory, an hour passes, the trim lists the root, opens the directory
  and removes a file, and the writer renames what is left. A repair that stalls between its look at
  the entry it set aside and the rename back does the same.
- `_remove_incomplete_entry` may find that the entry it set aside is complete and
  renames it back (`_runtime.py:2246`) after another process has trimmed, so that
  the root holds more than `SWAGE_CACHE_MAX_ENTRIES` entries until the next
  publish.
- `_verify_bindings` compares the bindings with the files on disk, not with the
  loaded sources, and skips the comparison in a clean checkout
  (`_runtime.py:928`); a source removed before the identity was derived is not
  named by it, and a directory swapped for one with old times passes the age
  check.
- `_stale_identity` asks every library its age and skips one that is missing at
  that moment (`_runtime.py:1230`), and then reads them all again. A library that
  an installer puts back in between is never asked: its contents are compared and
  not its age. A process that loaded a rebuilt library (version 1) while it
  compiled, and whose library is replaced by the old bytes (version 0) in this
  way, publishes under the key of version 0 what version 1 made, against
  `docs/reference/runtime-environment.md:525`: "An edit or a rebuild that lands
  during a compile is therefore not published under either key." It takes three
  changes of one file during one compile (the rebuild, the removal and the
  reinstallation), one more than `Identity` allows. The proof of
  `EntryMadeByItsKey` found it: without the exception of `removed` the invariant
  is not inductive, and TLC confirms the behaviour on one process with
  `MaxUpdates = 3`.
- A runtime library whose reported ABI version is wrong has been loaded when it
  is refused (`_artifact.py:801`), where the docstring of `selected()` says
  "Nothing is loaded from it".
- `_choose_launchers` reads `SWAGE_ARTIFACT_DIR` and then calls `selected()`,
  which reads it again (`_cuda_backend.py:722`): unset in between, it takes an
  attribute of `None`.

## 5. Proofs

`ModuleResidency_proofs` proves, for every finite set of threads, all sets of
keys, contexts, modules and streams, every limit, bound and choice of faults:

| Theorem | Property |
|---|---|
| `TypeCorrect` | `TypeOK` |
| `LeasesCounted` | `LeasesAreCounted` |
| `ReservationOwned` | `ReservationHasOneOwner` |
| `ClaimedStaysLoaded` | `ClaimedModuleStaysLoaded` |
| `UnloadedIdle` | `UnloadedModuleIsIdle` |
| `ResidencyBounded` | `ResidencyBound` |
| `NothingForgotten` | `NoModuleForgotten` |
| `DestroyedUnused` | `DestroyedStreamUnused` |

The assumption is `ResidencyAssumption`: every key has a context, the limit is
positive, the legacy stream is not a caller's stream, `None` is no object, there
is a key, and the threads are finite (a lease count is a cardinality).

None of the properties is inductive alone. The invariant is

    IInv == TypeOK /\ CallInv /\ LeasesAreCounted /\ ReservationHasOneOwner
              /\ RetireInv /\ FenceInv /\ FastInv /\ ResidencyBound /\ KeepInv
              /\ StreamInv

- `CallInv` says what each program counter means: where a call has a lease and
  whether it is released, where it has a module at hand, that a poll works on a
  module of its own list, and that the cold steps hold the cold-path lock.
- `LeasesAreCounted` and `ReservationHasOneOwner` make the checks of the poll
  mean something: `leases[m] = 0` is "nobody has a lease", `unloading[m]` is
  "the one poll that has m on its list".
- `RetireInv` says that a reserved or unloaded module is neither resident, nor
  leased, nor pinned by a capture, that every module of the LRU and every module
  the cold path is about to lease is resident, and that every module in a graph
  is pinned. This is the argument against the races of the warm lookup and of
  the revival with the poll.
- `FastInv` says what a native launch relies on between its first checks and the
  locks: its module has been loaded, and its event is there until the unload.
- `FenceInv` says that the last launch of a module on a stream is behind the
  event recorded there, or the stream waits for its final fence, or the module
  is blocked or pinned and will not be unloaded. A poll past its final fences
  has no stream waiting, so a successful query of all events means that every
  launch has completed: `UnloadedModuleIsIdle`.
- `ResidencyBound` is inductive beside `TypeOK` (each key once in the order).

- `KeepInv`: a module is queued for unload exactly when it stands in a retired
  slot, the slot of its key or one of the second slots, and every module with a
  key is resident, queued or unloaded; a resident module is the one its key maps
  to, or in the hands of the cold path, whose lock keeps the key's place free
  meanwhile.
- `StreamInv`: the streams left to the next poll are at most the legacy stream,
  and a call's own stream is open while the call runs.

`IInvInit` and `IInvStep` (one lemma per conjunct, in it one step per action)
give `Invariance`. Lemmas of their own say what `MoveToEnd` and `QueueUnload` return
and how a lease, a release and a launch change the counts and the fences.

`PersistentQueue_proofs` proves, for all sets of threads and streams and all
bounds:

| Theorem | Property | Premise |
|---|---|---|
| `TypeCorrect` | `TypeOK` | none |
| `TasksBeforeKernels` | `TasksUploadedFirst` | none |
| `NoWriteHidden` | `VersionsInStep` | none |
| `OneUser` | `OneStreamUsesScratch` | no launch fails during a capture |
| `ScratchImplemented` | `ImplementsScratchOwner` | no launch fails during a capture |

The assumptions on the constants: the stream of the preparation is a stream,
`NoStream` and `NoThread` are none, the bounds are natural numbers. The premise
of the last two is `CaptureFaults = FALSE`; section 4 shows that it is needed.

- `HolderInv`: the holder of the launch lock is the one thread past `acquire()`.
- `TasksInv`: while the records are not uploaded, the upload and the record of
  its event head the queue of their stream, and a wait for the event is queued
  before every use and by every launch about to use the records. A stream cannot
  pass its wait before the upload has run, so the property follows.
- `VersionsInStep` is inductive beside `HolderInv`: at most one thread is between
  its two steps.
- `ScratchInv`: only the owner has unfinished launches and, when its fence is
  recorded, the fence is queued behind all of them; the owner is `in_flight_stream`
  or, while a launch is captured, the one it found and will put back. Lemmas say
  what an enqueue, a record and the device do to an owned queue.
- `UsersSteps` shows every step to be a step of `ScratchOwner` or a stutter: an
  enqueue finds its stream the only user, the device drains a stream.

`ColdPath_proofs` proves, for all sets of threads, keys and flights, every cache
limit, an exit or none and a fork at any of its places:

| Theorem | Property |
|---|---|
| `TypeCorrect` | `TypeOK` |
| `SingleFlight` | `OneBuildPerKey` |
| `WaiterWoken` | `WaiterHasBuilder` |
| `FlightOwned` | `FlightHasOwner` |
| `PlacesCounted` | `PlacesAreCounted` |
| `ExitIsQuiet` | `ExitFindsNoNativeWork` |

The assumption is `ColdPathAssumption`: `Main` is a thread, `None` and `Ghost` are
none, there is a key, the limit is positive. Nothing makes the threads finite:
that finitely many hold a place is part of the invariant, which adds to `TypeOK`

- `LockInv`: the owner of the lock is the thread inside it; only the thread that
  ran the exit handler keeps it outside, and then enters it a second time.
- `ExitInv`, `KeptInv`: only `Main` closes, and a handler that returned in time
  has the lock for good and finds no place held by another thread.
- `PlaceInv`: `held` is the set of threads between the count and the release, and
  is empty while a thread forks (`idle`), so the child starts with the right count.
- `FlyInv`: at which labels a call has a flight.
- `FlightInv`: a flight has one owner; a registered flight has an owner that has yet
  to remove it, and one that is waited for has an owner that has yet to set it.
  Outside a child, every owner before its signal is registered, hence one per key.
  That these owners go on, but for `ShutOut` and `Orphaned`, follows with `ExitInv`,
  which says that a thread parks only behind another thread's `close()`.

A fork needs nothing of its own beyond this: `ForkChild` empties the table of
flights and drops the other threads, and each conjunct survives both.

`DiskCache_proofs` proves, for all sets of processes, keys and directories, every
bound of the root:

| Theorem | Property | Premise |
|---|---|---|
| `TypeCorrect` | `TypeOK` | none |
| `ReaderSeesWholeEntry` | `EntryNeverPartial` | none |
| `WholeUnlessStalled` | `EntryWhole`: a partial entry is debris of an earlier release | no stall |
| `ReadersLeaveTheRoot` | `ReadOnlyNeverWrites` (an action property) | none |
| `RacesAreExpected` | `RaceNeverDisablesCache` | no call is refused, no stall |
| `NothingLeft` | `NoStagingLeftBehind` | no kill, no stall |
| `RaceIsNoTampering` | `NoFalseMismatch` | no debris at the start, no stall |
| `FirstRenameWins` | `OneArtifactPerKey` | no debris, no call is refused, no stall |

A stall is an hour that passes while a process is inside a call; hours between the
calls need no premise.

Each premise fixes the constants `Faults` and `DebrisKeys`, and TLC refutes the
property without it: a process whose read is refused gives the cache up, as the
code means it to; a killed process leaves its directory; a process whose publish is
refused keeps its own artifact. With debris of an earlier release at the start,
three processes are enough: two find it, the first repairs and publishes, the second
sets that complete entry aside as it would the debris, and the third finds the key
free and publishes again; the rename back is then refused and the first entry is
removed with the directory it was set aside in (`_runtime.py:2240-2246`). With a
fourth call a reader takes one file from the first entry and the next from the
second, and its digests report a corruption nobody caused (`NoFalseMismatch`). The
comment there foresees the second publish; the two artifacts are of one key, so the
processes go on. The
runs make the same split, and each fault occurs in `DiskCacheFault`.
`DiskCacheAssumption` adds that the keys are finite (the trim lists the root) and
that no key is a directory's own name. `MaxCalls` stays a bound, for every value.

- `NamesInv`, `FreshInv`: private paths are private, and a directory that is being
  written or about to receive an entry is there, is new and is removed by nobody.
- `StageInv`: what is written is a prefix of the three files, and all of them at
  the rename: the entry is whole from its first moment.
- `RmInv`: a removal that opened a directory works on the one at its path, and
  unless the path is its own that one is old or incomplete. This is why, without a
  stall, the trim's removal of dead staging directories does not hit a live one.
- `AsideInv`: a repair that finds the entry it set aside complete has not set
  aside an aged one, and what it renames back is complete.
- `ReaderInv`, `OffInv`: the labels of a read-only process; only a refused call
  makes a process give the cache up.
- With stalls `FreshInv` fails, and with it what rests on it. `SInv` holds in their place for
  `ReaderSeesWholeEntry`: `StallInv` says of every directory that is not `taken` that
  what its writer has written is there, that a removal which opened it removes it at a
  path no other process uses, and that what is put back is whole.
- beside these, for `NothingLeft`, `LeftInv`: every private directory is the
  staging or the set-aside directory of a process that is not at rest; for
  `RaceIsNoTampering`, `KeptInv`: while the key of a lookup is not evicted, the
  entry it found stands and everything read so far is its content; for `FirstRenameWins`,
  `HeldInv`: what a process holds of a key that is not evicted is what the entry
  holds.

`Artifact_proofs` proves, for all sets of runs, directories and threads, every list
of kernels and everything the runs may be built from:

| Theorem | Property |
|---|---|
| `TypeCorrect` | `TypeOK` |
| `ReaderSeesWhole` | `PublishedWhole` |
| `FailureLeavesNothing` | `FailedRunLeavesNothing` |
| `OneRun` | `ArtifactIsOneRun` |
| `ServedFits` | `ServedKernelFits` |

The assumptions: a build has a text, a target, limits and a flaw
(`BuildsAreBuilds`); an artifact has a kernel and each kernel a file of its own
(`KernelFilesAssumption`: `compile.py` names them by their contents); runs,
directories and the markers differ (`NamesAssumption`). The invariant has two
halves, since the loading process never changes a file. `FilesInv` says that a
staging directory holds a prefix of the files in their order, all of its own run,
and is gone unless the run writes or was killed; so a rename publishes all files,
and a run that fails removes the only directory it has. `ProcessInv` says that the
holder of the lock is the thread that loads, that what it has read so far is of
the run whose manifest it read (a file replaced in between fails its digest), and
that every kernel in the memo was built for the target it is filed under, from the
text of this process. The slot may change between the questions of a call;
each answer is whole, and the memo's key carries what the check depends on.

`CompilerIdentity_proofs` proves, for all sets of processes and kernels, every list of
sources and libraries, any number of versions and of changes:

| Theorem | Property |
|---|---|
| `KeyNamesItsCode` | `EntryMadeByItsKey` |
| `ServedRunsItsOwn` | `ServedByOwnCode` (an action property) |

The assumption is `CompilerIdentityAssumption`: there is a source and a library, no
file is both, and `Gone` and `None` are no version.

- The heart is `SeenInv`: call a file old for a process when it is on the disk and
  was last changed before the process started. Whatever the process has loaded,
  hashed, memorised or has in hand of an old file is what the file holds now.
  Installing makes a file young, removing it makes it absent, so an old file has
  not changed since before the start.
- `SourceInv`, `CheckInv`: past the check of its age a file is old, so what was
  loaded is what the identity names (`Agreed`); it stays so whatever happens to the
  file afterwards, because neither side changes. The sources are read before they
  are asked for their age, the libraries after; hence the exception for a
  library that is removed and put back.
- `WorkInv`: what a call is at, and how far its scan has come; a compile has loaded
  every file. `StartInv`: a start time is past.

An entry is published where `CheckInv` holds and every file is loaded, so its key
is what was loaded; a process that is served compares its own `Agreed` with that of
the entry.

`SegmentPlan_proofs` holds the facts about the operators of `SegmentPlan`, for every
list of offsets: the array form, the sequential form and the classifier accept
exactly the lists that start at zero, do not decrease, end within the values and
have counts that fit (`Valid`), and the two checks give the same verdict on words
(the first bad index decides both); narrowing is exact on words, so the host copy of
admitted offsets is what was given; a clamped range lies within its bound, and
is the range itself when that already did; the search for a row's segment finds the
segment whose range holds the row, and the difference of two running counts of ties
is the number of ties between them.

The second half of `SegmentPlan_proofs` is about the records of a plan, for valid
offsets of any length and any limits. The walk of the classifier is a recursive
function of the segments; instead of an induction theorem, which takes an operator,
`CountUp` (a set that holds zero and every successor holds the whole interval) and
`Recursion` (a function that is built up step by step exists) carry the arguments
from segment to segment. `Position` says where each cursor stands before a segment, `Fills` that a
set of stores gives every index of an interval exactly one word:

- `StoresFill`: the stores fill the buffer that the counts sized. It was not
  initialised, so a word that no store reaches would be a word of garbage.
- `MergeRecordsAre`: record `m` of the merges names the `m`-th split segment, its
  first scratch slot, and the slot behind its last.
- `RecordsAre`, `WordsOfLists`: the words a kernel loads are the ones that were stored.

`SegmentedCall_proofs` proves, for any offsets, batches, features, task lists, any
number of values and segments, any number of steps that raise and of
launches of a prepared reduction:

| Theorem | Property |
|---|---|
| `LeasesAreReturned` | `LeasesReturned` |
| `QueuedWorkIsSafe` | `QueuedWorkKeepsItsMemory` |
| `EveryWriteIsCounted` | `WritesAreCounted` |
| `FirstErrorIsRaised` | `FirstErrorRaised` |
| `RefusalsTouchNothing` | `RefusalTouchesNothing` |
| `FormsAgree` | `BothFormsAgree` |
| `GradientIsOfForward` | `GradientUsesForwardOffsets` |
| `AccessesAreInBounds` | `AccessInBounds` |
| `RecordsAreThere` | no kernel reads records that are not uploaded (no run of its own) |

The assumptions are `PlanAssumption` (the limits of the target are positive and
ordered, the subgroup is a power of two, `ChunkMax` and the number of values fit a
word) and `CallAssumption` (what the calls are enumerated from are integers and
lists). `CallInvariance` proves the
inductive invariant `IInv`, which is about the script that is left in `todo`:

- `CallType`, `StoreType`, `PathInv`: which steps a body and a cleanup can hold, and
  which calls are in which mode; only a prepared object is launched again.
- `BodyInv`: the shape of what is left of a body. Compiles come first, and as long
  as one is left nothing was uploaded or leased (for `RefusalTouchesNothing`); an
  enqueue of `mixed()` is followed by the retention of everything its kernel
  touches and then by the end of the phase; a fixed launch has one enqueue.
- `LeaseInv`: in a cleanup, every lease that is still owed has its release ahead; a
  lease is lost only to a release that raised.
- `MemoryInv`: what a queued kernel touches was recorded for the stream, its
  `record_stream` raised, or the retention is still ahead (`Pending`): in the
  cleanup, in the phase, or, in a one-shot body, in the cleanup that any end of
  the body leads to. That is why every way out of a body goes through `Finish`
  with the kernels that were attempted, also when the enqueue itself raised.
- `CountInv`: the counted, the lost and the due advances of the output version
  (one is due once an output kernel was attempted) are the writes; the lost ones
  carry the number of their launch, so they are distinct.
- `ErrorInv`: the error of the body, or else the first one of the cleanup, is the
  first error, and a cleanup starts with at most one.

`ReboundInv`, for the second half of `QueuedWorkIsSafe`, says that a prepared object
whose storage was rebound has nothing queued and is not launched again.

`GradientInv`, for `GradientIsOfForward`, is about the offsets between a forward
and its backward: until the forward ends they are not written, because they are
read by the call itself; then `saved` holds their copy and their version, the host
copy is still the admitted one, and a counted write makes the version differ
unless the offsets are an inference tensor, whose copy is used. The lemma
`GradientRight` shows that the search for the row, the running count of ties and
the clamp of its bounds together give each row the gradient of its segment.

The last part of `SegmentedCall_proofs` proves `AccessesAreInBounds` and
`RecordsAreThere`: no fused, partial or merge kernel runs before the records it reads
are uploaded. Their inductive invariant is `BoundInv`, on top of `IInv` and
`GradientInv`:

- `PlaceInv`: from the plan on the host offsets are valid, and the device offsets are
  as many, whatever they hold; the output has places only for segments and takes rows
  only of the values.
- `ScratchInv`: the scratch has places only for partial tasks, and a call that does
  not split enqueues none.
- `UploadInv`: of a queued kernel that reads the records, the upload is done or a wait
  for it is queued before it; of one that is still in a script, an upload is
  before it. A prepared reduction has its upload queued before its first launch, and
  an object that is marked ready has it done.

A kernel's stores are in bounds although the offsets may be overwritten while it runs,
because each loaded range is clamped and each loaded segment compared; the arguments
are laid out as the records (`ArgumentsAre`), also with the private copy of int64
offsets behind them.

Model-checked only: `CallsReturn` and every liveness property (fairness is out
of the prover's reach), and `ResultRight`, which needs that the chunks of a split
segment, joined in the order of their scratch slots, are the rows of the segment, on
top of the order of the queue for each launch path.

## 6. What is left out

- Kernel arguments, tensors, PTX, digests and file contents are opaque.
- A garbage collection that runs `__del__` of a lease inside a critical section.
- Directory listing and `mkdtemp` are atomic; rename is atomic, as POSIX says;
  `rmtree` does not fail.
- `_cache_usable`'s checks of owner and mode appear as the fault "read" of
  `DiskCache`, those of an artifact directory as its field `open`.
- `CompilerIdentity`: the verdict on the bindings is one step.
- `SegmentedCall`: one launch stream, one call; floating-point values, second
  derivatives and the text of the generated programs. `Rebind` happens while nothing
  is queued: what queued work needs of storage that goes is the matter of `Drop`.
- `PersistentQueue`: the claims of the persistent kernel on the device, the
  context check of `_prepared_stream`, replays of captured graphs, which the
  documentation leaves to the caller.
- The validation of arguments and of aliasing in the fixed launch and in
  `FixedCUDALaunch`; the launch wrapper of the C runtime.

Not modelled, with the reason: the CPU oracle (a numerical comparison), the
kernel contract (pure functions of one document; a refused contract is a flaw of
a build in `Artifact`), the front end and the language (syntax-directed, no
state), environment and bindings (reports and import glue), benchmarks (timing),
and the rewriting of MLIR by the dialects and passes, which is out of TLC's
reach; only the index arithmetic of the kernels it emits is in `SegmentPlan`.

## 7. Plan

1. Done: residency with proofs; cold path; persistent cache; compiler identity;
   segmented plan and calls; persistent sum with an abstract specification and
   proofs; artifacts.
2. Theorems: done for every safety property of the runs but `ResultRight`. Next: the
   kernels of a plan, run in their order, reduce every segment, from
   `MergeRecordsAre` and the ranges of the chunks.
3. Abstract specifications: a map from keys to immutable artifacts that
   `DiskCache` implements for one key without eviction, and a "compute once" cell
   that `ColdPath` implements.
4. Models: the validation of the fixed launch and `ContextUse` of the native
   extension; the claims of the persistent kernel on the device.
