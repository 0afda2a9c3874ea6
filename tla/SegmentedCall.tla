----------------------------- MODULE SegmentedCall -----------------------------
(***************************************************************************)
(* One segmented call from the front door to the device: the checks of the *)
(* public calls, the host copy of the offsets, planning, compilation,      *)
(* leases, uploads, enqueues, the cleanup that follows whatever failed, a  *)
(* prepared reduction that is launched several times, the fixed launch,    *)
(* and the backward of a recorded call.                                    *)
(*                                                                         *)
(* A launch function is a script: the steps of its body in the order of    *)
(* the code.  A step succeeds or raises; the first error of the body skips *)
(* the rest of it and goes to the cleanup, whose steps are all attempted.  *)
(* The device runs the queue of the launch stream at its own pace.         *)
(***************************************************************************)
EXTENDS SegmentPlan

CONSTANTS
    ValueCount,    \* rows of the values
    Words,         \* words the offsets are enumerated from
    FirstWords,    \* words the first offset is enumerated from
    MaxSegments,   \* bound: segments of a call
    Batches,       \* bound: offsets of the prepared and the recorded calls
    Features,      \* feature counts; one column runs the scalar kernels
    TaskLists,     \* task lists of the private task launch
    MaxFaults,     \* bound: steps that raise in a behaviour
    MaxLaunches    \* bound: launches of a prepared reduction

ASSUME CallAssumption ==
    /\ ValueCount \in 0..(I32Limit - 1)
    /\ FirstWords \subseteq Int /\ Words \subseteq Int /\ Features \subseteq Nat
    /\ Batches \subseteq Seq(0..ValueCount)
    /\ {MaxSegments, MaxFaults, MaxLaunches} \subseteq Nat

VARIABLES
    job,        \* the arguments of the call
    mode,       \* where the host is
    host,       \* the validated int32 copy of the offsets
    todo,       \* the steps left of the body or of the cleanup
    policy,     \* the prepared callable that runs, or "none"
    held,       \* kernels whose lease the call or the prepared object holds
    attempted,  \* kernels whose enqueue this launch attempted
    log,        \* errors in the order they happened, and what they cost
    memory,     \* what was copied, uploaded, kept for the stream, and reused
    counter,    \* version counters and what the launches expect of them
    queue,      \* work of the launch stream, oldest first
    device,     \* offsets, output, scratch and task records in device memory
    saved,      \* what a recorded call keeps for its backward
    launches    \* launches of the prepared object so far

vars == <<job, mode, host, todo, policy, held, attempted, log, memory, counter,
          queue, device, saved, launches>>

-------------------------------------------------------------------------------
\* Calls.  "reduce" and "softmax" are public; the others are private.
Public == {"reduce", "softmax"}

FrontChecks == <<"kind", "tensor", "rank", "out", "recording",
                 "bindings", "numpy", "capture", "dtype">>
TensorChecks == <<"dtype", "layout", "columns">>
PlaceChecks == <<"overlap", "no cuda", "device">>
Defects == ToSet(FrontChecks \o TensorChecks \o PlaceChecks)

\* The first check that a call fails decides its error.
FirstFailed(checks, defects) ==
    LET failed == {i \in DOMAIN checks : checks[i] \in defects}
    IN IF failed = {} THEN "none" ELSE checks[Min(failed)]

Starting(first, rest) == <<first>> \o rest
OffsetLists ==
    {<<>>} \cup {Starting(f, t) : f \in FirstWords,
                 t \in UNION {[1..n -> Words] : n \in 0..MaxSegments}}
I32Lists == {o \in OffsetLists : \A i \in DOMAIN o : Narrow(o[i]) = o[i]}
ValidLists == {o \in I32Lists : OffsetVerdict(o, ValueCount) = "valid"}
CtaLists == {o \in ValidLists : SelectsDirectCta(o, ChunkMax)}
Sample == <<0, ValueCount>>

Plain ==
    [path |-> "reduce", raw |-> Sample, wide |-> FALSE, features |-> 1,
     recording |-> FALSE, kind |-> "sum", inference |-> FALSE, small |-> FALSE,
     tasks |-> <<>>, share |-> 0, defects |-> {}]

WithOffsets(path, o, features) ==
    [Plain EXCEPT !.path = path, !.raw = o, !.features = features]
WideCall(path, o, features) == [WithOffsets(path, o, features) EXCEPT !.wide = TRUE]
CtaCall(o, wide) == [WithOffsets("reduce", o, 1) EXCEPT !.wide = wide, !.small = TRUE]
PreparedCall(o, share) ==
    [WithOffsets("prepared", o, 1) EXCEPT !.small = (o \in CtaLists), !.share = share]
RecordedCall(path, o, wide, inference, kind) ==
    [WithOffsets(path, o, 1) EXCEPT !.wide = wide, !.recording = TRUE,
                                    !.inference = inference, !.kind = kind]
RecordedReduction(o, inference, kind) ==
    RecordedCall("reduce", o, FALSE, inference, kind)
TasksCall(o, tasks) == [WithOffsets("tasks", o, 1) EXCEPT !.tasks = tasks]
FailingCall(path, features, defects) ==
    [WithOffsets(path, Sample, features) EXCEPT !.defects = defects]

Jobs ==
    {WideCall(p, o, f) : p \in Public, o \in OffsetLists, f \in Features}
    \cup {WithOffsets(p, o, f) : p \in Public \cup {"direct"}, o \in I32Lists,
                                 f \in Features}
    \cup {CtaCall(o, w) : o \in CtaLists, w \in BOOLEAN}
    \cup {PreparedCall(o, n) : o \in Batches, n \in {0, 1}}
    \cup {RecordedCall("softmax", o, w, i, "sum") :
              o \in Batches, w \in BOOLEAN, i \in BOOLEAN}
    \cup {RecordedReduction(o, i, k) :
              o \in Batches, i \in BOOLEAN, k \in {"sum", "max"}}
    \cup {TasksCall(o, t) : o \in ValidLists, t \in TaskLists}
    \cup {WithOffsets("fixed", Sample, 1)}
    \cup {FailingCall(p, 1, d) :
              p \in Public, d \in {d \in SUBSET Defects : Cardinality(d) \in {1, 2}}}
    \cup {FailingCall("direct", f, {"block"}) : f \in Features}

NoError == <<"none", "none">>
NoErrors == [errors |-> <<>>, body |-> NoError, cleanup |-> NoError,
             raised |-> NoError, lost |-> {}, faults |-> 0]

Init ==
    /\ job \in Jobs
    /\ mode = IF job.path \in Public THEN "front"
              ELSE IF job.path = "fixed" THEN "plan" ELSE "shapes"
    /\ host = <<>> /\ todo = <<>> /\ policy = "none"
    /\ held = {} /\ attempted = {} /\ log = NoErrors
    /\ memory = [copied |-> FALSE, uploads |-> {}, recorded |-> {}, reused |-> {}]
    /\ counter = [output |-> 0, offsets |-> 0, expected |-> 0, writes |-> 0]
    /\ queue = <<>>
    /\ device = [offsets |-> job.raw, written |-> "no", out |-> <<>>,
                 scratch |-> <<>>, upload |-> "none", ready |-> FALSE,
                 capturing |-> FALSE]
    /\ saved = [offsets |-> <<>>, version |-> 0, forward |-> <<>>,
                gradient |-> <<>>]
    /\ launches = 0

-------------------------------------------------------------------------------
\* What the host knows once the offsets are validated.
Rows == job.path = "reduce" /\ job.features # 1
WarpLimit == IF Rows THEN RowChunk(job.features) ELSE WarpMax
ChunkLimit == IF Rows THEN RowChunk(job.features) ELSE ChunkMax
Splits == SplitCount(host, ChunkLimit) > 0
Directs == Len(host) - 1 > SplitCount(host, ChunkLimit)
ChoosesCta == job.small /\ SelectsDirectCta(host, ChunkLimit)
SplitKernels == IF Splits THEN <<"partial", "merge">> ELSE <<>>
KernelOffsets == IF job.wide THEN "offsets32" ELSE "offsets"

\* Kernels that store to the output; the partial kernel stores to scratch.
Writers == {"fused", "merge", "cta", "warp", "direct", "fixed"}

Each(op, seq) == [i \in DOMAIN seq |-> <<op, seq[i]>>]
Narrowed == IF job.wide THEN <<<<"upload", "offsets32">>>> ELSE <<>>
Scratch == IF Splits THEN <<<<"alloc", "scratch">>>> ELSE <<>>

\* _launch_one, after the steps of its caller.
LaunchOne(before, kernel) == before \o <<<<"lease", kernel>>, <<"enqueue", kernel>>>>

\* _launch_planned_reduction: every kernel is compiled and leased before the
\* upload; the direct-CTA choice launches the segment ids instead.
PlannedBodyUploadFirst ==
    LET kernels == (IF Directs THEN <<"fused">> ELSE <<>>) \o SplitKernels
    IN <<<<"upload", "records">>>> \o Scratch \o Each("compile", kernels)
       \o Each("lease", kernels) \o Each("enqueue", kernels)

PlannedBody ==
    LET kernels == (IF Directs THEN <<"fused">> ELSE <<>>) \o SplitKernels
    IN IF ChoosesCta
       THEN LaunchOne(<<<<"compile", "cta">>, <<"upload", "ids">>>> \o Narrowed, "cta")
       ELSE Each("compile", kernels) \o Each("lease", kernels)
            \o <<<<"upload", "records">>>> \o Scratch \o Each("enqueue", kernels)

\* _launch_planned_rows: without a split the segment ids are the task list.
RowsBody ==
    LET kernels == (IF Directs THEN <<"cta">> ELSE <<>>) \o SplitKernels
    IN Each("compile", kernels) \o Each("lease", kernels)
       \o (IF Splits THEN <<<<"upload", "records">>>> \o Scratch
                     ELSE <<<<"upload", "ids">>>> \o Narrowed)
       \o Each("enqueue", kernels)

\* _launch_columns: the row-stripe tile of a public softmax reads the segment
\* ids; the column tile of a private launch reads none.
ColumnsBody ==
    IF job.path = "softmax"
    THEN LaunchOne(<<<<"compile", "cta">>>> \o Narrowed \o <<<<"upload", "ids">>>>,
                   "cta")
    ELSE LaunchOne(<<<<"compile", "direct">>>>, "direct")

\* _launch_softmax narrows the offsets before _enqueue_softmax compiles.
SoftmaxBody == LaunchOne(Narrowed \o <<<<"compile", "direct">>>>, "direct")

\* launch_gpu, _launch_segmented_sum_tasks, and the fixed launch.
DirectBody == LaunchOne(<<<<"compile", "direct">>>>, "direct")
TasksBody == LaunchOne(<<<<"compile", "cta">>>>, "cta")
FixedBody == LaunchOne(<<<<"compile", "fixed">>>>, "fixed")

\* _prepare_planned_reduction: the output version is advanced once to learn
\* whether the offsets share it; both pure kernels are always prepared.
PrepareBody ==
    LET split == IF ChoosesCta THEN <<>> ELSE SplitKernels
        kernels == <<"warp", "cta">> \o (IF Directs THEN <<"fused">> ELSE <<>>) \o split
    IN IF Len(host) = 1 THEN <<<<"advance", 0>>>>
       ELSE <<<<"advance", 0>>>> \o Each("compile", kernels) \o Each("lease", kernels)
            \o <<<<"upload", "ids">>>>
            \o (IF ChoosesCta THEN <<>> ELSE <<<<"upload", "records">>>> \o Scratch)

Body ==
    CASE Rows -> RowsBody
      [] job.path = "reduce" /\ job.features = 1 -> PlannedBody
      [] job.path \in {"softmax", "direct"} /\ job.features # 1 -> ColumnsBody
      [] job.path = "softmax" /\ job.features = 1 -> SoftmaxBody
      [] job.path = "direct" /\ job.features = 1 -> DirectBody
      [] job.path = "tasks" -> TasksBody
      [] job.path = "fixed" -> FixedBody
      [] job.path = "prepared" -> PrepareBody

\* One phase of mixed(): an enqueue and the retention of what it touches.
PhaseTensorsInput(kernel) ==
    CASE kernel = "fused" -> <<"values", "offsets", "output", "records">>
      [] kernel = "partial" -> <<"values", "offsets", "records">>
      [] kernel = "merge" -> <<"offsets", "output", "records", "scratch">>

PhaseTensors(kernel) ==
    CASE kernel = "fused" -> <<"values", "offsets", "output", "records">>
      [] kernel = "partial" -> <<"values", "offsets", "records", "scratch">>
      [] kernel = "merge" -> <<"offsets", "output", "records", "scratch">>
Phase(kernel) ==
    <<<<"enqueue", kernel>>>> \o Each("retain", PhaseTensors(kernel))
    \o <<<<"end", kernel>>>>
MixedBody ==
    (IF Directs THEN Phase("fused") ELSE <<>>)
    \o (IF Splits THEN Phase("partial") \o Phase("merge") ELSE <<>>)
LaunchBody(p) ==
    IF p = "mixed" THEN MixedBody ELSE <<<<"enqueue", p>>>>

-------------------------------------------------------------------------------
\* What a launch retains for its stream, the output in its place if it wrote it.
Retained(output) ==
    CASE policy \in {"warp", "cta"} -> <<"values", "offsets">> \o output \o <<"ids">>
      [] policy = "mixed" -> <<>>
      [] policy = "none" /\ job.path = "fixed" -> <<"values", "values2">> \o output
      [] policy = "none" /\ job.path = "tasks" ->
           <<"values", "offsets">> \o output \o <<"tasks">>
      [] policy = "none" /\ job.path = "reduce" /\ ~ChoosesCta /\ (Splits \/ ~Rows) ->
           (IF job.wide THEN <<"values">> ELSE <<"values", "offsets">>) \o output
           \o (IF Splits THEN <<"records", "scratch">> ELSE <<"records">>)
      [] OTHER -> <<"values", KernelOffsets>> \o output
           \o (IF "ids" \in memory.uploads THEN <<"ids">> ELSE <<>>)

\* The finally blocks.  Nothing is retained unless an enqueue was attempted,
\* and the output neither retained nor advanced for scratch-only work.
Tried(tried) == tried # {}
Wrote(tried) == tried \cap Writers # {}
Written(tried) == IF Wrote(tried) THEN <<"output">> ELSE <<>>
FinalAfterEnqueue(tried) ==
    IF tried = {} THEN <<>>
    ELSE Each("retain", Retained(Written(tried)))
         \o (IF Wrote(tried) THEN <<<<"advance", launches>>>> ELSE <<>>)
         \o Each("release", SetToSeq(held))
Final(tried) ==
    (IF tried = {} THEN <<>> ELSE Each("retain", Retained(Written(tried))))
    \o (IF Wrote(tried) THEN <<<<"advance", launches>>>> ELSE <<>>)
    \o (IF policy = "none" THEN Each("release", SetToSeq(held)) ELSE <<>>)
FixedFinal(tried) ==
    IF tried = {} THEN <<>>
    ELSE Each("release", SetToSeq(held)) \o Each("retain", Retained(<<"output">>))
         \o <<<<"advance", launches>>>>
Finish(tried) == IF job.path = "fixed" THEN FixedFinal(tried) ELSE Final(tried)

-------------------------------------------------------------------------------
\* Raise before anything was taken: the call ends, or the prepared object stays.
Refuse(error, next) ==
    /\ log' = [log EXCEPT !.errors = Append(@, <<"refuse", error>>),
                          !.raised = <<"refuse", error>>]
    /\ mode' = next
Fault == log.faults < MaxFaults

\* The checks of segment_reduce and segment_softmax, before the host copy.
FrontDoor ==
    /\ mode = "front"
    /\ LET failed == FirstFailed(FrontChecks, job.defects)
       IN IF failed = "none" THEN mode' = "shapes" /\ UNCHANGED log
                             ELSE Refuse(failed, "ended")
    /\ UNCHANGED <<job, host, todo, policy, held, attempted, memory, counter,
                   queue, device, saved, launches>>

\* The offsets a call reads: a backward reads what its forward kept.
KeptByReference == device.offsets
Kept == IF job.inference THEN saved.offsets ELSE device.offsets

\* _validate_covering_offsets adds to the checks of a public softmax.
CallVerdict(raw) ==
    LET planned == job.path \in {"reduce", "prepared"}
        verdict == HostVerdict(raw, job.wide, ValueCount, planned, ChunkLimit) IN
    IF verdict = "valid" /\ job.path = "softmax" /\ Last(raw) # ValueCount
    THEN "does not cover" ELSE verdict

\* _validate_shapes: the copy waits for the work that was queued before it, so
\* the uploads and records of an earlier call are of no interest any more.
ValidateShapes ==
    /\ mode = "shapes" /\ queue = <<>>
    /\ LET raw == IF saved.forward = <<>> THEN device.offsets ELSE Kept
           tensors == FirstFailed(TensorChecks, job.defects)
           verdict == CallVerdict(raw)
           place == FirstFailed(PlaceChecks, job.defects)
       IN /\ memory' = [memory EXCEPT !.copied = @ \/ tensors = "none",
                                   !.uploads = {}, !.recorded = {}]
          /\ CASE tensors # "none" -> Refuse(tensors, "ended") /\ UNCHANGED host
               [] tensors = "none" /\ verdict # "valid" ->
                    Refuse(verdict, "ended") /\ UNCHANGED host
               [] tensors = "none" /\ verdict = "valid" /\ place # "none" ->
                    Refuse(place, "ended") /\ UNCHANGED host
               [] OTHER -> /\ host' = HostOffsets(raw, job.wide)
                           /\ mode' = "plan" /\ UNCHANGED log
    /\ device' = [device EXCEPT !.out = <<>>]
    /\ UNCHANGED <<job, todo, policy, held, attempted, counter, queue, saved,
                   launches>>

\* What can refuse or end a call between validation and its first kernel.
Planned == job.path = "prepared" \/ (job.path = "reduce" /\ job.features # 0)
PlanVerdict ==
    CASE job.path = "tasks" ->
           IF ToSet(job.tasks) \subseteq Segments(host) THEN "go" ELSE "task ids"
      [] job.path = "direct" -> IF "block" \in job.defects THEN "block" ELSE "go"
      [] job.path \in {"reduce", "prepared"} ->
           IF PlanFits(host, ChunkLimit) THEN "go" ELSE "plan size"
      [] OTHER -> "go"
NothingToDo ==
    CASE job.path = "fixed" -> FALSE
      [] job.path = "tasks" -> job.tasks = <<>>
      [] job.path = "prepared" -> FALSE
      [] OTHER -> Len(host) = 1 \/ job.features = 0

Plan ==
    /\ mode = "plan"
    /\ CASE PlanVerdict # "go" -> Refuse(PlanVerdict, "ended") /\ UNCHANGED todo
         [] PlanVerdict = "go" /\ NothingToDo ->
              mode' = "finally" /\ todo' = <<>> /\ UNCHANGED log
         [] OTHER -> mode' = "body" /\ todo' = Body /\ UNCHANGED log
    /\ attempted' = {}
    /\ UNCHANGED <<job, host, policy, held, memory, counter, queue, device,
                   saved, launches>>

\* Planning admission, or an artifact without the program, refuses a plan.
RefuseProgram ==
    /\ mode = "plan" /\ Planned /\ Fault
    /\ Refuse("program", "ended")
    /\ UNCHANGED <<job, host, todo, policy, held, attempted, memory, counter,
                   queue, device, saved, launches>>

-------------------------------------------------------------------------------
\* Steps of a body.
At(op) == mode = "body" /\ todo # <<>> /\ Head(todo)[1] = op
Go == todo' = Tail(todo) /\ UNCHANGED <<log, mode>>

\* A step that raises: the rest of the body is skipped.
Raise(error, cleanup) ==
    /\ log' = [log EXCEPT !.errors = Append(@, error), !.body = error,
                          !.faults = @ + 1]
    /\ mode' = "finally" /\ todo' = cleanup

\* _compile_once: held, compiled, or refused.
Compile ==
    /\ At("compile")
    /\ \/ Go
       \/ Fault /\ Raise(Head(todo), Finish(attempted))
    /\ UNCHANGED <<job, host, policy, held, attempted, memory, counter, queue,
                   device, saved, launches>>

Lease ==
    /\ At("lease")
    /\ \/ Go /\ held' = held \cup {Head(todo)[2]}
       \/ Fault /\ Raise(Head(todo), Finish(attempted)) /\ UNCHANGED held
    /\ UNCHANGED <<job, host, policy, attempted, memory, counter, queue, device,
                   saved, launches>>

\* An upload of a one-shot call is complete for the kernels behind it; the one
\* of a preparation is waited for through tasks_ready.
Upload ==
    /\ At("upload") \/ At("alloc")
    /\ \/ /\ Go
          /\ memory' = [memory EXCEPT !.uploads = @ \cup {Head(todo)[2]}]
          /\ device' = [device EXCEPT !.upload =
                IF Head(todo)[2] # "records" THEN @
                ELSE IF job.path = "prepared" THEN "queued" ELSE "done"]
       \/ Fault /\ Raise(Head(todo), Finish(attempted)) /\ UNCHANGED <<memory, device>>
    /\ UNCHANGED <<job, host, policy, held, attempted, counter, queue, saved,
                   launches>>

\* An enqueue that raises may have submitted its kernel; during a capture the
\* kernel goes to the graph.
Enqueue ==
    LET kernel == Head(todo)[2]
        tried == attempted \cup {kernel}
        submitted == IF device.capturing THEN queue ELSE Append(queue, kernel)
        retains == IF policy = "mixed" THEN Each("retain", PhaseTensors(kernel))
                                       ELSE <<>>
    IN /\ At("enqueue")
       /\ attempted' = tried
       /\ counter' = [counter EXCEPT !.writes =
                        @ + IF kernel \in Writers /\ attempted \cap Writers = {}
                            THEN 1 ELSE 0]
       /\ \/ Go /\ queue' = submitted
          \/ /\ Fault /\ Raise(Head(todo), retains \o Finish(tried))
             /\ queue' \in {queue, submitted}
       /\ UNCHANGED <<job, host, policy, held, memory, device, saved, launches>>

\* The end of the body: the finally block of one call, or of one launch.
EndBody ==
    /\ mode = "body" /\ todo = <<>>
    /\ mode' = "finally"
    /\ todo' = IF job.path = "prepared" /\ policy = "none" THEN <<>>
               ELSE Finish(attempted)
    /\ UNCHANGED <<job, host, policy, held, attempted, log, memory, counter,
                   queue, device, saved, launches>>

\* A phase whose retention failed raises when the phase ends.
EndPhase ==
    /\ At("end")
    /\ IF log.cleanup = NoError THEN Go
       ELSE /\ log' = [log EXCEPT !.body = log.cleanup]
            /\ mode' = "finally" /\ todo' = Finish(attempted)
    /\ UNCHANGED <<job, host, policy, held, attempted, memory, counter, queue,
                   device, saved, launches>>

-------------------------------------------------------------------------------
\* Steps of a cleanup: each is attempted, the first error is remembered.
In(op) == mode \in {"body", "finally"} /\ todo # <<>> /\ Head(todo)[1] = op
Slip ==
    /\ Fault
    /\ log' = [log EXCEPT !.errors = Append(@, Head(todo)), !.faults = @ + 1,
                          !.lost = @ \cup {Head(todo)},
                          !.cleanup = IF @ = NoError THEN Head(todo) ELSE @]

Retain ==
    /\ In("retain")
    /\ todo' = Tail(todo)
    /\ \/ /\ memory' = [memory EXCEPT !.recorded = @ \cup {Head(todo)[2]}]
          /\ UNCHANGED log
       \/ Slip /\ UNCHANGED memory
    /\ UNCHANGED <<job, mode, host, policy, held, attempted, counter, queue,
                   device, saved, launches>>

\* _advance_version, wrote_output, and _output_version_step.
Advanced ==
    LET preparing == mode = "body"
        step == IF job.path = "prepared" THEN job.share ELSE 0
    IN [counter EXCEPT !.output = @ + 1, !.offsets = @ + step,
                       !.expected = @ + step,
                       !.writes = @ + IF preparing THEN 1 ELSE 0]

Advance ==
    /\ In("advance")
    /\ \/ todo' = Tail(todo) /\ counter' = Advanced /\ UNCHANGED <<log, mode>>
       \/ /\ mode = "finally" /\ todo' = Tail(todo) /\ Slip
          /\ UNCHANGED <<counter, mode>>
       \/ mode = "body" /\ Fault /\ Raise(Head(todo), <<>>) /\ UNCHANGED counter
    /\ UNCHANGED <<job, host, policy, held, attempted, memory, queue, device,
                   saved, launches>>

Release ==
    /\ In("release")
    /\ todo' = Tail(todo)
    /\ \/ held' = held \ {Head(todo)[2]} /\ UNCHANGED log
       \/ Slip /\ UNCHANGED held
    /\ UNCHANGED <<job, mode, host, policy, attempted, memory, counter, queue,
                   device, saved, launches>>

\* The error a launch raises: its own, or else the first one of its cleanup.
RaisedLast == IF log.cleanup # NoError THEN log.cleanup ELSE log.body
Raised == IF log.body # NoError THEN log.body ELSE log.cleanup

\* The gradient: every row gets the gradient of its segment, and a maximum
\* shares it among the rows that tie with the result of the segment.
RowValue(row) == row % 2
RowValues == [row \in 0..(ValueCount - 1) |-> RowValue(row)]
ExtremeOf(rows) == IF \E r \in rows : RowValue(r) = 1 THEN 1 ELSE 0
Gradient(o) ==
    LET extreme == [s \in Segments(host) |-> ExtremeOf(ToSet(Reduced(host, s)))]
        tied == Tied(o, RowValues, extreme)
        ids == [s \in Segments(host) |-> s + 1]
        shares == [s \in Segments(host) |-> TieCount(o, tied, ValueCount, s)]
        spread == Gather(shares, o, ValueCount)
    IN IF job.kind = "max"
       THEN [row \in DOMAIN RowValues |-> IF row \in tied THEN spread[row] ELSE 0]
       ELSE Gather(ids, o, ValueCount)

\* The call returns or raises.  A recorded call keeps its offsets, as a copy
\* when they have no version counter; the sum of a backward is gathered.
Conclude ==
    /\ mode = "finally" /\ todo = <<>>
    /\ log' = [log EXCEPT !.raised = Raised]
    /\ policy' = "none"
    /\ LET ok == Raised = NoError
           backward == saved.forward # <<>>
       IN /\ mode' = IF policy # "none" \/ (ok /\ job.path = "prepared") THEN "prepared"
                    ELSE IF ok /\ job.recording THEN "recorded" ELSE "ended"
          /\ saved' = CASE ok /\ job.recording ->
                             [saved EXCEPT !.offsets = device.offsets,
                                !.version = counter.offsets, !.forward = host]
                        [] ok /\ backward ->
                             [saved EXCEPT !.gradient = Gradient(Kept)]
                        [] OTHER -> saved
    /\ UNCHANGED <<job, host, todo, held, attempted, memory, counter, queue,
                   device, launches>>

-------------------------------------------------------------------------------
\* A launch of a prepared reduction: unchanged(), then wait_for_tasks.
NewErrors == [NoErrors EXCEPT !.faults = log.faults, !.lost = log.lost]
RefuseLaunch(error) ==
    /\ log' = [NewErrors EXCEPT !.errors = <<<<"refuse", error>>>>,
                                !.raised = <<"refuse", error>>]
    /\ UNCHANGED <<mode, todo, policy, queue, device>>

Launch(p, capturing) ==
    LET q == IF p = "mixed" /\ ChoosesCta THEN "cta" ELSE p
        stale == counter.offsets # counter.expected
        rebound == device.written = "rebound"
        complete == device.ready \/ device.upload # "queued"
    IN /\ mode = "prepared" /\ launches < MaxLaunches
       /\ launches' = launches + 1
       /\ attempted' = {}
       /\ \/ stale /\ RefuseLaunch("stale")
          \/ ~stale /\ rebound /\ RefuseLaunch("rebound")
          \/ ~stale /\ ~rebound /\ capturing /\ ~device.ready /\ RefuseLaunch("capture")
          \/ /\ ~stale /\ ~rebound /\ (capturing => device.ready)
             /\ log' = NewErrors
             /\ mode' = "body"
             /\ policy' = q
             /\ todo' = IF Len(host) = 1 THEN <<>> ELSE LaunchBody(q)
             /\ queue' = IF complete THEN queue ELSE Append(queue, "wait")
             /\ device' = [device EXCEPT !.ready = complete, !.capturing = capturing]
       /\ UNCHANGED <<job, host, held, memory, counter, saved>>

\* The backward of a recorded call.  Autograd compares the version it saved.
Backward ==
    /\ mode = "recorded"
    /\ IF ~job.inference /\ counter.offsets # saved.version
       THEN Refuse("stale", "ended") /\ UNCHANGED <<job, saved>>
       ELSE \/ /\ job.path = "reduce"
               /\ saved' = [saved EXCEPT !.gradient = Gradient(Kept)]
               /\ mode' = "ended" /\ UNCHANGED <<job, log>>
            \/ /\ job.path = "softmax"
               /\ job' = [job EXCEPT !.path = "reduce", !.recording = FALSE]
               /\ mode' = "shapes" /\ UNCHANGED <<saved, log>>
            \/ /\ job.path = "softmax"
               /\ Refuse("capture", "ended") /\ UNCHANGED <<job, saved>>
    /\ UNCHANGED <<host, todo, policy, held, attempted, memory, counter, queue,
                   device, launches>>

-------------------------------------------------------------------------------
\* The device.  No step of a body or of a cleanup reads what the device or a
\* writer of the offsets changes, and both may lag behind the host for as long
\* as they like, so it is enough to let them move between launches.
Between == mode \notin {"front", "plan", "body", "finally"}

\* Writes to the offsets: by PyTorch, which counts them, or behind its back,
\* with words that are no valid offsets.
Scrambled ==
    [i \in DOMAIN device.offsets |-> IF i % 2 = 1 THEN -1 ELSE I32Limit - 1]
WriteOffsets ==
    /\ device.written = "no"
    /\ Between /\ (queue # <<>> \/ mode \in {"prepared", "recorded"})
    /\ \/ /\ mode \in {"prepared", "recorded"}
          /\ counter' = [counter EXCEPT !.offsets =
                           IF job.inference THEN @ ELSE @ + 1]
          /\ device' = [device EXCEPT !.offsets = Scrambled, !.written = "counted"]
       \/ /\ device' = [device EXCEPT !.offsets = Scrambled, !.written = "uncounted"]
          /\ UNCHANGED counter
    /\ UNCHANGED <<job, mode, host, todo, policy, held, attempted, log, memory,
                   queue, saved, launches>>

\* The caller gives a tensor of the prepared object other storage, for example
\* with tensor.data = other, which no version counter counts.  Drop looks at what
\* work that is queued by then needs of the storage that goes.
Rebind ==
    /\ mode = "prepared" /\ queue = <<>> /\ device.written = "no"
    /\ device' = [device EXCEPT !.written = "rebound"]
    /\ UNCHANGED <<job, mode, host, todo, policy, held, attempted, log, memory,
                   counter, queue, saved, launches>>

\* The upload of a preparation completes on its stream.
CompleteUpload ==
    /\ Between /\ device.upload = "queued"
    /\ device' = [device EXCEPT !.upload = "done"]
    /\ UNCHANGED <<job, mode, host, todo, policy, held, attempted, log, memory,
                   counter, queue, saved, launches>>

\* What the kernel at the head of the queue stores.
KernelArguments ==
    LET a == Arguments(host, job.wide, WarpLimit, ChunkLimit, ValueCount)
    IN [a EXCEPT !.offsets = IF job.wide THEN @ ELSE device.offsets,
                 !.words = IF device.upload = "done" THEN @
                           ELSE [i \in DOMAIN @ |-> -1]]
TaskArguments ==
    LET ids == IF job.path = "tasks" THEN job.tasks ELSE SegmentSeq(host)
    IN IF Rows /\ Splits THEN KernelArguments
       ELSE [KernelArguments EXCEPT !.words = ids, !.warps = Len(ids), !.ctas = 0]
Unwritten == <<-1>>
ScratchNow(a) ==
    [p \in 0..(a.partials - 1) |->
        IF p \in DOMAIN device.scratch THEN device.scratch[p] ELSE Unwritten]
Stored(kernel) ==
    CASE kernel = "direct" -> DirectWrites(KernelArguments)
      [] kernel \in {"warp", "cta"} -> TaskListWrites(TaskArguments)
      [] kernel = "fused" -> FusedWrites(KernelArguments)
      [] kernel = "partial" -> PartialWrites(KernelArguments)
      [] kernel = "merge" ->
           MergeWrites(KernelArguments, ScratchNow(KernelArguments))
      [] OTHER -> {}
Store(content, pairs) ==
    LET keys == {p[1] : p \in pairs}
    IN [k \in DOMAIN content \cup keys |->
          IF k \in keys THEN (CHOOSE p \in pairs : p[1] = k)[2] ELSE content[k]]

\* The device runs the oldest work of the stream.
Run ==
    /\ Between /\ queue # <<>>
    /\ Head(queue) = "wait" => device.upload = "done"
    /\ queue' = Tail(queue)
    /\ device' =
         CASE Head(queue) \in {"wait", "fixed"} -> device
           [] Head(queue) = "partial" ->
                [device EXCEPT !.scratch = Store(@, Stored("partial"))]
           [] OTHER -> [device EXCEPT !.out = Store(@, Stored(Head(queue)))]
    /\ UNCHANGED <<job, mode, host, todo, policy, held, attempted, log, memory,
                   counter, saved, launches>>

\* Tensors that were allocated on another stream than the one that launched.
Foreign ==
    {"values", "values2", "offsets", "output", "tasks"}
    \cup IF job.path = "prepared" THEN {"records", "scratch"} ELSE {}
Touches(kernel) ==
    CASE kernel = "wait" -> {}
      [] kernel = "fixed" -> {"values", "values2", "output"}
      [] kernel = "partial" -> {"values", "records", "scratch"}
      [] kernel = "merge" -> {"output", "records", "scratch"}
      [] kernel = "fused" -> {"values", "output", "records"}
           \cup IF job.wide THEN {} ELSE {"offsets"}
      [] OTHER -> {"values", "output", KernelOffsets}
           \cup IF job.path = "tasks" THEN {"tasks"} ELSE {}

\* The caller drops its tensors and the prepared object, whose leases go with
\* it; the allocator then gives away what no unfinished work is recorded for.
\* One tensor given away before that work is done is enough to look at.
Drop ==
    /\ mode \in {"ended", "prepared", "recorded"}
    /\ mode' = "dropped"
    /\ held' = IF job.path = "prepared" THEN {} ELSE held
    /\ UNCHANGED <<job, host, todo, policy, attempted, log, memory, counter,
                   queue, device, saved, launches>>
Reuse(x) ==
    /\ mode = "dropped" /\ queue # <<>>
    /\ memory.reused = {} /\ x \notin memory.recorded
    /\ memory' = [memory EXCEPT !.reused = {x}]
    /\ UNCHANGED <<job, mode, host, todo, policy, held, attempted, log, counter,
                   queue, device, saved, launches>>

Next ==
    \/ FrontDoor \/ ValidateShapes \/ Plan \/ RefuseProgram
    \/ Compile \/ Lease \/ Upload \/ Enqueue \/ EndPhase \/ EndBody
    \/ Retain \/ Advance \/ Release \/ Conclude
    \/ \E p \in {"warp", "cta", "mixed"}, c \in BOOLEAN : Launch(p, c)
    \/ Backward \/ WriteOffsets \/ Rebind \/ CompleteUpload \/ Run
    \/ Drop \/ \E x \in Foreign : Reuse(x)

Spec == Init /\ [][Next]_vars

-------------------------------------------------------------------------------
TypeOK ==
    /\ job \in [path : Public \cup {"direct", "prepared", "tasks", "fixed"},
                raw : Seq(Int), wide : BOOLEAN, features : Features,
                recording : BOOLEAN, kind : {"sum", "max"}, inference : BOOLEAN,
                small : BOOLEAN, tasks : Seq(Int), share : {0, 1},
                defects : SUBSET (Defects \cup {"block"})]
    /\ mode \in {"front", "shapes", "plan", "body", "finally", "prepared",
                 "recorded", "ended", "dropped"}
    /\ host \in Seq(0..ValueCount) /\ policy \in {"none", "warp", "cta", "mixed"}
    /\ held \cup attempted \subseteq Writers \cup {"partial"}
    /\ launches \in 0..MaxLaunches /\ log.faults \in 0..MaxFaults
    /\ queue \in Seq(Writers \cup {"partial", "wait"})

Over == mode \in {"ended", "dropped"}

\* A one-shot call gives back every lease it took, whatever step of it or of
\* its cleanup raised (the finally blocks of the launches, _finish_launch).
LeasesReturned ==
    Over => \A k \in held : <<"release", k>> \in log.lost

\* A kernel that is still queued never reads or writes memory that the
\* allocator has given to another stream, unless record_stream raised for it:
\* every tensor an attempted enqueue can touch was recorded, and a prepared
\* object is bound to pointers it never launches with after their storage went.
QueuedWorkKeepsItsMemory ==
    /\ \A i \in DOMAIN queue : \A x \in Touches(queue[i]) \cap memory.reused :
         <<"retain", x>> \in log.lost
    /\ device.written = "rebound" => queue = <<>>

\* The output version moves once per launch that attempted to write the
\* output, however many of its kernels write, and never for another call; only
\* an advance that raised is missing.
WritesAreCounted ==
    mode \notin {"body", "finally"} =>
        counter.output
          + Cardinality({x \in log.lost : x[1] = "advance"}) = counter.writes

\* The caller sees the first error: neither a cleanup nor a later phase
\* replaces it, and no error is swallowed.
FirstErrorRaised ==
    mode \in {"ended", "prepared", "recorded", "dropped"} =>
        log.raised = IF log.errors = <<>> THEN NoError ELSE Head(log.errors)

\* A refused compile of a public reduction leaves the device untouched, and a
\* call under capture is refused before the host copy.
RefusalTouchesNothing ==
    /\ job.path = "reduce" /\ log.body[1] = "compile"
         => memory.uploads = {} /\ held = {}
    /\ job.path \in Public /\ "capture" \in job.defects => ~memory.copied

\* Every form of the offset check accepts the same offsets: a classifier, whose
\* verdict a planned call takes for the check, admits only what the array form
\* admits, and refuses none of it but for the size of the plan.  The first
\* invalid offset decides the message in both forms of the check; a word that
\* is no i32 is refused by the array form too, which never looks for one.
BothFormsAgree ==
    mode = "shapes" =>
        LET array == OffsetVerdict(job.raw, ValueCount)
            sequential == SequentialVerdict(job.raw, ValueCount)
        IN /\ array = "valid" <=> sequential = "valid"
           /\ job.raw \in I32Lists => array = sequential
           /\ job.raw \in I32Lists \ {<<>>} =>
                (array = "valid" <=> ClassifierVerdict(job.raw, ValueCount, ChunkMax)
                                       \in {"valid", "plan size"})

\* The blocks of a row-stripe launch write every column of every task once.
ColumnsCovered(count) ==
    LET groups == ColumnGroups(job.features)
        grid == RowGrid(count, job.features)
        writes(t, c) ==
            {p \in (0..(grid - 1)) \X (0..(count * groups - 1)) :
               /\ p[2] \in ItemsOfBlock(p[1], grid, count * groups)
               /\ p[2] \div groups = t
               /\ c \in ColumnsOfGroup(p[2] % groups, job.features)}
    IN \A t \in 0..(count - 1), c \in 0..(job.features - 1) :
         Cardinality(writes(t, c)) = 1

\* Once the device has run a launch that returned, the output holds the
\* reduction of every segment the call asked for, over the offsets it was given:
\* narrowing, classification, record layout and kernels agree.
ResultRight ==
    mode \in {"ended", "prepared", "recorded"} /\ queue = <<>> /\ attempted # {}
      /\ log.raised = NoError /\ device.written = "no" /\ ~device.capturing
      /\ job.path # "fixed"
      => /\ ColumnsCovered(Len(job.raw) - 1)
         /\ \A s \in IF job.path = "tasks" THEN ToSet(job.tasks) ELSE Segments(job.raw) :
              s \in DOMAIN device.out /\ device.out[s] = Reduced(job.raw, s)

\* The walk that writes the records stores every word of the buffer that the
\* counting walks sized once, and none outside (swageRuntimeWriteTasks).
RecordsFilled ==
    LET stores == Stores(host, WarpLimit, ChunkLimit)
        words == RecordWords(host, WarpLimit, ChunkLimit)
    IN Cardinality(stores) = words /\ {p[1] : p \in stores} = 0..(words - 1)

\* No classifier and no kernel stores outside its records, the output or the
\* scratch, or loads outside the values, also when the offsets are overwritten
\* on the device after they were validated.
AccessInBounds ==
    /\ mode = "plan" /\ Planned /\ PlanFits(host, ChunkLimit) => RecordsFilled
    /\ \A s \in DOMAIN device.out :
         /\ s \in 0..(Len(host) - 2)
         /\ ToSet(device.out[s]) \ {-1} \subseteq 0..(ValueCount - 1)
    /\ \A p \in DOMAIN device.scratch :
         /\ p \in 0..(PartialCount(host, ChunkLimit) - 1)
         /\ ToSet(device.scratch[p]) \subseteq 0..(ValueCount - 1)

\* A gradient is the one of the segments the forward reduced, also when the
\* offsets were written in between; only a write PyTorch cannot see escapes.
GradientUsesForwardOffsets ==
    saved.gradient # <<>> /\ device.written # "uncounted" =>
        \A row \in DOMAIN saved.gradient :
            LET s == {s \in Segments(job.raw) : row \in ToSet(Reduced(job.raw, s))}
                ties(t) == {r \in ToSet(Reduced(job.raw, t)) :
                              RowValue(r) = ExtremeOf(ToSet(Reduced(job.raw, t)))}
            IN saved.gradient[row] =
                 IF s = {} THEN 0
                 ELSE LET t == CHOOSE t \in s : TRUE
                      IN IF job.kind = "sum" THEN t + 1
                         ELSE IF row \in ties(t) THEN Cardinality(ties(t)) ELSE 0
===============================================================================
