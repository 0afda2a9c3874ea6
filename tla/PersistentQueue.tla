---------------------------- MODULE PersistentQueue ----------------------------
(***************************************************************************)
(* One prepared persistent sum (_prepare_persistent_sum): task records that *)
(* an upload fills, one counter array and one scratch buffer that every     *)
(* launch uses again, the offsets the plan was made from, and the host      *)
(* checks that keep launches of several threads on several streams apart.   *)
(*                                                                          *)
(* A stream is a queue of device work.  "upload" fills the task records,    *)
(* "ready" is the record of tasks_ready behind it, "wait" is a wait for     *)
(* that event, "use" is a reset of the counters or a run of the kernel, and *)
(* "fence" is the record of in_flight.  An event has completed when its     *)
(* record has left the queue; recording it again makes the older record of  *)
(* no interest, "past".                                                     *)
(* Launches recorded during a capture put nothing in a queue, and replays   *)
(* of the graph are the caller's to keep apart, so they are left out.       *)
(***************************************************************************)
EXTENDS Naturals, Sequences, SequencesExt, FiniteSets

CONSTANTS
    Threads,          \* host threads that call launch()
    Streams,          \* CUDA streams; a thread names its current one per call
    Home,             \* the stream that was current at preparation
    NoStream,         \* in_flight_stream is None
    MaxLaunches,      \* bound: calls of launch() in a behaviour
    MaxEdits,         \* bound: writes to the offsets, rebindings of a tensor
    CaptureFaults     \* whether a launch may fail while its stream captures

NoThread == "none"     \* nobody holds the launch lock, or captures on a stream

ASSUME NoThreadIsNone == NoThread \notin Threads
ASSUME HomeIsAStream == Home \in Streams
ASSUME NoStreamIsNone == NoStream \notin Streams
ASSUME BoundsAreNatural == MaxLaunches \in Nat /\ MaxEdits \in Nat
ASSUME CaptureFaultsIsBoolean == CaptureFaults \in BOOLEAN

VARIABLES
    queue,       \* queue[s]: the work stream s still has to run, oldest first
    uploaded,    \* the task records are in device memory
    capturer,    \* capturer[s]: the thread that captures a graph on s, or none
    version,     \* offsets._version
    share,       \* version_step: 1 when output and offsets share a counter
    edits,       \* writes to the offsets by the user, which PyTorch counted
    bound,       \* the tensors still have the storage of the preparation
    expected,    \* offsets_version, the version a launch requires
    tasksReady,  \* tasks_ready_complete
    launching,   \* the holder of the launch lock, or none
    inStream,    \* in_flight_stream
    recorded,    \* in_flight_recorded
    pc, at,      \* step of each thread in launch(), and its current stream
    call,        \* call[t]: what launch() keeps in local variables
    calls        \* calls made so far

host == <<expected, tasksReady, launching, inStream, recorded>>
local == <<pc, at, call, calls>>
device == <<queue, uploaded>>
user == <<capturer, version, share, edits, bound>>
vars == <<queue, uploaded, capturer, version, share, edits, bound, expected,
          tasksReady, launching, inStream, recorded, pc, at, call, calls>>

Steps == {"idle", "acquire", "admit", "reset", "enqueue", "fence", "advance",
          "step", "release"}
Work == {"upload", "ready", "wait", "use", "fence", "past"}
NoCall == [capturing |-> FALSE, previous |-> NoStream, wasRecorded |-> FALSE,
           failed |-> FALSE, cleanup |-> FALSE, wrote |-> FALSE]

TypeOK ==
    /\ queue \in [Streams -> Seq(Work)]
    /\ uploaded \in BOOLEAN /\ bound \in BOOLEAN /\ tasksReady \in BOOLEAN
    /\ capturer \in [Streams -> Threads \cup {NoThread}]
    /\ version \in Nat /\ expected \in Nat /\ edits \in 0..MaxEdits
    /\ share \in {0, 1} /\ calls \in 0..MaxLaunches
    /\ launching \in Threads \cup {NoThread}
    /\ inStream \in Streams \cup {NoStream} /\ recorded \in BOOLEAN
    /\ pc \in [Threads -> Steps] /\ at \in [Threads -> Streams]
    /\ call \in [Threads ->
         [capturing : BOOLEAN, previous : Streams \cup {NoStream},
          wasRecorded : BOOLEAN, failed : BOOLEAN, cleanup : BOOLEAN,
          wrote : BOOLEAN]]

-------------------------------------------------------------------------------
\* The preparation has validated the offsets, advanced the output version once
\* to learn version_step, added it to the version it expects, and recorded
\* tasks_ready behind the upload on the stream that was current.
Init ==
    /\ queue = [s \in Streams |-> IF s = Home THEN <<"upload", "ready">>
                                               ELSE <<>>]
    /\ uploaded = FALSE
    /\ capturer = [s \in Streams |-> NoThread]
    /\ share \in {0, 1}
    /\ version = share /\ expected = share /\ edits = 0 /\ bound = TRUE
    /\ tasksReady = FALSE /\ launching = NoThread
    /\ inStream = NoStream /\ recorded = FALSE
    /\ pc = [t \in Threads |-> "idle"] /\ at = [t \in Threads |-> Home]
    /\ call = [t \in Threads |-> NoCall] /\ calls = 0

Done(event) == \A s \in Streams : ~Contains(queue[s], event)
Queued(s, work) == queue' = [queue EXCEPT ![s] = Append(@, work)]
Goto(t, step) == pc' = [pc EXCEPT ![t] = step]
Leave(t) == Goto(t, "idle") /\ at' = [at EXCEPT ![t] = Home]

-------------------------------------------------------------------------------
\* unchanged(), before any lock: a launch whose offsets were written or whose
\* tensors were rebound raises, the others go on.
Unchanged == version = expected /\ bound

Check(t, s) ==
    /\ pc[t] = "idle" /\ calls < MaxLaunches
    /\ capturer[s] \in {NoThread, t}
    /\ calls' = calls + 1
    /\ IF Unchanged THEN Goto(t, "acquire") /\ at' = [at EXCEPT ![t] = s]
                    ELSE UNCHANGED <<pc, at>>
    /\ UNCHANGED <<device, user, host, call>>

\* launching.acquire(blocking=False): a second thread is turned away.
Acquire(t) ==
    /\ pc[t] = "acquire"
    /\ \/ launching = NoThread /\ launching' = t /\ Goto(t, "admit")
          /\ UNCHANGED at
       \/ launching # NoThread /\ Leave(t) /\ UNCHANGED launching
    /\ UNCHANGED <<device, user, expected, tasksReady, inStream, recorded,
                   call, calls>>

\* require_idle: a launch on s is ordered behind the earlier one by its stream,
\* or the earlier one is known to be over; a capture cannot ask the event, but
\* refuses an earlier launch without a valid one all the same.
Idle(s, capturing) ==
    \/ inStream \in {NoStream, s}
    \/ recorded /\ (capturing \/ Done("fence"))

\* wait_for_tasks: the event is asked once it may have completed; a launch
\* that comes earlier waits for it on its stream, and a capture is refused.
AwaitNothing(s) ==
    tasksReady' = (tasksReady \/ Done("ready")) /\ UNCHANGED queue

AwaitTasks(s) ==
    IF tasksReady \/ Done("ready")
    THEN tasksReady' = TRUE /\ UNCHANGED queue
    ELSE Queued(s, "wait") /\ UNCHANGED tasksReady

\* From _prepared_stream to the invalidation of the old completion event.
Admit(t) ==
    LET s == at[t]
        capturing == capturer[s] = t
        admitted == Idle(s, capturing) /\ (tasksReady \/ ~capturing)
    IN /\ pc[t] = "admit"
       /\ \/ /\ ~admitted
             /\ Goto(t, "release")
             /\ UNCHANGED <<queue, tasksReady, inStream, recorded, call>>
          \/ /\ admitted
             /\ AwaitTasks(s)
             /\ call' = [call EXCEPT ![t] = [@ EXCEPT !.capturing = capturing,
                          !.previous = inStream, !.wasRecorded = recorded]]
             /\ inStream' = s /\ recorded' = FALSE
             /\ Goto(t, "reset")
       /\ UNCHANGED <<uploaded, user, expected, launching, at, calls>>

\* Work that goes to the stream, or to the graph while the stream captures.
Submit(t) == IF call[t].capturing THEN UNCHANGED queue ELSE Queued(at[t], "use")
MayFail(t) == call[t].capturing => CaptureFaults

\* counters.zero_(), and then _enqueue: an error does not tell whether the
\* work was queued.
Reset(t) ==
    /\ pc[t] = "reset"
    /\ \/ Submit(t) /\ Goto(t, "enqueue") /\ UNCHANGED call
       \/ /\ MayFail(t) /\ (Submit(t) \/ UNCHANGED queue) /\ Goto(t, "fence")
          /\ call' = [call EXCEPT ![t].failed = TRUE]
    /\ UNCHANGED <<uploaded, user, host, at, calls>>

Enqueue(t) ==
    /\ pc[t] = "enqueue"
    /\ Goto(t, "fence")
    /\ \/ Submit(t) /\ call' = [call EXCEPT ![t].wrote = TRUE]
       \/ /\ MayFail(t) /\ (Submit(t) \/ UNCHANGED queue)
          /\ call' = [call EXCEPT ![t] = [@ EXCEPT !.wrote = TRUE,
                                                   !.failed = TRUE]]
    /\ UNCHANGED <<uploaded, user, host, at, calls>>

\* _finish_launch, its first half: the tensors are retained and completion()
\* records in_flight unless the stream captures.  Each is attempted and may
\* fail; a failing record leaves in_flight_recorded as it is.
Superseded ==
    [s \in Streams |-> [i \in DOMAIN queue[s] |->
        IF queue[s][i] = "fence" THEN "past" ELSE queue[s][i]]]

Fence(t) ==
    /\ pc[t] = "fence"
    /\ Goto(t, IF call[t].wrote THEN "advance" ELSE "release")
    /\ \/ /\ ~call[t].capturing
          /\ queue' = [Superseded EXCEPT ![at[t]] = Append(@, "fence")]
          /\ recorded' = TRUE
       \/ UNCHANGED <<queue, recorded>>
    /\ \/ (call[t].capturing \/ recorded') /\ UNCHANGED call
       \/ /\ MayFail(t)
          /\ call' = [call EXCEPT ![t].cleanup = TRUE]
    /\ UNCHANGED <<uploaded, user, expected, tasksReady, launching, inStream, at,
                   calls>>

\* wrote_output: the output version, then the version a launch expects.  An
\* error of the first leaves the second out.
Advance(t) ==
    /\ pc[t] = "advance"
    /\ \/ Goto(t, "step") /\ version' = version + share /\ UNCHANGED call
       \/ /\ MayFail(t) /\ Goto(t, "release")
          /\ call' = [call EXCEPT ![t].cleanup = TRUE]
          /\ UNCHANGED version
    /\ UNCHANGED <<device, capturer, share, edits, bound, host, at, calls>>

StepToCurrent(t) ==
    /\ pc[t] = "step"
    /\ expected' = version
    /\ Goto(t, "release")
    /\ UNCHANGED <<device, user, tasksReady, launching, inStream, recorded,
                   at, call, calls>>

StepVersion(t) ==
    /\ pc[t] = "step"
    /\ expected' = expected + share
    /\ Goto(t, "release")
    /\ UNCHANGED <<device, user, tasksReady, launching, inStream, recorded,
                   at, call, calls>>

\* The restore after a capture that succeeded, and launching.release().  An
\* error of the cleanup leaves the restore out.
RestoresAfterAny(t) == ~call[t].failed /\ ~call[t].cleanup

Restores(t) ==
    call[t].capturing /\ call[t].wrote /\ ~call[t].failed /\ ~call[t].cleanup

Release(t) ==
    /\ pc[t] = "release"
    /\ launching' = NoThread
    /\ IF Restores(t)
       THEN inStream' = call[t].previous /\ recorded' = call[t].wasRecorded
       ELSE UNCHANGED <<inStream, recorded>>
    /\ Leave(t) /\ call' = [call EXCEPT ![t] = NoCall]
    /\ UNCHANGED <<device, user, expected, tasksReady, calls>>

-------------------------------------------------------------------------------
\* The device runs the oldest work of a stream.
Run(s) ==
    /\ queue[s] # <<>>
    /\ Head(queue[s]) = "wait" => Done("ready")
    /\ queue' = [queue EXCEPT ![s] = Tail(@)]
    /\ uploaded' = (uploaded \/ Head(queue[s]) = "upload")
    /\ UNCHANGED <<user, host, local>>

\* The user writes the offsets in place, rebinds a tensor, or begins and ends
\* a capture on the stream that a thread works on.
WriteOffsets ==
    /\ edits < MaxEdits
    /\ version' = version + 1 /\ edits' = edits + 1
    /\ UNCHANGED <<device, capturer, share, bound, host, local>>

Rebind ==
    /\ edits < MaxEdits /\ bound
    /\ bound' = FALSE
    /\ UNCHANGED <<device, capturer, version, share, edits, host, local>>

StreamUnused(s) == \A t \in Threads : pc[t] # "idle" => at[t] # s

BeginCapture(t, s) ==
    /\ pc[t] = "idle" /\ StreamUnused(s) /\ capturer[s] = NoThread
    /\ \A r \in Streams : capturer[r] # t
    /\ capturer' = [capturer EXCEPT ![s] = t]
    /\ UNCHANGED <<device, version, share, edits, bound, host, local>>

EndCapture(t, s) ==
    /\ pc[t] = "idle" /\ capturer[s] = t
    /\ capturer' = [capturer EXCEPT ![s] = NoThread]
    /\ UNCHANGED <<device, version, share, edits, bound, host, local>>

Step(t) ==
    \/ Acquire(t) \/ Admit(t) \/ Reset(t) \/ Enqueue(t) \/ Fence(t)
    \/ Advance(t) \/ StepVersion(t) \/ Release(t)

Next ==
    \/ \E t \in Threads : Step(t)
    \/ \E t \in Threads, s \in Streams :
          Check(t, s) \/ BeginCapture(t, s) \/ EndCapture(t, s)
    \/ \E s \in Streams : Run(s)
    \/ WriteOffsets \/ Rebind

Spec == Init /\ [][Next]_vars

-------------------------------------------------------------------------------
\* Streams that hold unfinished resets or runs of the kernel.
Users == {s \in Streams : Contains(queue[s], "use")}

\* Two launches that are not ordered by one stream are never unfinished at the
\* same time: the counter array and the scratch buffer have one user
\* (require_idle, in_flight).
OneStreamUsesScratch == \A r, s \in Users : r = s

\* No reset and no kernel runs before the task records were uploaded, whatever
\* stream it was launched on (tasks_ready, wait_for_tasks).
TasksUploadedFirst ==
    \A s \in Streams :
        queue[s] # <<>> /\ Head(queue[s]) = "use" => uploaded

\* A thread that t must not mistake for a write of the user: it has advanced
\* the shared counter and not yet the version a launch expects.
Stepping == {t \in Threads : pc[t] = "step"}

\* The version a launch expects is behind the offsets by exactly the writes of
\* the user: launches never hide such a write, and never add one of their own,
\* also when their own advance of a shared counter fails (wrote_output).
VersionsInStep ==
    version = expected + edits + share * Cardinality(Stepping)

\* The storage of the prepared object has one owner at a time.
Scratch == INSTANCE ScratchOwner WITH users <- Users
ImplementsScratchOwner == Scratch!Spec
===============================================================================
