--------------------------- MODULE ModuleResidency ---------------------------
(***************************************************************************)
(* The lifetime of loaded CUDA modules (python/swage/_cuda_backend.py and  *)
(* the native fixed launcher in python/SwageExtensionNanobind.cpp).        *)
(*                                                                         *)
(* Threads lease a module, launch it on a stream and give the lease back.  *)
(* The loaded modules form an LRU of at most Limit entries.  A module that *)
(* leaves it is retired, and a later lease or launch polls the retired     *)
(* modules and unloads the ones that nobody can still be using.  The GPU   *)
(* is an adversary that completes the work of a stream in order and at any *)
(* time.                                                                   *)
(*                                                                         *)
(* One action is one stretch of code between two points where another      *)
(* thread can interfere: a block under entry.lock, a block under           *)
(* _cuda_lock, or a driver call.                                           *)
(***************************************************************************)
EXTENDS Integers, Sequences, FiniteSets

CONSTANTS
  Threads,   \* Python threads
  Keys,      \* (artifact identity, context, entry, driver)
  Contexts,  \* CUDA contexts
  Context,   \* the context of each key
  Modules,   \* identities of _LoadedModule objects: bounds the loads
  Streams,   \* raw stream handles of the callers
  Default,   \* the legacy default stream (handle 0)
  Limit,     \* SWAGE_MEMORY_CACHE_ENTRIES
  MaxPos,    \* bound on the launches of each stream
  Faults,    \* the failures that may happen, of FaultKinds
  None

AllStreams == Streams \cup {Default}
FaultKinds == {"poll", "interrupt", "load", "launch"}

ASSUME ResidencyAssumption ==
  /\ Context \in [Keys -> Contexts]
  /\ Keys # {} /\ Default \notin Streams /\ None \notin AllStreams
  /\ Limit \in Nat \ {0}
  /\ MaxPos \in [AllStreams -> Nat]
  /\ Faults \subseteq FaultKinds
  /\ None \notin Modules /\ None \notin Keys /\ None \notin Threads
  /\ IsFiniteSet(Threads)

VARIABLES
  \* fields of each _LoadedModule; key[m] = None: m does not exist yet
  key, leases, cache_resident, capture_pinned, unload_queued,
  unload_blocked, unloading, unloaded, lock, events, pending_streams,
  fixed_launcher,
  \* _loaded_functions as a map and its order, oldest first; _retired_loaded
  \* split into the slots named by a key and the slots (key, id(entry))
  loaded, order, retired, retired_extra,
  compile_lock,  \* _runtime._compile_lock, held by the cold path
  \* per thread: program counter, arguments of the call, the poll in
  \* progress, the module found, and the lease object with its released flag
  pc, op, ret, cand, got, lease, released,
  \* the driver: launches enqueued and completed per stream, the position
  \* each module's event was recorded at and its last launch, the streams
  \* that capture, the destroyed streams, the destroyed streams that a call
  \* used, and the modules that a captured graph can replay
  tail, done, ev, last, capturing, closed, misused, graphs

entryVars == <<key, leases, cache_resident, capture_pinned, unload_queued,
               unload_blocked, unloading, unloaded, lock, events,
               pending_streams, fixed_launcher>>
tableVars == <<loaded, order, retired, retired_extra>>
threadVars == <<pc, op, ret, cand, got, lease, released>>
streamVars == <<tail, done, ev, last, misused>>
userVars == <<capturing, closed, graphs>>
vars == <<entryVars, tableVars, compile_lock, threadVars, streamVars, userVars>>

Ops == [key: Keys, stream: AllStreams, capturing: BOOLEAN]
NoOp == [key |-> CHOOSE k \in Keys : TRUE, stream |-> Default,
         capturing |-> FALSE]

-----------------------------------------------------------------------------
Go(t, label) == pc' = [pc EXCEPT ![t] = label]

Set(f, m, v) == [f EXCEPT ![m] = v]

\* cuStreamIsCapturing: the legacy stream reports the capture of any other
\* stream (CUDA_ERROR_STREAM_CAPTURE_IMPLICIT counts as capturing).
IsCapturing(s) == IF s = Default THEN capturing # {} ELSE s \in capturing

\* cuEventQuery of every event of m: the work before each record is done.
EventsDone(m) == \A s \in events[m] : done[s] >= ev[m][s]

\* A second retired module of a key takes a slot of its own.
KeySlotFree_Overwrite(m) == TRUE
KeySlotFree(m) == retired[key[m]] \in {None, m}

\* The slots of _retired_loaded that _queue_unload_locked gives to ms.
QueueUnload(ms, resident) ==
  LET new == {m \in ms : ~resident[m] /\ ~unloaded[m] /\ ~unload_queued[m]}
      atKey == {m \in new : KeySlotFree(m)}
  IN  /\ unload_queued' = [m \in Modules |-> m \in new \/ unload_queued[m]]
      /\ retired' = [k \in Keys |->
           IF \E m \in atKey : key[m] = k
             THEN CHOOSE m \in atKey : key[m] = k ELSE retired[k]]
      /\ retired_extra' = retired_extra \cup (new \ atKey)

\* OrderedDict.__setitem__ and move_to_end.
MoveToEnd_Twice(k) == Append(order, k)
MoveToEnd(k) ==
  LET n == Len(order)
      p == CHOOSE i \in 1..n : order[i] = k
  IN  IF \E i \in 1..n : order[i] = k
        THEN [i \in 1..n |-> IF i < p THEN order[i]
                             ELSE IF i < n THEN order[i + 1] ELSE k]
        ELSE Append(order, k)

\* The local variables of a call go out of scope when it ends.
Return(t) == /\ op' = [op EXCEPT ![t] = NoOp]
             /\ ret' = [ret EXCEPT ![t] = "warmGet"]

-----------------------------------------------------------------------------
(* A call: launch() or a segmented launch asks for a lease. *)

Begin(t, k, s) ==
  /\ pc[t] = "idle" /\ s \notin closed
  /\ op' = [op EXCEPT ![t] = [key |-> k, stream |-> s,
                              capturing |-> s \in capturing]]
  /\ ret' = [ret EXCEPT ![t] = "warmGet"]
  /\ Go(t, "poll")
  /\ UNCHANGED <<entryVars, tableVars, compile_lock, cand, got, lease,
                 released, streamVars, userVars>>

Candidate(m, c) ==
  /\ key[m] # None /\ Context[key[m]] = c
  /\ m \in retired_extra \/ retired[key[m]] = m
  /\ ~cache_resident[m] /\ leases[m] = 0 /\ ~capture_pinned[m]
  /\ ~unload_blocked[m] /\ ~unloading[m] /\ ~unloaded[m]

\* _poll_deferred reserves the idle retired modules under _cuda_lock.
PollSelect(t) ==
  LET c == IF op[t].capturing THEN {}
           ELSE {m \in Modules : Candidate(m, Context[op[t].key])}
  IN  /\ pc[t] = "poll"
      /\ cand' = [cand EXCEPT ![t] = c]
      /\ unloading' = [m \in Modules |-> m \in c \/ unloading[m]]
      /\ Go(t, IF c = {} THEN ret[t] ELSE "pollEnter")
      /\ UNCHANGED <<key, leases, cache_resident, capture_pinned, unload_queued,
                     unload_blocked, unloaded, lock, events, pending_streams,
                     fixed_launcher, tableVars, compile_lock, op, ret, got,
                     lease, released, streamVars, userVars>>

\* The next candidate: take its lock and look again, under _cuda_lock.
Eligible(m) == /\ ~cache_resident[m] /\ leases[m] = 0
               /\ ~capture_pinned[m] /\ ~unload_blocked[m]

PollEnter(t, m) ==
  /\ pc[t] = "pollEnter" /\ m \in cand[t] /\ lock[m] = None
  /\ lock' = Set(lock, m, t)
  /\ got' = [got EXCEPT ![t] = m]
  /\ Go(t, IF Eligible(m) /\ \A s \in pending_streams[m] : ~IsCapturing(s)
             THEN "pollFence" ELSE "pollLeave")
  /\ UNCHANGED <<key, leases, cache_resident, capture_pinned, unload_queued,
                 unload_blocked, unloading, unloaded, events, pending_streams,
                 fixed_launcher, tableVars, compile_lock, op, ret, cand,
                 lease, released, streamVars, userVars>>

\* Record the final event of every stream that was not fenced at its launch.
FinalFences(m) == pending_streams[m]

PollFence(t) ==
  LET m == got[t]
      p == FinalFences(m)
  IN  /\ pc[t] = "pollFence"
      /\ ev' = [ev EXCEPT ![m] =
                  [s \in AllStreams |-> IF s \in p THEN tail[s] ELSE ev[m][s]]]
      /\ misused' = misused \cup (p \cap closed)
      /\ pending_streams' = Set(pending_streams, m, {})
      /\ Go(t, "pollQuery")
      /\ UNCHANGED <<key, leases, cache_resident, capture_pinned, unload_queued,
                     unload_blocked, unloading, unloaded, lock, events,
                     fixed_launcher, tableVars, compile_lock, op, ret, cand,
                     got, lease, released, tail, done, last, userVars>>

PollQuery(t) ==
  LET m == got[t] IN
  /\ pc[t] = "pollQuery"
  /\ Go(t, IF EventsDone(m) THEN "pollUnload" ELSE "pollLeave")
  /\ UNCHANGED <<entryVars, tableVars, compile_lock, op, ret, cand, got, lease,
                 released, streamVars, userVars>>

\* Destroy the events, unload the module and forget it.
PollUnload(t) ==
  LET m == got[t] IN
  /\ pc[t] = "pollUnload"
  /\ events' = Set(events, m, {})
  /\ unloaded' = Set(unloaded, m, TRUE)
  /\ unload_queued' = Set(unload_queued, m, FALSE)
  /\ retired' = [k \in Keys |-> IF retired[k] = m THEN None ELSE retired[k]]
  /\ retired_extra' = retired_extra \ {m}
  /\ Go(t, "pollLeave")
  /\ UNCHANGED <<key, leases, cache_resident, capture_pinned, unload_blocked,
                 unloading, lock, pending_streams, fixed_launcher, loaded,
                 order, compile_lock, op, ret, cand, got, lease, released,
                 streamVars, userVars>>

\* A driver error in the fence, the query or the unload keeps the module.
PollError(t) ==
  /\ "poll" \in Faults
  /\ pc[t] \in {"pollFence", "pollQuery", "pollUnload"}
  /\ unload_blocked' = Set(unload_blocked, got[t], TRUE)
  /\ Go(t, "pollLeave")
  /\ UNCHANGED <<key, leases, cache_resident, capture_pinned, unload_queued,
                 unloading, unloaded, lock, events, pending_streams,
                 fixed_launcher, tableVars, compile_lock, op, ret, cand, got,
                 lease, released, streamVars, userVars>>

\* The end of one candidate: its lock, then its reservation, is given back.
PollLeave(t) ==
  LET m == got[t]
      rest == cand[t] \ {m}
  IN  /\ pc[t] = "pollLeave"
      /\ lock' = Set(lock, m, None)
      /\ unloading' = Set(unloading, m, FALSE)
      /\ cand' = [cand EXCEPT ![t] = rest]
      /\ got' = [got EXCEPT ![t] = lease[t]]
      /\ Go(t, IF rest = {} THEN ret[t] ELSE "pollEnter")
      /\ UNCHANGED <<key, leases, cache_resident, capture_pinned, unload_queued,
                     unload_blocked, unloaded, events, pending_streams,
                     fixed_launcher, tableVars, compile_lock, op, ret, lease,
                     released, streamVars, userVars>>

\* An exception that is no driver error (an interrupt) ends the call: the
\* module is kept, every reservation is given back, and a lease is released.
GivenBack_OnlyCurrent(t) == {got[t]}
GivenBack(t) == cand[t]

PollInterrupt(t) ==
  LET m == got[t] IN
  /\ "interrupt" \in Faults
  /\ pc[t] \in {"pollFence", "pollQuery", "pollUnload"}
  /\ unload_blocked' = Set(unload_blocked, m, TRUE)
  /\ lock' = Set(lock, m, None)
  /\ unloading' = [x \in Modules |-> x \notin GivenBack(t) /\ unloading[x]]
  /\ cand' = [cand EXCEPT ![t] = {}]
  /\ got' = [got EXCEPT ![t] = lease[t]]
  /\ IF ret[t] = "enqueue" THEN Go(t, "release") /\ UNCHANGED <<op, ret>>
                           ELSE Go(t, "idle") /\ Return(t)
  /\ UNCHANGED <<key, leases, cache_resident, capture_pinned, unload_queued,
                 unloaded, events, pending_streams, fixed_launcher, tableVars,
                 compile_lock, lease, released, streamVars, userVars>>

-----------------------------------------------------------------------------
(* _warm_lease: one unlocked get, then the count under the module's lock. *)

NextAfterMiss(t) == IF compile_lock = t THEN "coldFind" ELSE "coldLock"

WarmGet(t) ==
  LET m == loaded[op[t].key] IN
  /\ pc[t] = "warmGet"
  /\ got' = [got EXCEPT ![t] = m]
  /\ Go(t, IF m = None THEN NextAfterMiss(t) ELSE "warmLock")
  /\ UNCHANGED <<entryVars, tableVars, compile_lock, op, ret, cand, lease,
                 released, streamVars, userVars>>

Leasable(m) == /\ cache_resident[m] /\ ~unloading[m]
               /\ ~unloaded[m] /\ ~unload_blocked[m]

WarmMiss(t) ==
  /\ pc[t] = "warmLock" /\ lock[got[t]] = None /\ ~Leasable(got[t])
  /\ Go(t, NextAfterMiss(t))
  /\ UNCHANGED <<entryVars, tableVars, compile_lock, op, ret, cand, got, lease,
                 released, streamVars, userVars>>

\* A hit counts the lease and leaves the cold path when it was in it.
WarmHit(t) ==
  LET m == got[t] IN
  /\ pc[t] = "warmLock" /\ lock[m] = None /\ Leasable(m)
  /\ leases' = [leases EXCEPT ![m] = @ + 1]
  /\ lease' = [lease EXCEPT ![t] = m]
  /\ released' = [released EXCEPT ![t] = FALSE]
  /\ Go(t, "touch")
  /\ UNCHANGED <<key, cache_resident, capture_pinned, unload_queued,
                 unload_blocked, unloading, unloaded, lock, events,
                 pending_streams, fixed_launcher, tableVars, compile_lock, op,
                 ret, cand, got, streamVars, userVars>>

\* Leaving the `with` block of the cold path, when the call is inside it.
LeaveColdPath_Kept(t) == compile_lock
LeaveColdPath(t) == IF compile_lock = t THEN None ELSE compile_lock

\* The recency is refreshed only when _cuda_lock is free at that moment.
WarmTouch(t) ==
  LET k == op[t].key IN
  /\ pc[t] = "touch"
  /\ \/ loaded[k] = got[t] /\ order' = MoveToEnd(k)
     \/ order' = order
  /\ compile_lock' = LeaveColdPath(t)
  /\ Go(t, "leased")
  /\ UNCHANGED <<entryVars, loaded, retired, retired_extra, op, ret, cand, got,
                 lease, released, streamVars, userVars>>

-----------------------------------------------------------------------------
(* The cold path of _load_artifact. *)

ColdLock(t) ==
  /\ pc[t] = "coldLock" /\ compile_lock = None
  /\ compile_lock' = t
  /\ Go(t, "warmGet")
  /\ UNCHANGED <<entryVars, tableVars, op, ret, cand, got, lease, released,
                 streamVars, userVars>>

\* A retired module may come back unless a poll has reserved it.
Revivable(m) ==
  m # None /\ ~unloading[m] /\ ~unloaded[m] /\ ~unload_blocked[m]

\* Under _cuda_lock: a resident module (one that refuses warm leases), a
\* retired one of the same key brought back, or none.
ColdFind(t) ==
  LET k == op[t].key
      revived == loaded[k] = None /\ Revivable(retired[k])
      m == IF loaded[k] # None THEN loaded[k]
           ELSE IF revived THEN retired[k] ELSE None
  IN  /\ pc[t] = "coldFind"
      /\ got' = [got EXCEPT ![t] = m]
      /\ cache_resident' = IF revived THEN Set(cache_resident, m, TRUE)
                                      ELSE cache_resident
      /\ unload_queued' = IF revived THEN Set(unload_queued, m, FALSE)
                                     ELSE unload_queued
      /\ retired' = IF revived THEN [retired EXCEPT ![k] = None] ELSE retired
      /\ Go(t, IF m = None THEN "coldLoad" ELSE "coldClaim")
      /\ UNCHANGED <<key, leases, capture_pinned, unload_blocked, unloading,
                     unloaded, lock, events, pending_streams, fixed_launcher,
                     loaded, order, retired_extra, compile_lock, op, ret, cand,
                     lease, released, streamVars, userVars>>

\* driver.load and the new _LoadedModule, which is born resident.
ColdLoad(t, m) ==
  /\ pc[t] = "coldLoad" /\ key[m] = None
  /\ key' = Set(key, m, op[t].key)
  /\ cache_resident' = Set(cache_resident, m, TRUE)
  /\ got' = [got EXCEPT ![t] = m]
  /\ Go(t, "coldClaim")
  /\ UNCHANGED <<leases, capture_pinned, unload_queued, unload_blocked,
                 unloading, unloaded, lock, events, pending_streams,
                 fixed_launcher, tableVars, compile_lock, op, ret, cand, lease,
                 released, streamVars, userVars>>

\* The load fails; the call raises and leaves the cold path.
ColdLoadError(t) ==
  /\ pc[t] = "coldLoad"
  /\ "load" \in Faults \/ \A m \in Modules : key[m] # None
  /\ compile_lock' = None
  /\ Go(t, "idle") /\ Return(t)
  /\ UNCHANGED <<entryVars, tableVars, cand, got, lease, released,
                 streamVars, userVars>>

ColdClaim(t) ==
  LET m == got[t] IN
  /\ pc[t] = "coldClaim" /\ lock[m] = None
  /\ leases' = [leases EXCEPT ![m] = @ + 1]
  /\ lease' = [lease EXCEPT ![t] = m]
  /\ released' = [released EXCEPT ![t] = FALSE]
  /\ Go(t, "coldPublish")
  /\ UNCHANGED <<key, cache_resident, capture_pinned, unload_queued,
                 unload_blocked, unloading, unloaded, lock, events,
                 pending_streams, fixed_launcher, tableVars, compile_lock, op,
                 ret, cand, got, streamVars, userVars>>

\* How many of the oldest keys _evict_loaded_locked drops from the order.
Excess_OneTooFew(n) == IF n > Limit + 1 THEN n - Limit - 1 ELSE 0
Excess(n) == IF n > Limit THEN n - Limit ELSE 0

\* Publish under _cuda_lock, evict over the limit, leave the cold path.
ColdPublish(t) ==
  LET k == op[t].key
      new == [loaded EXCEPT ![k] = got[t]]
      newOrder == MoveToEnd(k)
      out == {newOrder[i] : i \in 1..Excess(Len(newOrder))}
      gone == {new[x] : x \in out} \ {None}
      resident == [m \in Modules |-> m \notin gone /\ cache_resident[m]]
  IN  /\ pc[t] = "coldPublish"
      /\ loaded' = [x \in Keys |-> IF x \in out THEN None ELSE new[x]]
      /\ order' = SubSeq(newOrder, Excess(Len(newOrder)) + 1, Len(newOrder))
      /\ cache_resident' = resident
      /\ QueueUnload(gone, resident)
      /\ compile_lock' = None
      /\ Go(t, "leased")
      /\ UNCHANGED <<key, leases, capture_pinned, unload_blocked, unloading,
                     unloaded, lock, events, pending_streams, fixed_launcher,
                     op, ret, cand, got, lease, released, streamVars, userVars>>

-----------------------------------------------------------------------------
(* _launch_loaded, release and _prepare_fixed_launch. *)

\* The holder of a lease launches (again); the poll comes first.
StartLaunch(t) ==
  /\ pc[t] = "leased" /\ tail[op[t].stream] < MaxPos[op[t].stream]
  /\ ret' = [ret EXCEPT ![t] = "enqueue"]
  /\ Go(t, "poll")
  /\ UNCHANGED <<entryVars, tableVars, compile_lock, op, cand, got, lease,
                 released, streamVars, userVars>>

\* One launch of m enters stream s; the event of (m, s) is recorded after it
\* when fence holds.
Submit(m, s, fence) ==
  /\ tail' = [tail EXCEPT ![s] = @ + 1]
  /\ last' = [last EXCEPT ![m][s] = tail[s] + 1]
  /\ ev' = IF fence THEN [ev EXCEPT ![m][s] = tail[s] + 1] ELSE ev

\* Whether a launch is fenced at once, the streams left to the poll, and
\* whether it pins its module.
FencedAtLaunch_Never(s) == FALSE
FencedAtLaunch(s) == s # Default
FencedLater_Every(s) == {s}
FencedLater(s) == {s} \cap {Default}
Pins_Never(t) == FALSE
Pins(t) == op[t].capturing

\* The launch under entry.lock: the event exists before it, a capture pins
\* the module, the legacy stream is left for the poll to fence, and any
\* other stream is fenced right away.
Enqueue(t) ==
  LET m == lease[t]
      s == op[t].stream
  IN  /\ pc[t] = "enqueue" /\ lock[m] = None /\ tail[s] < MaxPos[s]
      /\ events' = [events EXCEPT ![m] = @ \cup {s}]
      /\ IF op[t].capturing
           THEN graphs' = graphs \cup {m} /\ UNCHANGED <<tail, last, ev>>
           ELSE Submit(m, s, FencedAtLaunch(s)) /\ UNCHANGED graphs
      /\ capture_pinned' = [capture_pinned EXCEPT ![m] = @ \/ Pins(t)]
      /\ pending_streams' = [pending_streams EXCEPT ![m] = @ \cup FencedLater(s)]
      /\ misused' = misused \cup ({s} \cap closed)
      /\ Go(t, "leased")
      /\ UNCHANGED <<key, leases, cache_resident, unload_queued, unload_blocked,
                     unloading, unloaded, lock, fixed_launcher, tableVars,
                     compile_lock, op, ret, cand, got, lease, released, done,
                     capturing, closed>>

\* The launch or its fence fails.  The driver may have enqueued the kernel
\* all the same, so a module on a caller's stream is never unloaded.
EnqueueError(t) ==
  LET m == lease[t]
      s == op[t].stream
  IN  /\ pc[t] = "enqueue" /\ lock[m] = None
      /\ "launch" \in Faults \/ tail[s] = MaxPos[s]
      /\ events' = [events EXCEPT ![m] = @ \cup {s}]
      /\ capture_pinned' = [capture_pinned EXCEPT ![m] = @ \/ Pins(t)]
      /\ pending_streams' = [pending_streams EXCEPT ![m] = @ \cup FencedLater(s)]
      /\ unload_blocked' = IF s # Default THEN Set(unload_blocked, m, TRUE)
                                          ELSE unload_blocked
      /\ \/ /\ ~op[t].capturing /\ tail[s] < MaxPos[s]
            /\ Submit(m, s, FALSE)
            /\ UNCHANGED graphs
         \/ /\ op[t].capturing
            /\ graphs' = graphs \cup {m}
            /\ UNCHANGED <<tail, last, ev>>
         \/ UNCHANGED <<tail, last, ev, graphs>>
      /\ Go(t, "release")
      /\ UNCHANGED <<key, leases, cache_resident, unload_queued, unloading,
                     unloaded, lock, fixed_launcher, tableVars, compile_lock,
                     op, ret, cand, got, lease, released, done, misused,
                     capturing, closed>>

\* The call is over, it failed the check that it runs in the context of the
\* module, or the prepared launch is collected.
StartRelease(t) ==
  /\ pc[t] = "leased"
  /\ Go(t, "release")
  /\ UNCHANGED <<entryVars, tableVars, compile_lock, op, ret, cand, got, lease,
                 released, streamVars, userVars>>

\* release() gives the claim back once.
AlreadyReleased_Unset(t) == FALSE
AlreadyReleased(t) == released[t]

Release(t) ==
  LET m == lease[t] IN
  /\ pc[t] = "release" /\ ~AlreadyReleased(t) /\ lock[m] = None
  /\ released' = [released EXCEPT ![t] = TRUE]
  /\ leases' = [leases EXCEPT ![m] = @ - 1]
  /\ Go(t, "relQueue")
  /\ UNCHANGED <<key, cache_resident, capture_pinned, unload_queued,
                 unload_blocked, unloading, unloaded, lock, events,
                 pending_streams, fixed_launcher, tableVars, compile_lock, op,
                 ret, cand, got, lease, streamVars, userVars>>

\* A module that is retired by now is queued, unless it already is.
ReleaseQueue(t) ==
  /\ pc[t] = "relQueue"
  /\ QueueUnload({lease[t]}, cache_resident)
  /\ Go(t, "prepare")
  /\ UNCHANGED <<key, leases, cache_resident, capture_pinned, unload_blocked,
                 unloading, unloaded, lock, events, pending_streams,
                 fixed_launcher, loaded, order, compile_lock, op, ret, cand,
                 got, lease, released, streamVars, userVars>>

\* _prepare_fixed_launch: the shortcut of a module that is still resident.
Prepare(t) ==
  LET m == lease[t]
      s == op[t].stream
  IN  /\ pc[t] = "prepare" /\ lock[m] = None
      /\ fixed_launcher' =
           IF ~op[t].capturing /\ Leasable(m) /\ s \in events[m]
             THEN Set(fixed_launcher, m, s) ELSE fixed_launcher
      /\ Go(t, "drop")
      /\ UNCHANGED <<key, leases, cache_resident, capture_pinned, unload_queued,
                     unload_blocked, unloading, unloaded, lock, events,
                     pending_streams, tableVars, compile_lock, op, ret, cand,
                     got, lease, released, streamVars, userVars>>

\* A failed or a segmented call makes no shortcut.
SkipPrepare(t) ==
  /\ pc[t] = "prepare"
  /\ Go(t, "drop")
  /\ UNCHANGED <<entryVars, tableVars, compile_lock, op, ret, cand, got, lease,
                 released, streamVars, userVars>>

\* The lease object dies: __del__ calls release() again.
Drop(t) ==
  /\ pc[t] = "drop"
  /\ IF AlreadyReleased(t)
       THEN /\ Go(t, "idle")
            /\ lease' = [lease EXCEPT ![t] = None]
            /\ got' = [got EXCEPT ![t] = None]
            /\ Return(t)
       ELSE /\ Go(t, "release")
            /\ UNCHANGED <<lease, got, op, ret>>
  /\ UNCHANGED <<entryVars, tableVars, compile_lock, cand, released,
                 streamVars, userVars>>

-----------------------------------------------------------------------------
(* The native fixed launcher: no lease, but both residency locks and the   *)
(* GIL while it launches, and only while nothing is retired.               *)

\* The shortcut is for the current stream, and the stream does not capture.
FastCheck(t, m, s) ==
  /\ pc[t] = "idle" /\ key[m] # None /\ fixed_launcher[m] = s
  /\ ~IsCapturing(s) /\ s \notin closed /\ tail[s] < MaxPos[s]
  /\ op' = [op EXCEPT ![t] = [key |-> key[m], stream |-> s, capturing |-> FALSE]]
  /\ got' = [got EXCEPT ![t] = m]
  /\ Go(t, "fast")
  /\ UNCHANGED <<entryVars, tableVars, compile_lock, ret, cand, lease, released,
                 streamVars, userVars>>

\* Residency is looked at again under the locks: Torch calls let the GIL go.
FastReady(m) ==
  /\ loaded[key[m]] = m /\ Leasable(m)
  /\ retired_extra = {} /\ \A k \in Keys : retired[k] = None

FastReturn(t) == /\ Go(t, "idle") /\ Return(t)
                 /\ got' = [got EXCEPT ![t] = None]

FastLaunch(t) ==
  LET m == got[t]
      s == op[t].stream
  IN  /\ pc[t] = "fast" /\ FastReady(m) /\ tail[s] < MaxPos[s]
      /\ order' = MoveToEnd(key[m])
      /\ pending_streams' = [pending_streams EXCEPT ![m] = @ \cup FencedLater(s)]
      /\ \/ Submit(m, s, FencedAtLaunch(s)) /\ UNCHANGED unload_blocked
         \/ /\ "launch" \in Faults
            /\ unload_blocked' = IF s # Default THEN Set(unload_blocked, m, TRUE)
                                                ELSE unload_blocked
            /\ Submit(m, s, FALSE) \/ UNCHANGED <<tail, last, ev>>
      /\ FastReturn(t)
      /\ UNCHANGED <<key, leases, cache_resident, capture_pinned, unload_queued,
                     unloading, unloaded, lock, events, fixed_launcher, loaded,
                     retired, retired_extra, compile_lock, cand, lease, released,
                     done, misused, userVars>>

\* A lock that is taken, or what changed meanwhile, leaves it to launch().
FastRefuse(t) ==
  /\ pc[t] = "fast"
  /\ FastReturn(t)
  /\ UNCHANGED <<entryVars, tableVars, compile_lock, cand, lease, released,
                 streamVars, userVars>>

-----------------------------------------------------------------------------
(* The device and the owner of the streams. *)

Complete(s) ==
  /\ done[s] < tail[s]
  /\ done' = [done EXCEPT ![s] = @ + 1]
  /\ UNCHANGED <<entryVars, tableVars, compile_lock, threadVars, tail, ev,
                 last, misused, userVars>>

\* A replay of a captured graph launches its modules without any host code.
Replay(m, s) ==
  /\ m \in graphs /\ s \notin closed /\ ~IsCapturing(s) /\ tail[s] < MaxPos[s]
  /\ Submit(m, s, FALSE)
  /\ UNCHANGED <<entryVars, tableVars, compile_lock, threadVars, done, misused,
                 userVars>>

InUse(s) == \E t \in Threads : pc[t] # "idle" /\ op[t].stream = s

ToggleCapture(s) ==
  /\ s \notin closed /\ ~InUse(s)
  /\ capturing' = IF s \in capturing THEN capturing \ {s}
                                     ELSE capturing \cup {s}
  /\ UNCHANGED <<entryVars, tableVars, compile_lock, threadVars, streamVars,
                 closed, graphs>>

\* The caller destroys its stream; work already in it still completes.
CloseStream(s) ==
  /\ s \notin closed /\ s \notin capturing /\ ~InUse(s)
  /\ closed' = closed \cup {s}
  /\ UNCHANGED <<entryVars, tableVars, compile_lock, threadVars, streamVars,
                 capturing, graphs>>

-----------------------------------------------------------------------------
Init ==
  /\ key = [m \in Modules |-> None]
  /\ leases = [m \in Modules |-> 0]
  /\ cache_resident = [m \in Modules |-> FALSE]
  /\ capture_pinned = [m \in Modules |-> FALSE]
  /\ unload_queued = [m \in Modules |-> FALSE]
  /\ unload_blocked = [m \in Modules |-> FALSE]
  /\ unloading = [m \in Modules |-> FALSE]
  /\ unloaded = [m \in Modules |-> FALSE]
  /\ lock = [m \in Modules |-> None]
  /\ events = [m \in Modules |-> {}]
  /\ pending_streams = [m \in Modules |-> {}]
  /\ fixed_launcher = [m \in Modules |-> None]
  /\ loaded = [k \in Keys |-> None]
  /\ order = <<>>
  /\ retired = [k \in Keys |-> None]
  /\ retired_extra = {}
  /\ compile_lock = None
  /\ pc = [t \in Threads |-> "idle"]
  /\ op = [t \in Threads |-> NoOp]
  /\ ret = [t \in Threads |-> "warmGet"]
  /\ cand = [t \in Threads |-> {}]
  /\ got = [t \in Threads |-> None]
  /\ lease = [t \in Threads |-> None]
  /\ released = [t \in Threads |-> TRUE]
  /\ tail = [s \in AllStreams |-> 0]
  /\ done = [s \in AllStreams |-> 0]
  /\ ev = [m \in Modules |-> [s \in AllStreams |-> 0]]
  /\ last = [m \in Modules |-> [s \in AllStreams |-> 0]]
  /\ capturing = {}
  /\ closed = {}
  /\ misused = {}
  /\ graphs = {}

\* The steps a call takes once it has begun and does not wait for its caller.
CallStep(t) ==
  \/ PollSelect(t) \/ \E m \in Modules : PollEnter(t, m)
  \/ PollFence(t) \/ PollQuery(t) \/ PollUnload(t) \/ PollError(t)
  \/ PollLeave(t) \/ PollInterrupt(t)
  \/ WarmGet(t) \/ WarmMiss(t) \/ WarmHit(t) \/ WarmTouch(t)
  \/ ColdLock(t) \/ ColdFind(t) \/ \E m \in Modules : ColdLoad(t, m)
  \/ ColdLoadError(t) \/ ColdClaim(t) \/ ColdPublish(t)
  \/ Enqueue(t) \/ EnqueueError(t)
  \/ Release(t) \/ ReleaseQueue(t) \/ Prepare(t) \/ SkipPrepare(t) \/ Drop(t)
  \/ FastLaunch(t) \/ FastRefuse(t)

CallerStep(t) ==
  \/ \E k \in Keys, s \in AllStreams : Begin(t, k, s)
  \/ StartLaunch(t) \/ StartRelease(t)
  \/ \E m \in Modules, s \in AllStreams : FastCheck(t, m, s)

Environment ==
  \/ \E s \in AllStreams : Complete(s)
  \/ \E m \in Modules, s \in AllStreams : Replay(m, s)
  \/ \E s \in Streams : ToggleCapture(s) \/ CloseStream(s)

Next == Environment \/ \E t \in Threads : CallStep(t) \/ CallerStep(t)

Spec == Init /\ [][Next]_vars

\* The operating system runs every thread again and again, and a thread that
\* waits for a lock which keeps coming free takes it some time.
FairSpec == Spec /\ \A t \in Threads : SF_vars(CallStep(t))

-----------------------------------------------------------------------------
Labels == {"idle", "poll", "pollEnter", "pollFence", "pollQuery", "pollUnload",
           "pollLeave", "warmGet", "warmLock", "touch", "coldLock", "coldFind",
           "coldLoad", "coldClaim", "coldPublish", "leased", "enqueue",
           "release", "relQueue", "prepare", "drop", "fast"}

\* The state of the caches, of the entries and of every call has its type; the
\* recency order lists no key twice.
TypeOK ==
  /\ key \in [Modules -> Keys \cup {None}]
  /\ leases \in [Modules -> Int]
  /\ cache_resident \in [Modules -> BOOLEAN]
  /\ capture_pinned \in [Modules -> BOOLEAN]
  /\ unload_queued \in [Modules -> BOOLEAN]
  /\ unload_blocked \in [Modules -> BOOLEAN]
  /\ unloading \in [Modules -> BOOLEAN]
  /\ unloaded \in [Modules -> BOOLEAN]
  /\ lock \in [Modules -> Threads \cup {None}]
  /\ events \in [Modules -> SUBSET AllStreams]
  /\ pending_streams \in [Modules -> SUBSET AllStreams]
  /\ fixed_launcher \in [Modules -> AllStreams \cup {None}]
  /\ loaded \in [Keys -> Modules \cup {None}]
  /\ order \in Seq(Keys)
  /\ \A i, j \in 1..Len(order) : order[i] = order[j] => i = j
  /\ retired \in [Keys -> Modules \cup {None}]
  /\ retired_extra \in SUBSET Modules
  /\ compile_lock \in Threads \cup {None}
  /\ pc \in [Threads -> Labels]
  /\ op \in [Threads -> Ops]
  /\ ret \in [Threads -> {"warmGet", "enqueue"}]
  /\ cand \in [Threads -> SUBSET Modules]
  /\ got \in [Threads -> Modules \cup {None}]
  /\ lease \in [Threads -> Modules \cup {None}]
  /\ released \in [Threads -> BOOLEAN]
  /\ tail \in [AllStreams -> Nat] /\ done \in [AllStreams -> Nat]
  /\ ev \in [Modules -> [AllStreams -> Nat]]
  /\ last \in [Modules -> [AllStreams -> Nat]]
  /\ capturing \in SUBSET Streams /\ closed \in SUBSET Streams
  /\ misused \in SUBSET AllStreams /\ graphs \in SUBSET Modules

\* No module is unloaded under a kernel: when cuModuleUnload runs, every
\* launch of the module, leased, through the native launcher, or replayed
\* from a graph, has completed on its stream.
UnloadedModuleIsIdle ==
  \A m \in Modules, s \in AllStreams : unloaded[m] => last[m][s] <= done[s]

\* The unreleased leases on m.
Claims(m) == {t \in Threads : lease[t] = m /\ ~released[t]}

\* entry.function stays valid while a lease is unreleased or a graph holds
\* the module: such a module is never unloaded.
ClaimedModuleStaysLoaded ==
  \A m \in Modules : Claims(m) # {} \/ m \in graphs => ~unloaded[m]

\* entry.leases is the number of leases that are not released, whatever fails
\* and however often a lease object is released: a count that is too high
\* keeps a module loaded for ever, one too low unloads it under a call.
LeasesAreCounted == \A m \in Modules : leases[m] = Cardinality(Claims(m))

\* Every loaded module can be found: it is resident, or queued for unloading,
\* or the cold path that loads it is about to publish it.  Nothing is
\* "forgotten loaded" (comment of _queue_unload_locked).
NoModuleForgotten ==
  \A m \in Modules : key[m] # None /\ ~unloaded[m] =>
    \/ loaded[key[m]] = m
    \/ retired[key[m]] = m
    \/ m \in retired_extra
    \/ \E t \in Threads : pc[t] \in {"coldClaim", "coldPublish"} /\ got[t] = m

\* The LRU holds at most Limit modules, and its order and its map agree.
ResidencyBound ==
  /\ Len(order) <= Limit
  /\ \A k \in Keys :
       loaded[k] # None <=> \E i \in 1..Len(order) : order[i] = k

\* A module is reserved for unloading only by the one poll that still has it
\* on its list: an interrupt or an error in the middle of a poll leaks no
\* reservation (a leaked one would keep the module loaded, and refuse warm
\* leases of it, for ever), and no two polls unload the same module.
ReservationHasOneOwner ==
  \A m \in Modules :
    /\ unloading[m] <=> \E t \in Threads : m \in cand[t]
    /\ \A t, u \in Threads : m \in cand[t] \cap cand[u] => t = u

\* A stream that its owner destroyed is never passed to the driver again.
DestroyedStreamUnused == misused = {}

\* Every call comes to an end whatever the other threads do: no cycle of
\* module locks and the cold-path lock blocks a lease, a launch, a poll or a
\* release.
CallsReturn ==
  \A t \in Threads : pc[t] \notin {"idle", "leased"} ~> pc[t] \in {"idle", "leased"}
=============================================================================
