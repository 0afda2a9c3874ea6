------------------------------- MODULE ColdPath -------------------------------
(***************************************************************************)
(* The cold path of the fixed runtime (python/swage/_runtime.py): the      *)
(* cold-path lock with its compile places, the single flight of each       *)
(* kernel key, the process cache of artifacts, interpreter exit and fork.  *)
(*                                                                         *)
(* A thread launches a kernel or loads a module.  A launch that misses the *)
(* process cache builds the kernel in a single flight, inside a compile    *)
(* place.  The main thread may run the exit handler, and a thread may fork *)
(* once: the behaviour then continues in the parent or in the child, where *)
(* only the forking thread is left.                                        *)
(*                                                                         *)
(* A critical section is two steps, so that a fork can find it occupied.   *)
(***************************************************************************)
EXTENDS Integers, Sequences, FiniteSets

CONSTANTS
  Threads, Main,  \* Main runs the exit handlers; the others are daemons
  Keys,
  Flights,        \* identities of the events of _single_flight
  Limit,          \* SWAGE_MEMORY_CACHE_ENTRIES
  IdentityKnown,  \* whether the compiler identity is derived at the start
  Exits,          \* whether the interpreter may exit
  ForkAt,         \* the labels a thread may fork at
  MaxCalls,       \* bound on the launches and loads begun
  Ghost,          \* the owner of a lock whose thread is not in the child
  None

ASSUME ColdPathAssumption ==
  /\ Main \in Threads /\ None \notin Threads \cup Flights /\ Keys # {}
  /\ Ghost \notin Threads \cup {None}
  /\ Limit \in Nat \ {0} /\ MaxCalls \in Nat
  /\ IdentityKnown \in BOOLEAN /\ Exits \in BOOLEAN
  /\ ForkAt \subseteq {"idle", "place", "finish"}

VARIABLES
  lock, depth,            \* _ColdPathLock._lock, an RLock
  closed_by, wait_ran_out,
  compiles, idle,         \* _compiles and the lock of the condition _idle
  held,                   \* _places.held of each thread
  flights_lock, flights,  \* _flights_lock and _compile_flights
  isSet,                  \* the events that are set
  cache_lock, cache,      \* _cache_lock and _artifact_cache, oldest first
  identity_lock, identity,
  \* per thread: program counter, the key of its launch, its flight, where a
  \* lookup or an acquire returns to, the inserts left, where a fork goes back
  pc, key, flight, ret, inserts, back,
  calls,
  exited,                 \* close() has returned
  forked, child           \* a fork has begun; this is the forked child

lockVars == <<lock, depth, closed_by, wait_ran_out, compiles, idle, held>>
flightVars == <<flights_lock, flights, isSet>>
cacheVars == <<cache_lock, cache, identity_lock, identity>>
callVars == <<key, flight, ret, inserts, back>>
processVars == <<exited, forked, child>>
vars == <<lockVars, flightVars, cacheVars, pc, callVars, calls, processVars>>

Go(t, label) == pc' = [pc EXCEPT ![t] = label]
Cached(k) == \E i \in DOMAIN cache : cache[i] = k
MoveToEnd(k) ==
  LET n == Len(cache)
      p == CHOOSE i \in 1..n : cache[i] = k
  IN  IF Cached(k)
        THEN [i \in 1..n |-> IF i < p THEN cache[i]
                             ELSE IF i < n THEN cache[i + 1] ELSE k]
        ELSE Append(cache, k)

\* RLock.acquire and release.
Free(t) == lock \in {None, t}
Take(t) == lock' = t /\ depth' = depth + 1
GiveBack == /\ depth' = depth - 1
            /\ lock' = IF depth = 1 THEN None ELSE lock

-----------------------------------------------------------------------------
(* launch(): the compiler identity, then the process cache. *)

Launch(t, k) ==
  /\ pc[t] = "idle" /\ calls < MaxCalls
  /\ calls' = calls + 1
  /\ key' = [key EXCEPT ![t] = k]
  /\ ret' = [ret EXCEPT ![t] = "warm"]
  /\ Go(t, IF identity THEN "lookup" ELSE "identity")
  /\ UNCHANGED <<lockVars, flightVars, cacheVars, flight, inserts, back,
                 processVars>>

\* _cached_identity holds _identity_lock while it derives the identity, which
\* may fail; the launch then fails.
IdentityLock(t) ==
  /\ pc[t] = "identity" /\ identity_lock = None
  /\ identity_lock' = t
  /\ Go(t, "derive")
  /\ UNCHANGED <<lockVars, flightVars, cache_lock, cache, identity, callVars,
                 calls, processVars>>

Derive(t) ==
  /\ pc[t] = "derive"
  /\ identity' \in {identity, TRUE} /\ identity_lock' = None
  /\ Go(t, IF identity' THEN "lookup" ELSE "idle")
  /\ UNCHANGED <<lockVars, flightVars, cache_lock, cache, callVars, calls,
                 processVars>>

\* Where _cached_artifact returns to: a hit ends the launch, and the owner of
\* a flight ends its flight first; a miss goes on.
AfterHit(t) == IF ret[t] = "owner" THEN "finish" ELSE "idle"
AfterMiss(t) == IF ret[t] = "owner" THEN "place" ELSE "flight"

\* _cached_artifact: one get, and a refresh only when nobody holds the lock.
Lookup(t) ==
  /\ pc[t] = "lookup"
  /\ \/ ~Cached(key[t]) /\ Go(t, AfterMiss(t)) /\ UNCHANGED cache_lock
     \/ /\ Cached(key[t]) /\ Len(cache) > 1 /\ cache_lock = None
        /\ cache_lock' = t /\ Go(t, "touch")
     \/ /\ Cached(key[t]) /\ (Len(cache) = 1 \/ cache_lock # None)
        /\ Go(t, AfterHit(t)) /\ UNCHANGED cache_lock
  /\ UNCHANGED <<lockVars, flightVars, cache, identity_lock, identity, callVars,
                 calls, processVars>>

Touch(t) ==
  /\ pc[t] = "touch"
  /\ cache' = IF Cached(key[t]) THEN MoveToEnd(key[t]) ELSE cache
  /\ cache_lock' = None
  /\ Go(t, AfterHit(t))
  /\ UNCHANGED <<lockVars, flightVars, identity_lock, identity, callVars, calls,
                 processVars>>

-----------------------------------------------------------------------------
(* _single_flight. *)

FlightLock(t) ==
  /\ pc[t] = "flight" /\ flights_lock = None
  /\ flights_lock' = t
  /\ Go(t, "register")
  /\ UNCHANGED <<lockVars, flights, isSet, cacheVars, callVars, calls,
                 processVars>>

\* The first caller of a key owns its flight; another one waits for it.
InFlight_Unseen(k) == FALSE
InFlight(k) == flights[k] # None

Register(t) ==
  LET k == key[t] IN
  /\ pc[t] = "register"
  /\ flights_lock' = None
  /\ IF ~InFlight(k)
       THEN \E f \in Flights :
              /\ \A u \in Threads : flight[u] # f
              /\ flights' = [flights EXCEPT ![k] = f]
              /\ isSet' = isSet \ {f}
              /\ flight' = [flight EXCEPT ![t] = f]
              /\ ret' = [ret EXCEPT ![t] = "owner"]
              /\ Go(t, "lookup")
       ELSE /\ flight' = [flight EXCEPT ![t] = flights[k]]
            /\ Go(t, "wait")
            /\ UNCHANGED <<flights, isSet, ret>>
  /\ UNCHANGED <<lockVars, cacheVars, key, inserts, back, calls, processVars>>

Wait(t) ==
  /\ pc[t] = "wait" /\ flight[t] \in isSet
  /\ flight' = [flight EXCEPT ![t] = None]
  /\ ret' = [ret EXCEPT ![t] = "waiter"]
  /\ Go(t, "lookup")
  /\ UNCHANGED <<lockVars, flightVars, cacheVars, key, inserts, back, calls,
                 processVars>>

FinishLock(t) ==
  /\ pc[t] = "finish" /\ flights_lock = None
  /\ flights_lock' = t
  /\ Go(t, "unregister")
  /\ UNCHANGED <<lockVars, flights, isSet, cacheVars, callVars, calls,
                 processVars>>

\* The flight is removed only while it is still the registered one.
OwnsFlight(t) == flights[key[t]] = flight[t]

Unregister(t) ==
  /\ pc[t] = "unregister"
  /\ flights_lock' = None
  /\ IF OwnsFlight(t)
       THEN /\ flights' = [flights EXCEPT ![key[t]] = None]
            /\ Go(t, "signal")
            /\ UNCHANGED flight
       ELSE /\ flight' = [flight EXCEPT ![t] = None]
            /\ Go(t, "idle")
            /\ UNCHANGED flights
  /\ UNCHANGED <<lockVars, isSet, cacheVars, key, ret, inserts, back, calls,
                 processVars>>

SetBy_Nobody(t) == isSet
SetBy(t) == isSet \cup {flight[t]}

Signal(t) ==
  /\ pc[t] = "signal"
  /\ isSet' = SetBy(t)
  /\ flight' = [flight EXCEPT ![t] = None]
  /\ Go(t, "idle")
  /\ UNCHANGED <<lockVars, flights_lock, flights, cacheVars, key, ret, inserts,
                 back, calls, processVars>>

-----------------------------------------------------------------------------
(* The cold-path lock, a compile in its place, and a load under the lock. *)

\* acquire(): a thread that finds the lock closed by another one waits for
\* ever; the exiting thread does not wait behind the holder a second time.
Acquire(t) ==
  /\ pc[t] \in {"place", "load"}
  /\ CASE closed_by \notin {None, t} -> Go(t, "parked") /\ UNCHANGED ret
       [] closed_by = t /\ wait_ran_out /\ ~Free(t) ->
            /\ Go(t, IF pc[t] = "place" THEN "finish" ELSE "idle")
            /\ UNCHANGED ret
       [] OTHER -> /\ Go(t, "acquire")
                   /\ ret' = [ret EXCEPT ![t] = pc[t]]
  /\ UNCHANGED <<lockVars, flightVars, cacheVars, key, flight, inserts, back,
                 calls, processVars>>

Acquired(t) ==
  /\ pc[t] = "acquire" /\ Free(t)
  /\ Take(t)
  /\ Go(t, IF ret[t] = "place" THEN "enter" ELSE "loading")
  /\ UNCHANGED <<closed_by, wait_ran_out, compiles, idle, held, flightVars,
                 cacheVars, callVars, calls, processVars>>

\* compiling(): the place is counted under the lock, which is then free.
OneMore_Uncounted(n) == n
OneMore(n) == n + 1

EnterPlace(t) ==
  /\ pc[t] = "enter" /\ idle = None
  /\ compiles' = OneMore(compiles)
  /\ held' = held \cup {t}
  /\ GiveBack
  /\ Go(t, "compile")
  /\ UNCHANGED <<closed_by, wait_ran_out, idle, flightVars, cacheVars, callVars,
                 calls, processVars>>

\* The build: a disk hit (one insert), a compile (an insert before the disk
\* write and one after it), or a failure of any kind.
Compile(t) ==
  /\ pc[t] = "compile"
  /\ \E n \in 0..2 : /\ inserts' = [inserts EXCEPT ![t] = n]
                     /\ Go(t, IF n = 0 THEN "leave" ELSE "insert")
  /\ UNCHANGED <<lockVars, flightVars, cacheVars, key, flight, ret, back, calls,
                 processVars>>

InsertLock(t) ==
  /\ pc[t] = "insert" /\ cache_lock = None
  /\ cache_lock' = t
  /\ Go(t, "inserting")
  /\ UNCHANGED <<lockVars, flightVars, cache, identity_lock, identity, callVars,
                 calls, processVars>>

\* _insert_artifact_locked.
Insert(t) ==
  LET new == MoveToEnd(key[t])
      excess == IF Len(new) > Limit THEN Len(new) - Limit ELSE 0
  IN  /\ pc[t] = "inserting"
      /\ cache' = SubSeq(new, excess + 1, Len(new))
      /\ cache_lock' = None
      /\ inserts' = [inserts EXCEPT ![t] = @ - 1]
      /\ Go(t, IF inserts[t] = 1 THEN "leave" ELSE "insert")
      /\ UNCHANGED <<lockVars, flightVars, identity_lock, identity, key, flight,
                     ret, back, calls, processVars>>

LeavePlace(t) ==
  /\ pc[t] = "leave" /\ idle = None
  /\ held' = held \ {t}
  /\ compiles' = compiles - 1
  /\ Go(t, "finish")
  /\ UNCHANGED <<lock, depth, closed_by, wait_ran_out, idle, flightVars,
                 cacheVars, callVars, calls, processVars>>

\* A first load of a module, or the creation of the driver.
Load(t) ==
  /\ pc[t] = "idle" /\ calls < MaxCalls
  /\ calls' = calls + 1
  /\ Go(t, "load")
  /\ UNCHANGED <<lockVars, flightVars, cacheVars, callVars, processVars>>

Loaded(t) ==
  /\ pc[t] = "loading"
  /\ GiveBack
  /\ Go(t, "idle")
  /\ UNCHANGED <<closed_by, wait_ran_out, compiles, idle, held, flightVars,
                 cacheVars, callVars, calls, processVars>>

-----------------------------------------------------------------------------
(* close(), run by the exit handler of the main thread. *)

\* What close() and before_fork() wait for under the lock.
NoCompiles_Unchecked == TRUE
NoCompiles == compiles = 0

Close ==
  /\ Exits /\ ~child /\ pc[Main] = "idle" /\ closed_by = None
  /\ closed_by' = Main
  /\ Go(Main, "closeLock")
  /\ UNCHANGED <<lock, depth, wait_ran_out, compiles, idle, held, flightVars,
                 cacheVars, callVars, calls, processVars>>

CloseLock ==
  /\ pc[Main] = "closeLock" /\ Free(Main)
  /\ Take(Main)
  /\ Go(Main, "closeIdle")
  /\ UNCHANGED <<closed_by, wait_ran_out, compiles, idle, held, flightVars,
                 cacheVars, callVars, calls, processVars>>

CloseDone(ranOut) ==
  /\ wait_ran_out' = ranOut
  /\ exited' = TRUE
  /\ Go(Main, "idle")
  /\ UNCHANGED <<lock, depth, closed_by, compiles, idle, held, flightVars,
                 cacheVars, callVars, calls, forked, child>>

CloseIdle ==
  pc[Main] = "closeIdle" /\ idle = None /\ NoCompiles /\ CloseDone(FALSE)

\* The wait runs out behind the holder of the lock or behind a compile.
CloseTimeout ==
  /\ \/ pc[Main] = "closeLock" /\ ~Free(Main)
     \/ pc[Main] = "closeIdle" /\ compiles > 0
  /\ CloseDone(TRUE)

-----------------------------------------------------------------------------
(* os.fork() with its handlers. *)

Fork(t) ==
  /\ pc[t] \in ForkAt /\ ~forked /\ ~exited
  /\ forked' = TRUE
  /\ back' = [back EXCEPT ![t] = pc[t]]
  /\ Go(t, "forkLock")
  /\ UNCHANGED <<lockVars, flightVars, cacheVars, key, flight, ret, inserts,
                 calls, exited, child>>

ForkLock(t) ==
  /\ pc[t] = "forkLock" /\ Free(t)
  /\ Take(t)
  /\ Go(t, "forkIdle")
  /\ UNCHANGED <<closed_by, wait_ran_out, compiles, idle, held, flightVars,
                 cacheVars, callVars, calls, processVars>>

\* before_fork keeps the lock of the condition once no compile is in flight.
ForkIdle(t) ==
  /\ pc[t] = "forkIdle" /\ idle = None /\ NoCompiles
  /\ idle' = t
  /\ Go(t, "fork")
  /\ UNCHANGED <<lock, depth, closed_by, wait_ran_out, compiles, held,
                 flightVars, cacheVars, callVars, calls, processVars>>

\* after_fork in the parent.
ForkParent(t) ==
  /\ pc[t] = "fork"
  /\ idle' = None /\ GiveBack
  /\ Go(t, back[t])
  /\ UNCHANGED <<closed_by, wait_ran_out, compiles, held, flightVars, cacheVars,
                 callVars, calls, processVars>>

\* The child: only t exists.  _after_fork_in_child makes a new flights mutex,
\* forgets the flights and gives the cold-path lock back; it leaves the other
\* locks in the state they have.
FlightsInChild_Kept == flights
FlightsInChild == [k \in Keys |-> None]
Inherited(owner, t) == IF owner \in {None, t} THEN owner ELSE Ghost

ForkChild(t) ==
  /\ pc[t] = "fork"
  /\ child' = TRUE
  /\ idle' = None /\ GiveBack
  /\ flights_lock' = None
  /\ flights' = FlightsInChild
  /\ pc' = [u \in Threads |-> IF u = t THEN back[t] ELSE "gone"]
  /\ flight' = [u \in Threads |-> IF u = t THEN flight[t] ELSE None]
  /\ cache_lock' = Inherited(cache_lock, t)
  /\ identity_lock' = Inherited(identity_lock, t)
  /\ UNCHANGED <<closed_by, wait_ran_out, compiles, held, isSet, cache, identity,
                 key, ret, inserts, back, calls, exited, forked>>

\* The child starts a thread of its own.
Spawn(t) ==
  /\ child /\ pc[t] = "gone"
  /\ Go(t, "idle")
  /\ UNCHANGED <<lockVars, flightVars, cacheVars, callVars, calls, processVars>>

-----------------------------------------------------------------------------
Init ==
  /\ lock = None /\ depth = 0 /\ closed_by = None /\ wait_ran_out = FALSE
  /\ compiles = 0 /\ idle = None /\ held = {}
  /\ flights_lock = None /\ flights = [k \in Keys |-> None] /\ isSet = {}
  /\ cache_lock = None /\ cache = <<>>
  /\ identity_lock = None /\ identity = IdentityKnown
  /\ pc = [t \in Threads |-> "idle"]
  /\ key = [t \in Threads |-> CHOOSE k \in Keys : TRUE]
  /\ flight = [t \in Threads |-> None]
  /\ ret = [t \in Threads |-> "warm"]
  /\ inserts = [t \in Threads |-> 0]
  /\ back = [t \in Threads |-> "idle"]
  /\ calls = 0 /\ exited = FALSE /\ forked = FALSE /\ child = FALSE

Begin(t) == \/ \E k \in Keys : Launch(t, k)
            \/ Load(t) \/ Fork(t) \/ Spawn(t)

\* The steps of a thread that is inside a call.
Step(t) ==
  \/ IdentityLock(t) \/ Derive(t) \/ Lookup(t) \/ Touch(t)
  \/ FlightLock(t) \/ Register(t) \/ Wait(t)
  \/ FinishLock(t) \/ Unregister(t) \/ Signal(t)
  \/ Acquire(t) \/ Acquired(t) \/ EnterPlace(t) \/ Compile(t)
  \/ InsertLock(t) \/ Insert(t) \/ LeavePlace(t) \/ Loaded(t)
  \/ ForkLock(t) \/ ForkIdle(t) \/ ForkParent(t) \/ ForkChild(t)

ExitStep == CloseLock \/ CloseIdle \/ CloseTimeout

Next == Close \/ ExitStep \/ \E t \in Threads : Begin(t) \/ Step(t)

Spec == Init /\ [][Next]_vars

\* Every thread runs again and again, and a lock that keeps coming free is
\* taken by a thread that waits for it.
FairSpec == Spec /\ SF_vars(ExitStep) /\ \A t \in Threads : SF_vars(Step(t))

-----------------------------------------------------------------------------
Labels == {"idle", "identity", "derive", "lookup", "touch", "flight",
           "register", "wait", "finish", "unregister", "signal", "place",
           "load", "acquire", "enter", "compile", "insert", "inserting",
           "leave", "loading", "parked", "closeLock", "closeIdle", "forkLock",
           "forkIdle", "fork", "gone"}

\* Every lock has an owner or none, and every call is somewhere in its code.
TypeOK ==
  /\ {lock, closed_by, idle, flights_lock} \subseteq Threads \cup {None}
  /\ {cache_lock, identity_lock} \subseteq Threads \cup {None, Ghost}
  /\ depth \in Nat /\ compiles \in Nat /\ calls \in 0..MaxCalls
  /\ held \subseteq Threads /\ isSet \subseteq Flights
  /\ {wait_ran_out, identity, exited, forked, child} \subseteq BOOLEAN
  /\ flights \in [Keys -> Flights \cup {None}]
  /\ cache \in Seq(Keys)
  /\ pc \in [Threads -> Labels]
  /\ key \in [Threads -> Keys]
  /\ flight \in [Threads -> Flights \cup {None}]
  /\ ret \in [Threads -> {"warm", "waiter", "owner", "place", "load"}]
  /\ inserts \in [Threads -> 0..2]
  /\ back \in [Threads -> ForkAt \cup {"idle"}]

Native == {"compile", "loading"}

\* Once close() has returned with the lock, no daemon thread is inside the
\* native compiler or a load, nor ever will be: the interpreter can finalize.
ExitFindsNoNativeWork ==
  exited /\ ~wait_ran_out =>
    \A t \in Threads \ {Main} : pc[t] \notin Native \cup {"enter"}

Building(t) == pc[t] \in {"acquire", "enter", "compile", "insert", "inserting",
                          "leave"} /\ flight[t] # None

\* "Build the value of `key` at most once at a time."  (A child whose thread
\* forked inside its own build has forgotten the flight of that build.)
OneBuildPerKey ==
  \A t, u \in Threads :
    ~child /\ Building(t) /\ Building(u) /\ key[t] = key[u] => t = u

\* Where an owner is between the registration and the event of its flight; a
\* fork may interrupt it.
OwnerSteps == {"lookup", "touch", "place", "acquire", "enter", "compile",
               "insert", "inserting", "leave", "finish", "unregister", "signal",
               "forkLock", "forkIdle", "fork"}

\* The two ways a thread can be stopped inside its call for good.  close(), run
\* by another thread, holds it in acquire() or keeps the lock it asks for; in a
\* child it asks for a cache lock that was taken when the process forked.
ShutOut(u) ==
  /\ closed_by \notin {None, u}
  /\ \/ pc[u] \in {"place", "parked"}
     \/ pc[u] \in {"acquire", "forkLock"} /\ lock = closed_by
Orphaned(u) == pc[u] = "insert" /\ cache_lock = Ghost

\* A thread goes on with the flight it owns.
GoesOn(u) == pc[u] \in OwnerSteps /\ ~ShutOut(u) /\ ~Orphaned(u)

\* A caller that waits for a flight is woken: the event is set, or the owner of
\* the flight is another thread of this process that goes on to set it.  The
\* exceptions are the two stops above and no third: then the caller waits for
\* ever, which a daemon may, and the exiting thread may not.
WaiterHasBuilder ==
  \A t \in Threads : pc[t] = "wait" /\ flight[t] \notin isSet =>
    \E u \in Threads : /\ u # t /\ flight[u] = flight[t]
                       /\ GoesOn(u) \/ ShutOut(u) \/ Orphaned(u)

\* A registered flight belongs to a thread of this process that goes on to
\* remove it; otherwise every later launch of its key would wait for ever.  The
\* exceptions are the same: an owner that exit stopped, or a child's cache lock.
FlightHasOwner ==
  \A k \in Keys : flights[k] # None =>
    \E t \in Threads : /\ flight[t] = flights[k] /\ key[t] = k
                       /\ GoesOn(t) \/ ShutOut(t) \/ Orphaned(t)

\* The compiles in flight are the threads that hold a place, and of those only
\* the exiting thread may own the cold-path lock or wait for it: exit and fork,
\* which wait for the places under the lock, wait for nobody who waits for them.
PlacesAreCounted ==
  /\ compiles = Cardinality(held)
  /\ \A t \in held : /\ pc[t] \in {"compile", "insert", "inserting", "leave"}
                     /\ lock = t => closed_by = t

\* Every launch, load and fork ends, in the parent and in the child, unless exit
\* has stopped its thread, or the owner of the flight it waits for, for good.
LeftAtExit(t) ==
  \/ ShutOut(t)
  \/ pc[t] = "wait" /\ \E u \in Threads \ {t} : flight[u] = flight[t] /\ ShutOut(u)
CallsReturn ==
  \A t \in Threads :
    pc[t] # "idle" ~> (pc[t] \in {"idle", "gone"} \/ LeftAtExit(t))
===============================================================================
