--------------------------- MODULE ColdPath_proofs ----------------------------
(* Proofs about the cold path for all sets of threads, keys and flights, with *)
(* exit and a fork at any of its labels.                                      *)
EXTENDS ColdPath, FiniteSetTheorems, SequenceTheorems, TLAPS

-----------------------------------------------------------------------------
(* The inductive invariant. *)

\* The labels at which a thread is inside the cold-path lock.
Inside == {"enter", "loading", "closeIdle", "forkIdle", "fork"}

\* The lock is owned by the thread inside it, once, or kept by the exiting
\* thread, which may then be inside it a second time.
LockInv ==
  /\ (lock = None) = (depth = 0)
  /\ \A t \in Threads : pc[t] \in Inside => lock = t
  /\ \A t \in Threads : lock = t /\ (pc[t] \notin Inside \/ depth > 1) =>
       t = Main /\ exited
  /\ depth > 1 => depth = 2 /\ \E t \in Threads : lock = t /\ pc[t] \in Inside

\* Exit and fork: who runs the handlers, and when.
ExitInv ==
  /\ closed_by \in {None, Main}
  /\ exited => closed_by = Main
  /\ \A t \in Threads : pc[t] \in {"closeLock", "closeIdle"} =>
       t = Main /\ closed_by = Main /\ ~exited
  /\ ~exited => ~wait_ran_out
  /\ exited => pc[Main] \notin {"forkLock", "forkIdle", "fork"}
  /\ \A t \in Threads : pc[t] = "parked" => closed_by \notin {None, t}

\* The exit handler that did not run out of time keeps the lock.
KeptInv ==
  exited /\ ~wait_ran_out =>
    /\ lock = Main /\ (pc[Main] \in Inside => depth = 2)
    /\ held \subseteq {Main}

\* A place is held from its count to its release, and nobody holds or takes one
\* while a thread forks.
PlaceLabels == {"compile", "insert", "inserting", "leave"}
PlaceInv ==
  /\ held = {t \in Threads : pc[t] \in PlaceLabels}
  /\ IsFiniteSet(held) /\ compiles = Cardinality(held)
  /\ \A t \in Threads : (pc[t] = "fork") = (idle = t)
  /\ idle # None => held = {}
  /\ \A t \in Threads : pc[t] \in {"insert", "inserting"} => inserts[t] \in 1..2

\* Where a call has a flight: its owner from the registration to the signal, a
\* waiter while it waits.
Flying == {"wait", "place", "enter", "finish", "unregister", "signal"}
            \cup PlaceLabels
Grounded == {"idle", "identity", "derive", "flight", "register", "load",
             "loading", "closeLock", "closeIdle", "gone"}
FlyInv ==
  \A t \in Threads :
    /\ pc[t] \in Flying => flight[t] # None
    /\ pc[t] \in Grounded => flight[t] = None
    /\ pc[t] \in {"identity", "derive"} => ret[t] # "owner"
    /\ pc[t] \in {"lookup", "touch"} => (flight[t] # None) = (ret[t] = "owner")
    /\ pc[t] = "acquire" => /\ ret[t] \in {"place", "load"}
                            /\ (flight[t] # None) = (ret[t] = "place")
    /\ pc[t] \in {"forkLock", "forkIdle", "fork"} =>
         (flight[t] # None) = (back[t] # "idle")

Owner(t) == flight[t] # None /\ pc[t] # "wait"
Owns(t) == Owner(t) /\ pc[t] # "signal"

\* A flight has one owner.  A registered one has an owner that will remove it,
\* one that is waited for an owner that will set it.  Outside a child every
\* owner is registered until it is about to signal.
FlightInv ==
  /\ \A t, u \in Threads :
       Owner(t) /\ Owner(u) /\ flight[t] = flight[u] => t = u
  /\ \A k \in Keys : flights[k] # None =>
       \E t \in Threads : Owns(t) /\ flight[t] = flights[k] /\ key[t] = k
  /\ \A t \in Threads : pc[t] = "wait" /\ flight[t] \notin isSet =>
       \E u \in Threads : /\ Owner(u) /\ flight[u] = flight[t]
                          /\ pc[u] = "signal" \/ flights[key[u]] = flight[u]
  /\ ~child => \A t \in Threads : Owns(t) => flights[key[t]] = flight[t]

\* The invariant that every step keeps.
IInv ==
  /\ TypeOK /\ LockInv /\ ExitInv /\ KeptInv
  /\ PlaceInv /\ FlyInv /\ FlightInv

-----------------------------------------------------------------------------
(* Lemmas about what the steps do to the cache, the lock and the places. *)

\* Inserting or refreshing a key leaves a sequence of keys, and so does dropping
\* the oldest ones.
LEMMA CacheFacts ==
  ASSUME cache \in Seq(Keys), NEW k \in Keys, NEW n \in Nat
  PROVE  /\ MoveToEnd(k) \in Seq(Keys)
         /\ LET new == MoveToEnd(k)
                excess == IF Len(new) > n THEN Len(new) - n ELSE 0
            IN  SubSeq(new, excess + 1, Len(new)) \in Seq(Keys)
<1>1. MoveToEnd(k) \in Seq(Keys)
  <2>1. Len(cache) \in Nat /\ \A i \in 1..Len(cache) : cache[i] \in Keys
    OBVIOUS
  <2>2. CASE Cached(k)
    BY <2>1, <2>2 DEF MoveToEnd
  <2>3. CASE ~Cached(k)
    BY <2>3 DEF MoveToEnd
  <2> QED BY <2>2, <2>3
<1> DEFINE new == MoveToEnd(k)
           excess == IF Len(new) > n THEN Len(new) - n ELSE 0
<1>2. new \in Seq(Keys) /\ Len(new) \in Nat /\ excess \in 0..Len(new)
  BY <1>1, LenProperties
<1> HIDE DEF new, excess
<1>3. SubSeq(new, excess + 1, Len(new)) \in Seq(Keys)
  BY <1>2
<1> QED BY <1>1, <1>3 DEF new, excess

\* A thread inside the lock owns it.
LEMMA DepthPositive ==
  ASSUME IInv, NEW t \in Threads, pc[t] \in Inside
  PROVE  lock = t /\ depth \in Nat /\ depth > 0
  BY ColdPathAssumption DEF IInv, TypeOK, LockInv

\* The count is zero exactly when nobody holds a place; taking and leaving one
\* change it by one.
LEMMA PlaceFacts ==
  ASSUME IInv, NEW t \in Threads
  PROVE  /\ compiles \in Nat
         /\ compiles = 0 => held = {}
         /\ t \in held => compiles > 0
         /\ IsFiniteSet(held \cup {t}) /\ IsFiniteSet(held \ {t})
         /\ t \notin held => Cardinality(held \cup {t}) = compiles + 1
         /\ t \in held => Cardinality(held \ {t}) = compiles - 1
<1>1. IsFiniteSet(held) /\ compiles = Cardinality(held)
  BY DEF IInv, PlaceInv
<1>2. compiles \in Nat /\ (compiles = 0 <=> held = {})
  BY <1>1, FS_CardinalityType, FS_EmptySet
<1>3. /\ IsFiniteSet(held \cup {t})
      /\ t \notin held => Cardinality(held \cup {t}) = compiles + 1
  BY <1>1, <1>2, FS_AddElement
<1>4. /\ IsFiniteSet(held \ {t})
      /\ t \in held => Cardinality(held \ {t}) = compiles - 1
  BY <1>1, <1>2, FS_RemoveElement
<1> QED BY <1>2, <1>3, <1>4

\* A step that changes no flight and neither begins nor ends a wait or a signal.
LEMMA FlightFrame ==
  ASSUME FlightInv, UNCHANGED <<flight, flights, isSet, child, key>>,
         \A u \in Threads : \A l \in {"wait", "signal"} :
           (pc'[u] = l) = (pc[u] = l)
  PROVE  FlightInv'
<1>1. \A u \in Threads : Owner(u)' = Owner(u) /\ Owns(u)' = Owns(u)
  BY DEF Owner, Owns
<1> QED BY <1>1 DEF FlightInv

-----------------------------------------------------------------------------
(* Every step keeps the invariant. *)

\* Every step keeps the types.
LEMMA TypeStep ==
  ASSUME IInv, [Next]_vars PROVE TypeOK'
<1> USE DEF lockVars, flightVars, cacheVars, callVars, processVars
<1>t. TypeOK
  BY DEF IInv
<1>i. PlaceInv /\ FlyInv
  BY DEF IInv
<1>1. ASSUME NEW t \in Threads, NEW k \in Keys, Launch(t, k) PROVE TypeOK'
  BY <1>1, <1>t, ColdPathAssumption
  DEF Launch, Go, TypeOK, Labels
<1>2. ASSUME NEW t \in Threads, Load(t) PROVE TypeOK'
  BY <1>2, <1>t, ColdPathAssumption
  DEF Load, Go, TypeOK, Labels
<1>3. ASSUME NEW t \in Threads, Fork(t) PROVE TypeOK'
  BY <1>3, <1>t, ColdPathAssumption
  DEF Fork, Go, TypeOK, Labels
<1>4. ASSUME NEW t \in Threads, Spawn(t) PROVE TypeOK'
  BY <1>4, <1>t, ColdPathAssumption
  DEF Spawn, Go, TypeOK, Labels
<1>5. ASSUME NEW t \in Threads, IdentityLock(t) PROVE TypeOK'
  BY <1>5, <1>t, ColdPathAssumption
  DEF IdentityLock, Go, TypeOK, Labels
<1>6. ASSUME NEW t \in Threads, Derive(t) PROVE TypeOK'
  BY <1>6, <1>t, ColdPathAssumption
  DEF Derive, Go, TypeOK, Labels
<1>7. ASSUME NEW t \in Threads, Lookup(t) PROVE TypeOK'
  BY <1>7, <1>t, ColdPathAssumption
  DEF Lookup, Go, AfterHit, AfterMiss, TypeOK, Labels
<1>8. ASSUME NEW t \in Threads, Touch(t) PROVE TypeOK'
  <2>1. MoveToEnd(key[t]) \in Seq(Keys)
    BY <1>t, CacheFacts DEF TypeOK
  <2> QED BY <1>8, <1>t, <2>1, ColdPathAssumption DEF Touch, Go, AfterHit,
      TypeOK, Labels
<1>9. ASSUME NEW t \in Threads, FlightLock(t) PROVE TypeOK'
  BY <1>9, <1>t, ColdPathAssumption
  DEF FlightLock, Go, TypeOK, Labels
<1>10. ASSUME NEW t \in Threads, Register(t) PROVE TypeOK'
  <2>1. CASE InFlight(key[t])
    BY <1>10, <2>1, <1>t, ColdPathAssumption DEF Register, Go, InFlight,
        TypeOK, Labels
  <2>2. CASE ~InFlight(key[t])
    <3>1. PICK f \in Flights :
            /\ flights' = [flights EXCEPT ![key[t]] = f]
            /\ isSet' = isSet \ {f}
            /\ flight' = [flight EXCEPT ![t] = f]
            /\ ret' = [ret EXCEPT ![t] = "owner"]
            /\ pc' = [pc EXCEPT ![t] = "lookup"]
      BY <1>10, <2>2 DEF Register, Go
    <3>2. /\ flights' \in [Keys -> Flights \cup {None}]
          /\ isSet' \subseteq Flights
          /\ flight' \in [Threads -> Flights \cup {None}]
      BY <3>1, <1>t DEF TypeOK
    <3>3. /\ ret' \in [Threads -> {"warm", "waiter", "owner", "place", "load"}]
          /\ pc' \in [Threads -> Labels]
      BY <3>1, <1>t DEF TypeOK, Labels
    <3> QED BY <1>10, <3>2, <3>3, <1>t DEF Register, TypeOK
  <2> QED BY <2>1, <2>2
<1>11. ASSUME NEW t \in Threads, Wait(t) PROVE TypeOK'
  BY <1>11, <1>t, ColdPathAssumption
  DEF Wait, Go, TypeOK, Labels
<1>12. ASSUME NEW t \in Threads, FinishLock(t) PROVE TypeOK'
  BY <1>12, <1>t, ColdPathAssumption
  DEF FinishLock, Go, TypeOK, Labels
<1>13. ASSUME NEW t \in Threads, Unregister(t) PROVE TypeOK'
  BY <1>13, <1>t, ColdPathAssumption
  DEF Unregister, Go, OwnsFlight, TypeOK, Labels
<1>14. ASSUME NEW t \in Threads, Signal(t) PROVE TypeOK'
  <2>1. flight[t] \in Flights
    BY <1>14, <1>t, <1>i DEF Signal, FlyInv, Flying, TypeOK
  <2> QED BY <1>14, <1>t, <2>1, ColdPathAssumption DEF Signal, SetBy, Go,
      TypeOK, Labels
<1>15. ASSUME NEW t \in Threads, Acquire(t) PROVE TypeOK'
  BY <1>15, <1>t, ColdPathAssumption
  DEF Acquire, Go, Free, TypeOK, Labels
<1>16. ASSUME NEW t \in Threads, Acquired(t) PROVE TypeOK'
  BY <1>16, <1>t, ColdPathAssumption
  DEF Acquired, Go, Free, Take, TypeOK, Labels
<1>17. ASSUME NEW t \in Threads, EnterPlace(t) PROVE TypeOK'
  <2>1. lock = t /\ depth - 1 \in Nat
    BY <1>17, DepthPositive DEF EnterPlace, Inside
  <2> QED BY <1>17, <1>t, <2>1, ColdPathAssumption
          DEF EnterPlace, GiveBack, OneMore, Go, TypeOK, Labels
<1>18. ASSUME NEW t \in Threads, Compile(t) PROVE TypeOK'
  BY <1>18, <1>t, ColdPathAssumption
  DEF Compile, Go, TypeOK, Labels
<1>19. ASSUME NEW t \in Threads, InsertLock(t) PROVE TypeOK'
  BY <1>19, <1>t, ColdPathAssumption
  DEF InsertLock, Go, TypeOK, Labels
<1>20. ASSUME NEW t \in Threads, Insert(t) PROVE TypeOK'
  <2> DEFINE new == MoveToEnd(key[t])
             excess == IF Len(new) > Limit THEN Len(new) - Limit ELSE 0
  <2>1. SubSeq(new, excess + 1, Len(new)) \in Seq(Keys)
    BY <1>t, CacheFacts, ColdPathAssumption DEF TypeOK
  <2>2. cache' \in Seq(Keys)
    BY <1>20, <2>1 DEF Insert
  <2>3. inserts[t] \in 1..2
    BY <1>20, <1>i DEF Insert, PlaceInv
  <2> HIDE DEF new, excess
  <2> QED BY <1>20, <1>t, <2>2, <2>3, ColdPathAssumption
          DEF Insert, Go, TypeOK, Labels
<1>21. ASSUME NEW t \in Threads, LeavePlace(t) PROVE TypeOK'
  <2>1. compiles - 1 \in Nat
    BY <1>21, <1>i, PlaceFacts DEF LeavePlace, PlaceInv, PlaceLabels
  <2> QED BY <1>21, <1>t, <2>1, ColdPathAssumption DEF LeavePlace, Go, TypeOK,
      Labels
<1>22. ASSUME NEW t \in Threads, Loaded(t) PROVE TypeOK'
  <2>1. lock = t /\ depth - 1 \in Nat
    BY <1>22, DepthPositive DEF Loaded, Inside
  <2> QED BY <1>22, <1>t, <2>1, ColdPathAssumption
          DEF Loaded, GiveBack, Go, TypeOK, Labels
<1>23. ASSUME NEW t \in Threads, ForkLock(t) PROVE TypeOK'
  BY <1>23, <1>t, ColdPathAssumption
  DEF ForkLock, Go, Free, Take, TypeOK, Labels
<1>24. ASSUME NEW t \in Threads, ForkIdle(t) PROVE TypeOK'
  BY <1>24, <1>t, ColdPathAssumption
  DEF ForkIdle, Go, NoCompiles, TypeOK, Labels
<1>25. ASSUME NEW t \in Threads, ForkParent(t) PROVE TypeOK'
  <2>1. lock = t /\ depth - 1 \in Nat
    BY <1>25, DepthPositive DEF ForkParent, Inside
  <2> QED BY <1>25, <1>t, <2>1, ColdPathAssumption
          DEF ForkParent, GiveBack, Go, TypeOK, Labels
<1>26. ASSUME NEW t \in Threads, ForkChild(t) PROVE TypeOK'
  <2>1. lock = t /\ depth - 1 \in Nat
    BY <1>26, DepthPositive DEF ForkChild, Inside
  <2> QED BY <1>26, <1>t, <2>1, ColdPathAssumption
          DEF ForkChild, GiveBack, FlightsInChild, Inherited, Go, TypeOK,
              Labels
<1>27. ASSUME Close PROVE TypeOK'
  BY <1>27, <1>t, ColdPathAssumption
  DEF Close, Go, TypeOK, Labels
<1>28. ASSUME CloseLock PROVE TypeOK'
  BY <1>28, <1>t, ColdPathAssumption
  DEF CloseLock, Go, Free, Take, TypeOK, Labels
<1>29. ASSUME CloseIdle PROVE TypeOK'
  BY <1>29, <1>t, ColdPathAssumption
  DEF CloseIdle, Go, CloseDone, NoCompiles, TypeOK, Labels
<1>30. ASSUME CloseTimeout PROVE TypeOK'
  BY <1>30, <1>t, ColdPathAssumption
  DEF CloseTimeout, Go, CloseDone, Free, TypeOK, Labels
<1>u. CASE UNCHANGED vars
  BY <1>u, <1>t, ColdPathAssumption DEF vars, TypeOK, Labels
<1> QED BY <1>1, <1>2, <1>3, <1>4, <1>5, <1>6, <1>7, <1>8, <1>9, <1>10, <1>11,
          <1>12, <1>13, <1>14, <1>15, <1>16, <1>17, <1>18, <1>19, <1>20,
          <1>21, <1>22, <1>23, <1>24, <1>25, <1>26, <1>27, <1>28, <1>29,
          <1>30, <1>u DEF Next, Begin, Step, ExitStep

\* Every step keeps the owner of the lock and how often it is taken.
LEMMA LockStep ==
  ASSUME IInv, [Next]_vars PROVE LockInv'
<1> USE DEF lockVars, flightVars, cacheVars, callVars, processVars
<1>t. TypeOK
  BY DEF IInv
<1>i. LockInv /\ ExitInv
  BY DEF IInv
<1>1. ASSUME NEW t \in Threads, NEW k \in Keys, Launch(t, k) PROVE LockInv'
  BY <1>1, <1>t, <1>i, ColdPathAssumption
  DEF Launch, Go, TypeOK, LockInv, ExitInv, Inside
<1>2. ASSUME NEW t \in Threads, Load(t) PROVE LockInv'
  BY <1>2, <1>t, <1>i, ColdPathAssumption
  DEF Load, Go, TypeOK, LockInv, ExitInv, Inside
<1>3. ASSUME NEW t \in Threads, Fork(t) PROVE LockInv'
  BY <1>3, <1>t, <1>i, ColdPathAssumption
  DEF Fork, Go, TypeOK, LockInv, ExitInv, Inside
<1>4. ASSUME NEW t \in Threads, Spawn(t) PROVE LockInv'
  BY <1>4, <1>t, <1>i, ColdPathAssumption
  DEF Spawn, Go, TypeOK, LockInv, ExitInv, Inside
<1>5. ASSUME NEW t \in Threads, IdentityLock(t) PROVE LockInv'
  BY <1>5, <1>t, <1>i, ColdPathAssumption
  DEF IdentityLock, Go, TypeOK, LockInv, ExitInv, Inside
<1>6. ASSUME NEW t \in Threads, Derive(t) PROVE LockInv'
  BY <1>6, <1>t, <1>i, ColdPathAssumption
  DEF Derive, Go, TypeOK, LockInv, ExitInv, Inside
<1>7. ASSUME NEW t \in Threads, Lookup(t) PROVE LockInv'
  BY <1>7, <1>t, <1>i, ColdPathAssumption
  DEF Lookup, Go, AfterHit, AfterMiss, TypeOK, LockInv, ExitInv, Inside
<1>8. ASSUME NEW t \in Threads, Touch(t) PROVE LockInv'
  BY <1>8, <1>t, <1>i, ColdPathAssumption
  DEF Touch, Go, AfterHit, TypeOK, LockInv, ExitInv, Inside
<1>9. ASSUME NEW t \in Threads, FlightLock(t) PROVE LockInv'
  BY <1>9, <1>t, <1>i, ColdPathAssumption
  DEF FlightLock, Go, TypeOK, LockInv, ExitInv, Inside
<1>10. ASSUME NEW t \in Threads, Register(t) PROVE LockInv'
  BY <1>10, <1>t, <1>i, ColdPathAssumption
  DEF Register, Go, InFlight, TypeOK, LockInv, ExitInv, Inside
<1>11. ASSUME NEW t \in Threads, Wait(t) PROVE LockInv'
  BY <1>11, <1>t, <1>i, ColdPathAssumption
  DEF Wait, Go, TypeOK, LockInv, ExitInv, Inside
<1>12. ASSUME NEW t \in Threads, FinishLock(t) PROVE LockInv'
  BY <1>12, <1>t, <1>i, ColdPathAssumption
  DEF FinishLock, Go, TypeOK, LockInv, ExitInv, Inside
<1>13. ASSUME NEW t \in Threads, Unregister(t) PROVE LockInv'
  BY <1>13, <1>t, <1>i, ColdPathAssumption
  DEF Unregister, Go, OwnsFlight, TypeOK, LockInv, ExitInv, Inside
<1>14. ASSUME NEW t \in Threads, Signal(t) PROVE LockInv'
  BY <1>14, <1>t, <1>i, ColdPathAssumption
  DEF Signal, Go, SetBy, TypeOK, LockInv, ExitInv, Inside
<1>15. ASSUME NEW t \in Threads, Acquire(t) PROVE LockInv'
  BY <1>15, <1>t, <1>i, ColdPathAssumption
  DEF Acquire, Go, Free, TypeOK, LockInv, ExitInv, Inside
<1>16. ASSUME NEW t \in Threads, Acquired(t) PROVE LockInv'
  BY <1>16, <1>t, <1>i, ColdPathAssumption
  DEF Acquired, Go, Free, Take, TypeOK, LockInv, ExitInv, Inside
<1>17. ASSUME NEW t \in Threads, EnterPlace(t) PROVE LockInv'
  BY <1>17, <1>t, <1>i, ColdPathAssumption
  DEF EnterPlace, Go, OneMore, GiveBack, TypeOK, LockInv, ExitInv, Inside
<1>18. ASSUME NEW t \in Threads, Compile(t) PROVE LockInv'
  BY <1>18, <1>t, <1>i, ColdPathAssumption
  DEF Compile, Go, TypeOK, LockInv, ExitInv, Inside
<1>19. ASSUME NEW t \in Threads, InsertLock(t) PROVE LockInv'
  BY <1>19, <1>t, <1>i, ColdPathAssumption
  DEF InsertLock, Go, TypeOK, LockInv, ExitInv, Inside
<1>20. ASSUME NEW t \in Threads, Insert(t) PROVE LockInv'
  BY <1>20, <1>t, <1>i, ColdPathAssumption
  DEF Insert, Go, TypeOK, LockInv, ExitInv, Inside
<1>21. ASSUME NEW t \in Threads, LeavePlace(t) PROVE LockInv'
  BY <1>21, <1>t, <1>i, ColdPathAssumption
  DEF LeavePlace, Go, TypeOK, LockInv, ExitInv, Inside
<1>22. ASSUME NEW t \in Threads, Loaded(t) PROVE LockInv'
  BY <1>22, <1>t, <1>i, ColdPathAssumption
  DEF Loaded, Go, GiveBack, TypeOK, LockInv, ExitInv, Inside
<1>23. ASSUME NEW t \in Threads, ForkLock(t) PROVE LockInv'
  BY <1>23, <1>t, <1>i, ColdPathAssumption
  DEF ForkLock, Go, Free, Take, TypeOK, LockInv, ExitInv, Inside
<1>24. ASSUME NEW t \in Threads, ForkIdle(t) PROVE LockInv'
  BY <1>24, <1>t, <1>i, ColdPathAssumption
  DEF ForkIdle, Go, NoCompiles, TypeOK, LockInv, ExitInv, Inside
<1>25. ASSUME NEW t \in Threads, ForkParent(t) PROVE LockInv'
  BY <1>25, <1>t, <1>i, ColdPathAssumption
  DEF ForkParent, Go, GiveBack, TypeOK, LockInv, ExitInv, Inside
<1>26. ASSUME NEW t \in Threads, ForkChild(t) PROVE LockInv'
  BY <1>26, <1>t, <1>i, ColdPathAssumption
  DEF ForkChild, Go, GiveBack, FlightsInChild, Inherited, TypeOK, LockInv,
      ExitInv, Inside
<1>27. ASSUME Close PROVE LockInv'
  BY <1>27, <1>t, <1>i, ColdPathAssumption
  DEF Close, Go, TypeOK, LockInv, ExitInv, Inside
<1>28. ASSUME CloseLock PROVE LockInv'
  BY <1>28, <1>t, <1>i, ColdPathAssumption
  DEF CloseLock, Go, Free, Take, TypeOK, LockInv, ExitInv, Inside
<1>29. ASSUME CloseIdle PROVE LockInv'
  BY <1>29, <1>t, <1>i, ColdPathAssumption
  DEF CloseIdle, Go, CloseDone, NoCompiles, TypeOK, LockInv, ExitInv, Inside
<1>30. ASSUME CloseTimeout PROVE LockInv'
  BY <1>30, <1>t, <1>i, ColdPathAssumption
  DEF CloseTimeout, Go, CloseDone, Free, TypeOK, LockInv, ExitInv, Inside
<1>u. CASE UNCHANGED vars
  BY <1>u, <1>t, <1>i, ColdPathAssumption DEF vars, TypeOK, LockInv, ExitInv,
      Inside
<1> QED BY <1>1, <1>2, <1>3, <1>4, <1>5, <1>6, <1>7, <1>8, <1>9, <1>10, <1>11,
          <1>12, <1>13, <1>14, <1>15, <1>16, <1>17, <1>18, <1>19, <1>20,
          <1>21, <1>22, <1>23, <1>24, <1>25, <1>26, <1>27, <1>28, <1>29,
          <1>30, <1>u DEF Next, Begin, Step, ExitStep

\* Only the exit handler of the main thread closes the lock, once.
LEMMA ExitStepInv ==
  ASSUME IInv, [Next]_vars PROVE ExitInv'
<1> USE DEF lockVars, flightVars, cacheVars, callVars, processVars
<1>t. TypeOK
  BY DEF IInv
<1>i. LockInv /\ ExitInv
  BY DEF IInv
<1>1. ASSUME NEW t \in Threads, NEW k \in Keys, Launch(t, k) PROVE ExitInv'
  BY <1>1, <1>t, <1>i, ColdPathAssumption
  DEF Launch, Go, TypeOK, ExitInv
<1>2. ASSUME NEW t \in Threads, Load(t) PROVE ExitInv'
  BY <1>2, <1>t, <1>i, ColdPathAssumption
  DEF Load, Go, TypeOK, ExitInv
<1>3. ASSUME NEW t \in Threads, Fork(t) PROVE ExitInv'
  BY <1>3, <1>t, <1>i, ColdPathAssumption
  DEF Fork, Go, TypeOK, ExitInv
<1>4. ASSUME NEW t \in Threads, Spawn(t) PROVE ExitInv'
  BY <1>4, <1>t, <1>i, ColdPathAssumption
  DEF Spawn, Go, TypeOK, ExitInv
<1>5. ASSUME NEW t \in Threads, IdentityLock(t) PROVE ExitInv'
  BY <1>5, <1>t, <1>i, ColdPathAssumption
  DEF IdentityLock, Go, TypeOK, ExitInv
<1>6. ASSUME NEW t \in Threads, Derive(t) PROVE ExitInv'
  BY <1>6, <1>t, <1>i, ColdPathAssumption
  DEF Derive, Go, TypeOK, ExitInv
<1>7. ASSUME NEW t \in Threads, Lookup(t) PROVE ExitInv'
  BY <1>7, <1>t, <1>i, ColdPathAssumption
  DEF Lookup, Go, AfterHit, AfterMiss, TypeOK, ExitInv
<1>8. ASSUME NEW t \in Threads, Touch(t) PROVE ExitInv'
  BY <1>8, <1>t, <1>i, ColdPathAssumption
  DEF Touch, Go, AfterHit, TypeOK, ExitInv
<1>9. ASSUME NEW t \in Threads, FlightLock(t) PROVE ExitInv'
  BY <1>9, <1>t, <1>i, ColdPathAssumption
  DEF FlightLock, Go, TypeOK, ExitInv
<1>10. ASSUME NEW t \in Threads, Register(t) PROVE ExitInv'
  BY <1>10, <1>t, <1>i, ColdPathAssumption
  DEF Register, Go, InFlight, TypeOK, ExitInv
<1>11. ASSUME NEW t \in Threads, Wait(t) PROVE ExitInv'
  BY <1>11, <1>t, <1>i, ColdPathAssumption
  DEF Wait, Go, TypeOK, ExitInv
<1>12. ASSUME NEW t \in Threads, FinishLock(t) PROVE ExitInv'
  BY <1>12, <1>t, <1>i, ColdPathAssumption
  DEF FinishLock, Go, TypeOK, ExitInv
<1>13. ASSUME NEW t \in Threads, Unregister(t) PROVE ExitInv'
  BY <1>13, <1>t, <1>i, ColdPathAssumption
  DEF Unregister, Go, OwnsFlight, TypeOK, ExitInv
<1>14. ASSUME NEW t \in Threads, Signal(t) PROVE ExitInv'
  BY <1>14, <1>t, <1>i, ColdPathAssumption
  DEF Signal, Go, SetBy, TypeOK, ExitInv
<1>15. ASSUME NEW t \in Threads, Acquire(t) PROVE ExitInv'
  BY <1>15, <1>t, <1>i, ColdPathAssumption
  DEF Acquire, Go, Free, TypeOK, ExitInv
<1>16. ASSUME NEW t \in Threads, Acquired(t) PROVE ExitInv'
  BY <1>16, <1>t, <1>i, ColdPathAssumption
  DEF Acquired, Go, Free, Take, TypeOK, ExitInv
<1>17. ASSUME NEW t \in Threads, EnterPlace(t) PROVE ExitInv'
  BY <1>17, <1>t, <1>i, ColdPathAssumption
  DEF EnterPlace, Go, OneMore, GiveBack, TypeOK, ExitInv
<1>18. ASSUME NEW t \in Threads, Compile(t) PROVE ExitInv'
  BY <1>18, <1>t, <1>i, ColdPathAssumption
  DEF Compile, Go, TypeOK, ExitInv
<1>19. ASSUME NEW t \in Threads, InsertLock(t) PROVE ExitInv'
  BY <1>19, <1>t, <1>i, ColdPathAssumption
  DEF InsertLock, Go, TypeOK, ExitInv
<1>20. ASSUME NEW t \in Threads, Insert(t) PROVE ExitInv'
  BY <1>20, <1>t, <1>i, ColdPathAssumption
  DEF Insert, Go, TypeOK, ExitInv
<1>21. ASSUME NEW t \in Threads, LeavePlace(t) PROVE ExitInv'
  BY <1>21, <1>t, <1>i, ColdPathAssumption
  DEF LeavePlace, Go, TypeOK, ExitInv
<1>22. ASSUME NEW t \in Threads, Loaded(t) PROVE ExitInv'
  BY <1>22, <1>t, <1>i, ColdPathAssumption
  DEF Loaded, Go, GiveBack, TypeOK, ExitInv
<1>23. ASSUME NEW t \in Threads, ForkLock(t) PROVE ExitInv'
  BY <1>23, <1>t, <1>i, ColdPathAssumption
  DEF ForkLock, Go, Free, Take, TypeOK, ExitInv
<1>24. ASSUME NEW t \in Threads, ForkIdle(t) PROVE ExitInv'
  BY <1>24, <1>t, <1>i, ColdPathAssumption
  DEF ForkIdle, Go, NoCompiles, TypeOK, ExitInv
<1>25. ASSUME NEW t \in Threads, ForkParent(t) PROVE ExitInv'
  BY <1>25, <1>t, <1>i, ColdPathAssumption
  DEF ForkParent, Go, GiveBack, TypeOK, ExitInv
<1>26. ASSUME NEW t \in Threads, ForkChild(t) PROVE ExitInv'
  BY <1>26, <1>t, <1>i, ColdPathAssumption
  DEF ForkChild, Go, GiveBack, FlightsInChild, Inherited, TypeOK, ExitInv
<1>27. ASSUME Close PROVE ExitInv'
  BY <1>27, <1>t, <1>i, ColdPathAssumption
  DEF Close, Go, TypeOK, ExitInv
<1>28. ASSUME CloseLock PROVE ExitInv'
  BY <1>28, <1>t, <1>i, ColdPathAssumption
  DEF CloseLock, Go, Free, Take, TypeOK, ExitInv
<1>29. ASSUME CloseIdle PROVE ExitInv'
  BY <1>29, <1>t, <1>i, ColdPathAssumption
  DEF CloseIdle, Go, CloseDone, NoCompiles, TypeOK, ExitInv
<1>30. ASSUME CloseTimeout PROVE ExitInv'
  BY <1>30, <1>t, <1>i, ColdPathAssumption
  DEF CloseTimeout, Go, CloseDone, Free, TypeOK, ExitInv
<1>u. CASE UNCHANGED vars
  BY <1>u, <1>t, <1>i, ColdPathAssumption DEF vars, TypeOK, ExitInv
<1> QED BY <1>1, <1>2, <1>3, <1>4, <1>5, <1>6, <1>7, <1>8, <1>9, <1>10, <1>11,
          <1>12, <1>13, <1>14, <1>15, <1>16, <1>17, <1>18, <1>19, <1>20,
          <1>21, <1>22, <1>23, <1>24, <1>25, <1>26, <1>27, <1>28, <1>29,
          <1>30, <1>u DEF Next, Begin, Step, ExitStep

\* After an exit in time the lock stays with the main thread.
LEMMA KeptStep ==
  ASSUME IInv, [Next]_vars PROVE KeptInv'
<1> USE DEF lockVars, flightVars, cacheVars, callVars, processVars
<1>t. TypeOK
  BY DEF IInv
<1>i. KeptInv /\ LockInv /\ ExitInv /\ PlaceInv
  BY DEF IInv
<1>1. ASSUME NEW t \in Threads, NEW k \in Keys, Launch(t, k) PROVE KeptInv'
  BY <1>1, <1>t, <1>i, ColdPathAssumption
  DEF Launch, Go, TypeOK, KeptInv, LockInv, ExitInv, PlaceInv, Inside
<1>2. ASSUME NEW t \in Threads, Load(t) PROVE KeptInv'
  BY <1>2, <1>t, <1>i, ColdPathAssumption
  DEF Load, Go, TypeOK, KeptInv, LockInv, ExitInv, PlaceInv, Inside
<1>3. ASSUME NEW t \in Threads, Fork(t) PROVE KeptInv'
  BY <1>3, <1>t, <1>i, ColdPathAssumption
  DEF Fork, Go, TypeOK, KeptInv, LockInv, ExitInv, PlaceInv, Inside
<1>4. ASSUME NEW t \in Threads, Spawn(t) PROVE KeptInv'
  BY <1>4, <1>t, <1>i, ColdPathAssumption
  DEF Spawn, Go, TypeOK, KeptInv, LockInv, ExitInv, PlaceInv, Inside
<1>5. ASSUME NEW t \in Threads, IdentityLock(t) PROVE KeptInv'
  BY <1>5, <1>t, <1>i, ColdPathAssumption
  DEF IdentityLock, Go, TypeOK, KeptInv, LockInv, ExitInv, PlaceInv, Inside
<1>6. ASSUME NEW t \in Threads, Derive(t) PROVE KeptInv'
  BY <1>6, <1>t, <1>i, ColdPathAssumption
  DEF Derive, Go, TypeOK, KeptInv, LockInv, ExitInv, PlaceInv, Inside
<1>7. ASSUME NEW t \in Threads, Lookup(t) PROVE KeptInv'
  BY <1>7, <1>t, <1>i, ColdPathAssumption
  DEF Lookup, Go, AfterHit, AfterMiss, TypeOK, KeptInv, LockInv, ExitInv,
      PlaceInv, Inside
<1>8. ASSUME NEW t \in Threads, Touch(t) PROVE KeptInv'
  BY <1>8, <1>t, <1>i, ColdPathAssumption
  DEF Touch, Go, AfterHit, TypeOK, KeptInv, LockInv, ExitInv, PlaceInv, Inside
<1>9. ASSUME NEW t \in Threads, FlightLock(t) PROVE KeptInv'
  BY <1>9, <1>t, <1>i, ColdPathAssumption
  DEF FlightLock, Go, TypeOK, KeptInv, LockInv, ExitInv, PlaceInv, Inside
<1>10. ASSUME NEW t \in Threads, Register(t) PROVE KeptInv'
  BY <1>10, <1>t, <1>i, ColdPathAssumption
  DEF Register, Go, InFlight, TypeOK, KeptInv, LockInv, ExitInv, PlaceInv,
      Inside
<1>11. ASSUME NEW t \in Threads, Wait(t) PROVE KeptInv'
  BY <1>11, <1>t, <1>i, ColdPathAssumption
  DEF Wait, Go, TypeOK, KeptInv, LockInv, ExitInv, PlaceInv, Inside
<1>12. ASSUME NEW t \in Threads, FinishLock(t) PROVE KeptInv'
  BY <1>12, <1>t, <1>i, ColdPathAssumption
  DEF FinishLock, Go, TypeOK, KeptInv, LockInv, ExitInv, PlaceInv, Inside
<1>13. ASSUME NEW t \in Threads, Unregister(t) PROVE KeptInv'
  BY <1>13, <1>t, <1>i, ColdPathAssumption
  DEF Unregister, Go, OwnsFlight, TypeOK, KeptInv, LockInv, ExitInv, PlaceInv,
      Inside
<1>14. ASSUME NEW t \in Threads, Signal(t) PROVE KeptInv'
  BY <1>14, <1>t, <1>i, ColdPathAssumption
  DEF Signal, Go, SetBy, TypeOK, KeptInv, LockInv, ExitInv, PlaceInv, Inside
<1>15. ASSUME NEW t \in Threads, Acquire(t) PROVE KeptInv'
  BY <1>15, <1>t, <1>i, ColdPathAssumption
  DEF Acquire, Go, Free, TypeOK, KeptInv, LockInv, ExitInv, PlaceInv, Inside
<1>16. ASSUME NEW t \in Threads, Acquired(t) PROVE KeptInv'
  BY <1>16, <1>t, <1>i, ColdPathAssumption
  DEF Acquired, Go, Free, Take, TypeOK, KeptInv, LockInv, ExitInv, PlaceInv,
      Inside
<1>17. ASSUME NEW t \in Threads, EnterPlace(t) PROVE KeptInv'
  BY <1>17, <1>t, <1>i, ColdPathAssumption
  DEF EnterPlace, Go, OneMore, GiveBack, TypeOK, KeptInv, LockInv, ExitInv,
      PlaceInv, Inside
<1>18. ASSUME NEW t \in Threads, Compile(t) PROVE KeptInv'
  BY <1>18, <1>t, <1>i, ColdPathAssumption
  DEF Compile, Go, TypeOK, KeptInv, LockInv, ExitInv, PlaceInv, Inside
<1>19. ASSUME NEW t \in Threads, InsertLock(t) PROVE KeptInv'
  BY <1>19, <1>t, <1>i, ColdPathAssumption
  DEF InsertLock, Go, TypeOK, KeptInv, LockInv, ExitInv, PlaceInv, Inside
<1>20. ASSUME NEW t \in Threads, Insert(t) PROVE KeptInv'
  BY <1>20, <1>t, <1>i, ColdPathAssumption
  DEF Insert, Go, TypeOK, KeptInv, LockInv, ExitInv, PlaceInv, Inside
<1>21. ASSUME NEW t \in Threads, LeavePlace(t) PROVE KeptInv'
  BY <1>21, <1>t, <1>i, ColdPathAssumption
  DEF LeavePlace, Go, TypeOK, KeptInv, LockInv, ExitInv, PlaceInv, Inside
<1>22. ASSUME NEW t \in Threads, Loaded(t) PROVE KeptInv'
  BY <1>22, <1>t, <1>i, ColdPathAssumption
  DEF Loaded, Go, GiveBack, TypeOK, KeptInv, LockInv, ExitInv, PlaceInv, Inside
<1>23. ASSUME NEW t \in Threads, ForkLock(t) PROVE KeptInv'
  BY <1>23, <1>t, <1>i, ColdPathAssumption
  DEF ForkLock, Go, Free, Take, TypeOK, KeptInv, LockInv, ExitInv, PlaceInv,
      Inside
<1>24. ASSUME NEW t \in Threads, ForkIdle(t) PROVE KeptInv'
  BY <1>24, <1>t, <1>i, ColdPathAssumption
  DEF ForkIdle, Go, NoCompiles, TypeOK, KeptInv, LockInv, ExitInv, PlaceInv,
      Inside
<1>25. ASSUME NEW t \in Threads, ForkParent(t) PROVE KeptInv'
  BY <1>25, <1>t, <1>i, ColdPathAssumption
  DEF ForkParent, Go, GiveBack, TypeOK, KeptInv, LockInv, ExitInv, PlaceInv,
      Inside
<1>26. ASSUME NEW t \in Threads, ForkChild(t) PROVE KeptInv'
  BY <1>26, <1>t, <1>i, ColdPathAssumption
  DEF ForkChild, Go, GiveBack, FlightsInChild, Inherited, TypeOK, KeptInv,
      LockInv, ExitInv, PlaceInv, Inside
<1>27. ASSUME Close PROVE KeptInv'
  BY <1>27, <1>t, <1>i, ColdPathAssumption
  DEF Close, Go, TypeOK, KeptInv, LockInv, ExitInv, PlaceInv, Inside
<1>28. ASSUME CloseLock PROVE KeptInv'
  BY <1>28, <1>t, <1>i, ColdPathAssumption
  DEF CloseLock, Go, Free, Take, TypeOK, KeptInv, LockInv, ExitInv, PlaceInv,
      Inside
<1>29. ASSUME CloseIdle PROVE KeptInv'
  <2>1. held = {}
    BY <1>29, PlaceFacts, ColdPathAssumption DEF CloseIdle, NoCompiles
  <2> QED BY <1>29, <2>1, <1>t, <1>i, ColdPathAssumption
          DEF CloseIdle, CloseDone, Go, TypeOK, KeptInv, LockInv, ExitInv,
              Inside
<1>30. ASSUME CloseTimeout PROVE KeptInv'
  BY <1>30, <1>t, <1>i, ColdPathAssumption
  DEF CloseTimeout, Go, CloseDone, Free, TypeOK, KeptInv, LockInv, ExitInv,
      PlaceInv, Inside
<1>u. CASE UNCHANGED vars
  BY <1>u, <1>t, <1>i, ColdPathAssumption DEF vars, TypeOK, KeptInv, LockInv,
      ExitInv, PlaceInv, Inside
<1> QED BY <1>1, <1>2, <1>3, <1>4, <1>5, <1>6, <1>7, <1>8, <1>9, <1>10, <1>11,
          <1>12, <1>13, <1>14, <1>15, <1>16, <1>17, <1>18, <1>19, <1>20,
          <1>21, <1>22, <1>23, <1>24, <1>25, <1>26, <1>27, <1>28, <1>29,
          <1>30, <1>u DEF Next, Begin, Step, ExitStep

\* Every step keeps the count of the places.
LEMMA PlaceStep ==
  ASSUME IInv, [Next]_vars PROVE PlaceInv'
<1> USE DEF lockVars, flightVars, cacheVars, callVars, processVars
<1>t. TypeOK
  BY DEF IInv
<1>i. PlaceInv
  BY DEF IInv
<1>1. ASSUME NEW t \in Threads, NEW k \in Keys, Launch(t, k) PROVE PlaceInv'
  BY <1>1, <1>t, <1>i, ColdPathAssumption
  DEF Launch, Go, TypeOK, PlaceInv, PlaceLabels
<1>2. ASSUME NEW t \in Threads, Load(t) PROVE PlaceInv'
  BY <1>2, <1>t, <1>i, ColdPathAssumption
  DEF Load, Go, TypeOK, PlaceInv, PlaceLabels
<1>3. ASSUME NEW t \in Threads, Fork(t) PROVE PlaceInv'
  BY <1>3, <1>t, <1>i, ColdPathAssumption
  DEF Fork, Go, TypeOK, PlaceInv, PlaceLabels
<1>4. ASSUME NEW t \in Threads, Spawn(t) PROVE PlaceInv'
  BY <1>4, <1>t, <1>i, ColdPathAssumption
  DEF Spawn, Go, TypeOK, PlaceInv, PlaceLabels
<1>5. ASSUME NEW t \in Threads, IdentityLock(t) PROVE PlaceInv'
  BY <1>5, <1>t, <1>i, ColdPathAssumption
  DEF IdentityLock, Go, TypeOK, PlaceInv, PlaceLabels
<1>6. ASSUME NEW t \in Threads, Derive(t) PROVE PlaceInv'
  BY <1>6, <1>t, <1>i, ColdPathAssumption
  DEF Derive, Go, TypeOK, PlaceInv, PlaceLabels
<1>7. ASSUME NEW t \in Threads, Lookup(t) PROVE PlaceInv'
  BY <1>7, <1>t, <1>i, ColdPathAssumption
  DEF Lookup, Go, AfterHit, AfterMiss, TypeOK, PlaceInv, PlaceLabels
<1>8. ASSUME NEW t \in Threads, Touch(t) PROVE PlaceInv'
  BY <1>8, <1>t, <1>i, ColdPathAssumption
  DEF Touch, Go, AfterHit, TypeOK, PlaceInv, PlaceLabels
<1>9. ASSUME NEW t \in Threads, FlightLock(t) PROVE PlaceInv'
  BY <1>9, <1>t, <1>i, ColdPathAssumption
  DEF FlightLock, Go, TypeOK, PlaceInv, PlaceLabels
<1>10. ASSUME NEW t \in Threads, Register(t) PROVE PlaceInv'
  BY <1>10, <1>t, <1>i, ColdPathAssumption
  DEF Register, Go, InFlight, TypeOK, PlaceInv, PlaceLabels
<1>11. ASSUME NEW t \in Threads, Wait(t) PROVE PlaceInv'
  BY <1>11, <1>t, <1>i, ColdPathAssumption
  DEF Wait, Go, TypeOK, PlaceInv, PlaceLabels
<1>12. ASSUME NEW t \in Threads, FinishLock(t) PROVE PlaceInv'
  BY <1>12, <1>t, <1>i, ColdPathAssumption
  DEF FinishLock, Go, TypeOK, PlaceInv, PlaceLabels
<1>13. ASSUME NEW t \in Threads, Unregister(t) PROVE PlaceInv'
  BY <1>13, <1>t, <1>i, ColdPathAssumption
  DEF Unregister, Go, OwnsFlight, TypeOK, PlaceInv, PlaceLabels
<1>14. ASSUME NEW t \in Threads, Signal(t) PROVE PlaceInv'
  BY <1>14, <1>t, <1>i, ColdPathAssumption
  DEF Signal, Go, SetBy, TypeOK, PlaceInv, PlaceLabels
<1>15. ASSUME NEW t \in Threads, Acquire(t) PROVE PlaceInv'
  BY <1>15, <1>t, <1>i, ColdPathAssumption
  DEF Acquire, Go, Free, TypeOK, PlaceInv, PlaceLabels
<1>16. ASSUME NEW t \in Threads, Acquired(t) PROVE PlaceInv'
  BY <1>16, <1>t, <1>i, ColdPathAssumption
  DEF Acquired, Go, Free, Take, TypeOK, PlaceInv, PlaceLabels
<1>17. ASSUME NEW t \in Threads, EnterPlace(t) PROVE PlaceInv'
  <2>1. t \notin held
    BY <1>17, <1>i DEF EnterPlace, PlaceInv, PlaceLabels
  <2>2. IsFiniteSet(held') /\ compiles' = Cardinality(held')
    BY <1>17, <2>1, PlaceFacts DEF EnterPlace, OneMore
  <2>3. held' = {u \in Threads : pc'[u] \in PlaceLabels}
    BY <1>17, <1>t, <1>i DEF EnterPlace, Go, TypeOK, PlaceInv, PlaceLabels
  <2> QED BY <1>17, <2>2, <2>3, <1>t, <1>i, ColdPathAssumption
          DEF EnterPlace, Go, TypeOK, PlaceInv, PlaceLabels
<1>18. ASSUME NEW t \in Threads, Compile(t) PROVE PlaceInv'
  BY <1>18, <1>t, <1>i, ColdPathAssumption
  DEF Compile, Go, TypeOK, PlaceInv, PlaceLabels
<1>19. ASSUME NEW t \in Threads, InsertLock(t) PROVE PlaceInv'
  BY <1>19, <1>t, <1>i, ColdPathAssumption
  DEF InsertLock, Go, TypeOK, PlaceInv, PlaceLabels
<1>20. ASSUME NEW t \in Threads, Insert(t) PROVE PlaceInv'
  BY <1>20, <1>t, <1>i, ColdPathAssumption
  DEF Insert, Go, TypeOK, PlaceInv, PlaceLabels
<1>21. ASSUME NEW t \in Threads, LeavePlace(t) PROVE PlaceInv'
  <2>1. t \in held
    BY <1>21, <1>i DEF LeavePlace, PlaceInv, PlaceLabels
  <2>2. IsFiniteSet(held') /\ compiles' = Cardinality(held')
    BY <1>21, <2>1, PlaceFacts DEF LeavePlace
  <2>3. held' = {u \in Threads : pc'[u] \in PlaceLabels}
    BY <1>21, <1>t, <1>i DEF LeavePlace, Go, TypeOK, PlaceInv, PlaceLabels
  <2> QED BY <1>21, <2>2, <2>3, <1>t, <1>i, ColdPathAssumption
          DEF LeavePlace, Go, TypeOK, PlaceInv, PlaceLabels
<1>22. ASSUME NEW t \in Threads, Loaded(t) PROVE PlaceInv'
  BY <1>22, <1>t, <1>i, ColdPathAssumption
  DEF Loaded, Go, GiveBack, TypeOK, PlaceInv, PlaceLabels
<1>23. ASSUME NEW t \in Threads, ForkLock(t) PROVE PlaceInv'
  BY <1>23, <1>t, <1>i, ColdPathAssumption
  DEF ForkLock, Go, Free, Take, TypeOK, PlaceInv, PlaceLabels
<1>24. ASSUME NEW t \in Threads, ForkIdle(t) PROVE PlaceInv'
  <2>1. held = {}
    BY <1>24, PlaceFacts DEF ForkIdle, NoCompiles
  <2>2. /\ UNCHANGED <<held, compiles, inserts>> /\ idle = None /\ idle' = t
        /\ pc' = [pc EXCEPT ![t] = "fork"] /\ pc[t] = "forkIdle"
    BY <1>24 DEF ForkIdle, Go
  <2>3. held' = {u \in Threads : pc'[u] \in PlaceLabels}
    BY <2>2, <1>t, <1>i DEF TypeOK, PlaceInv, PlaceLabels
  <2>4. \A u \in Threads : (pc'[u] = "fork") = (idle' = u)
    BY <2>2, <1>t, <1>i, ColdPathAssumption DEF TypeOK, PlaceInv
  <2> QED BY <2>1, <2>2, <2>3, <2>4, <1>t, <1>i DEF TypeOK, PlaceInv
<1>25. ASSUME NEW t \in Threads, ForkParent(t) PROVE PlaceInv'
  BY <1>25, <1>t, <1>i, ColdPathAssumption
  DEF ForkParent, Go, GiveBack, TypeOK, PlaceInv, PlaceLabels
<1>26. ASSUME NEW t \in Threads, ForkChild(t) PROVE PlaceInv'
  BY <1>26, <1>t, <1>i, ColdPathAssumption
  DEF ForkChild, Go, GiveBack, FlightsInChild, Inherited, TypeOK, PlaceInv,
      PlaceLabels
<1>27. ASSUME Close PROVE PlaceInv'
  BY <1>27, <1>t, <1>i, ColdPathAssumption
  DEF Close, Go, TypeOK, PlaceInv, PlaceLabels
<1>28. ASSUME CloseLock PROVE PlaceInv'
  BY <1>28, <1>t, <1>i, ColdPathAssumption
  DEF CloseLock, Go, Free, Take, TypeOK, PlaceInv, PlaceLabels
<1>29. ASSUME CloseIdle PROVE PlaceInv'
  BY <1>29, <1>t, <1>i, ColdPathAssumption
  DEF CloseIdle, Go, CloseDone, NoCompiles, TypeOK, PlaceInv, PlaceLabels
<1>30. ASSUME CloseTimeout PROVE PlaceInv'
  BY <1>30, <1>t, <1>i, ColdPathAssumption
  DEF CloseTimeout, Go, CloseDone, Free, TypeOK, PlaceInv, PlaceLabels
<1>u. CASE UNCHANGED vars
  BY <1>u, <1>t, <1>i, ColdPathAssumption DEF vars, TypeOK, PlaceInv,
      PlaceLabels
<1> QED BY <1>1, <1>2, <1>3, <1>4, <1>5, <1>6, <1>7, <1>8, <1>9, <1>10, <1>11,
          <1>12, <1>13, <1>14, <1>15, <1>16, <1>17, <1>18, <1>19, <1>20,
          <1>21, <1>22, <1>23, <1>24, <1>25, <1>26, <1>27, <1>28, <1>29,
          <1>30, <1>u DEF Next, Begin, Step, ExitStep

\* Every step keeps who has a flight.
LEMMA FlyStep ==
  ASSUME IInv, [Next]_vars PROVE FlyInv'
<1> USE DEF lockVars, flightVars, cacheVars, callVars, processVars
<1>t. TypeOK
  BY DEF IInv
<1>i. FlyInv
  BY DEF IInv
<1>1. ASSUME NEW t \in Threads, NEW k \in Keys, Launch(t, k) PROVE FlyInv'
  BY <1>1, <1>t, <1>i, ColdPathAssumption
  DEF Launch, Go, TypeOK, FlyInv, Flying, Grounded, PlaceLabels
<1>2. ASSUME NEW t \in Threads, Load(t) PROVE FlyInv'
  BY <1>2, <1>t, <1>i, ColdPathAssumption
  DEF Load, Go, TypeOK, FlyInv, Flying, Grounded, PlaceLabels
<1>3. ASSUME NEW t \in Threads, Fork(t) PROVE FlyInv'
  <2>1. /\ pc[t] \in {"idle", "place", "finish"} /\ back'[t] = pc[t]
        /\ pc'[t] = "forkLock" /\ UNCHANGED <<flight, ret>>
        /\ \A u \in Threads \ {t} : pc'[u] = pc[u] /\ back'[u] = back[u]
    BY <1>3, <1>t, ColdPathAssumption DEF Fork, Go, TypeOK
  <2> QED BY <2>1, <1>i DEF FlyInv, Flying, Grounded, PlaceLabels
<1>4. ASSUME NEW t \in Threads, Spawn(t) PROVE FlyInv'
  BY <1>4, <1>t, <1>i, ColdPathAssumption
  DEF Spawn, Go, TypeOK, FlyInv, Flying, Grounded, PlaceLabels
<1>5. ASSUME NEW t \in Threads, IdentityLock(t) PROVE FlyInv'
  BY <1>5, <1>t, <1>i, ColdPathAssumption
  DEF IdentityLock, Go, TypeOK, FlyInv, Flying, Grounded, PlaceLabels
<1>6. ASSUME NEW t \in Threads, Derive(t) PROVE FlyInv'
  <2>1. CASE identity'
    BY <1>6, <2>1, <1>t, <1>i, ColdPathAssumption
    DEF Derive, Go, TypeOK, FlyInv, Flying, Grounded, PlaceLabels
  <2>2. CASE ~identity'
    BY <1>6, <2>2, <1>t, <1>i, ColdPathAssumption
    DEF Derive, Go, TypeOK, FlyInv, Flying, Grounded, PlaceLabels
  <2> QED BY <2>1, <2>2
<1>7. ASSUME NEW t \in Threads, Lookup(t) PROVE FlyInv'
  BY <1>7, <1>t, <1>i, ColdPathAssumption
  DEF Lookup, Go, AfterHit, AfterMiss, TypeOK, FlyInv, Flying, Grounded,
      PlaceLabels
<1>8. ASSUME NEW t \in Threads, Touch(t) PROVE FlyInv'
  BY <1>8, <1>t, <1>i, ColdPathAssumption
  DEF Touch, Go, AfterHit, TypeOK, FlyInv, Flying, Grounded, PlaceLabels
<1>9. ASSUME NEW t \in Threads, FlightLock(t) PROVE FlyInv'
  BY <1>9, <1>t, <1>i, ColdPathAssumption
  DEF FlightLock, Go, TypeOK, FlyInv, Flying, Grounded, PlaceLabels
<1>10. ASSUME NEW t \in Threads, Register(t) PROVE FlyInv'
  BY <1>10, <1>t, <1>i, ColdPathAssumption
  DEF Register, Go, InFlight, TypeOK, FlyInv, Flying, Grounded, PlaceLabels
<1>11. ASSUME NEW t \in Threads, Wait(t) PROVE FlyInv'
  BY <1>11, <1>t, <1>i, ColdPathAssumption
  DEF Wait, Go, TypeOK, FlyInv, Flying, Grounded, PlaceLabels
<1>12. ASSUME NEW t \in Threads, FinishLock(t) PROVE FlyInv'
  BY <1>12, <1>t, <1>i, ColdPathAssumption
  DEF FinishLock, Go, TypeOK, FlyInv, Flying, Grounded, PlaceLabels
<1>13. ASSUME NEW t \in Threads, Unregister(t) PROVE FlyInv'
  BY <1>13, <1>t, <1>i, ColdPathAssumption
  DEF Unregister, Go, OwnsFlight, TypeOK, FlyInv, Flying, Grounded, PlaceLabels
<1>14. ASSUME NEW t \in Threads, Signal(t) PROVE FlyInv'
  BY <1>14, <1>t, <1>i, ColdPathAssumption
  DEF Signal, Go, SetBy, TypeOK, FlyInv, Flying, Grounded, PlaceLabels
<1>15. ASSUME NEW t \in Threads, Acquire(t) PROVE FlyInv'
  BY <1>15, <1>t, <1>i, ColdPathAssumption
  DEF Acquire, Go, Free, TypeOK, FlyInv, Flying, Grounded, PlaceLabels
<1>16. ASSUME NEW t \in Threads, Acquired(t) PROVE FlyInv'
  BY <1>16, <1>t, <1>i, ColdPathAssumption
  DEF Acquired, Go, Free, Take, TypeOK, FlyInv, Flying, Grounded, PlaceLabels
<1>17. ASSUME NEW t \in Threads, EnterPlace(t) PROVE FlyInv'
  BY <1>17, <1>t, <1>i, ColdPathAssumption
  DEF EnterPlace, Go, OneMore, GiveBack, TypeOK, FlyInv, Flying, Grounded,
      PlaceLabels
<1>18. ASSUME NEW t \in Threads, Compile(t) PROVE FlyInv'
  BY <1>18, <1>t, <1>i, ColdPathAssumption
  DEF Compile, Go, TypeOK, FlyInv, Flying, Grounded, PlaceLabels
<1>19. ASSUME NEW t \in Threads, InsertLock(t) PROVE FlyInv'
  BY <1>19, <1>t, <1>i, ColdPathAssumption
  DEF InsertLock, Go, TypeOK, FlyInv, Flying, Grounded, PlaceLabels
<1>20. ASSUME NEW t \in Threads, Insert(t) PROVE FlyInv'
  BY <1>20, <1>t, <1>i, ColdPathAssumption
  DEF Insert, Go, TypeOK, FlyInv, Flying, Grounded, PlaceLabels
<1>21. ASSUME NEW t \in Threads, LeavePlace(t) PROVE FlyInv'
  BY <1>21, <1>t, <1>i, ColdPathAssumption
  DEF LeavePlace, Go, TypeOK, FlyInv, Flying, Grounded, PlaceLabels
<1>22. ASSUME NEW t \in Threads, Loaded(t) PROVE FlyInv'
  BY <1>22, <1>t, <1>i, ColdPathAssumption
  DEF Loaded, Go, GiveBack, TypeOK, FlyInv, Flying, Grounded, PlaceLabels
<1>23. ASSUME NEW t \in Threads, ForkLock(t) PROVE FlyInv'
  BY <1>23, <1>t, <1>i, ColdPathAssumption
  DEF ForkLock, Go, Free, Take, TypeOK, FlyInv, Flying, Grounded, PlaceLabels
<1>24. ASSUME NEW t \in Threads, ForkIdle(t) PROVE FlyInv'
  BY <1>24, <1>t, <1>i, ColdPathAssumption
  DEF ForkIdle, Go, NoCompiles, TypeOK, FlyInv, Flying, Grounded, PlaceLabels
<1>25. ASSUME NEW t \in Threads, ForkParent(t) PROVE FlyInv'
  BY <1>25, <1>t, <1>i, ColdPathAssumption
  DEF ForkParent, Go, GiveBack, TypeOK, FlyInv, Flying, Grounded, PlaceLabels
<1>26. ASSUME NEW t \in Threads, ForkChild(t) PROVE FlyInv'
  BY <1>26, <1>t, <1>i, ColdPathAssumption
  DEF ForkChild, Go, GiveBack, FlightsInChild, Inherited, TypeOK, FlyInv,
      Flying, Grounded, PlaceLabels
<1>27. ASSUME Close PROVE FlyInv'
  BY <1>27, <1>t, <1>i, ColdPathAssumption
  DEF Close, Go, TypeOK, FlyInv, Flying, Grounded, PlaceLabels
<1>28. ASSUME CloseLock PROVE FlyInv'
  BY <1>28, <1>t, <1>i, ColdPathAssumption
  DEF CloseLock, Go, Free, Take, TypeOK, FlyInv, Flying, Grounded, PlaceLabels
<1>29. ASSUME CloseIdle PROVE FlyInv'
  BY <1>29, <1>t, <1>i, ColdPathAssumption
  DEF CloseIdle, Go, CloseDone, NoCompiles, TypeOK, FlyInv, Flying, Grounded,
      PlaceLabels
<1>30. ASSUME CloseTimeout PROVE FlyInv'
  BY <1>30, <1>t, <1>i, ColdPathAssumption
  DEF CloseTimeout, Go, CloseDone, Free, TypeOK, FlyInv, Flying, Grounded,
      PlaceLabels
<1>u. CASE UNCHANGED vars
  BY <1>u, <1>t, <1>i, ColdPathAssumption DEF vars, TypeOK, FlyInv, Flying,
      Grounded, PlaceLabels
<1> QED BY <1>1, <1>2, <1>3, <1>4, <1>5, <1>6, <1>7, <1>8, <1>9, <1>10, <1>11,
          <1>12, <1>13, <1>14, <1>15, <1>16, <1>17, <1>18, <1>19, <1>20,
          <1>21, <1>22, <1>23, <1>24, <1>25, <1>26, <1>27, <1>28, <1>29,
          <1>30, <1>u DEF Next, Begin, Step, ExitStep

\* Every step keeps the owners of the flights.
LEMMA FlightStep ==
  ASSUME IInv, [Next]_vars PROVE FlightInv'
<1> USE DEF lockVars, flightVars, cacheVars, callVars, processVars
<1>t. TypeOK
  BY DEF IInv
<1>i. FlyInv /\ FlightInv
  BY DEF IInv
<1>1. ASSUME NEW t \in Threads, NEW k \in Keys, Launch(t, k) PROVE FlightInv'
  <2>1. flight[t] = None /\ pc[t] = "idle" /\ pc'[t] \in {"lookup", "identity"}
    BY <1>1, <1>t, <1>i DEF Launch, Go, TypeOK, FlyInv, Grounded
  <2>2. /\ UNCHANGED <<flight, flights, isSet, child>>
        /\ \A u \in Threads \ {t} : pc'[u] = pc[u] /\ key'[u] = key[u]
    BY <1>1, <1>t DEF Launch, Go, TypeOK
  <2>3. /\ ~Owner(t) /\ ~Owner(t)'
        /\ \A u \in Threads \ {t} : Owner(u)' = Owner(u) /\ Owns(u)' = Owns(u)
    BY <2>1, <2>2 DEF Owner, Owns
  <2> QED BY <2>1, <2>2, <2>3, <1>i DEF FlightInv, Owns
<1>2. ASSUME NEW t \in Threads, Load(t) PROVE FlightInv'
  BY <1>2, <1>t, <1>i, FlightFrame
  DEF Load, Go, TypeOK
<1>3. ASSUME NEW t \in Threads, Fork(t) PROVE FlightInv'
  <2>1. /\ UNCHANGED <<flight, flights, isSet, child, key>>
        /\ \A u \in Threads \ {t} : pc'[u] = pc[u]
        /\ {pc[t], pc'[t]} \cap {"wait", "signal"} = {}
    BY <1>3, <1>t, ColdPathAssumption DEF Fork, Go, TypeOK
  <2> QED BY <2>1, <1>i, FlightFrame
<1>4. ASSUME NEW t \in Threads, Spawn(t) PROVE FlightInv'
  BY <1>4, <1>t, <1>i, FlightFrame
  DEF Spawn, Go, TypeOK
<1>5. ASSUME NEW t \in Threads, IdentityLock(t) PROVE FlightInv'
  BY <1>5, <1>t, <1>i, FlightFrame
  DEF IdentityLock, Go, TypeOK
<1>6. ASSUME NEW t \in Threads, Derive(t) PROVE FlightInv'
  BY <1>6, <1>t, <1>i, FlightFrame
  DEF Derive, Go, TypeOK
<1>7. ASSUME NEW t \in Threads, Lookup(t) PROVE FlightInv'
  BY <1>7, <1>t, <1>i, FlightFrame
  DEF Lookup, Go, AfterHit, AfterMiss, TypeOK
<1>8. ASSUME NEW t \in Threads, Touch(t) PROVE FlightInv'
  BY <1>8, <1>t, <1>i, FlightFrame
  DEF Touch, Go, AfterHit, TypeOK
<1>9. ASSUME NEW t \in Threads, FlightLock(t) PROVE FlightInv'
  BY <1>9, <1>t, <1>i, FlightFrame
  DEF FlightLock, Go, TypeOK
<1>10. ASSUME NEW t \in Threads, Register(t) PROVE FlightInv'
  <2>1. CASE InFlight(key[t])
    <3>1. /\ UNCHANGED <<flights, isSet, child, key>>
          /\ flight' = [flight EXCEPT ![t] = flights[key[t]]]
          /\ pc' = [pc EXCEPT ![t] = "wait"]
          /\ flights[key[t]] # None
      BY <1>10, <2>1 DEF Register, Go, InFlight
    <3>2. flight[t] = None /\ pc[t] = "register"
      BY <1>10, <1>i DEF Register, FlyInv, Grounded
    <3>3. /\ ~Owner(t) /\ ~Owner(t)'
          /\ \A u \in Threads \ {t} :
               /\ pc'[u] = pc[u] /\ flight'[u] = flight[u]
               /\ Owner(u)' = Owner(u) /\ Owns(u)' = Owns(u)
      BY <3>1, <3>2, <1>t DEF TypeOK, Owner, Owns
    <3>4. PICK o \in Threads \ {t} : /\ Owns(o) /\ flight[o] = flights[key[t]]
                                     /\ key[o] = key[t]
      BY <3>1, <3>3, <1>t, <1>i DEF TypeOK, FlightInv, Owns
    <3>5. ASSUME NEW u \in Threads, pc'[u] = "wait", flight'[u] \notin isSet'
          PROVE  \E v \in Threads :
                   /\ Owner(v)' /\ flight'[v] = flight'[u]
                   /\ pc'[v] = "signal" \/ flights'[key'[v]] = flight'[v]
      <4>1. CASE u = t
        BY <4>1, <3>1, <3>3, <3>4, <1>t DEF TypeOK, Owns
      <4>2. CASE u # t
        BY <4>2, <3>1, <3>3, <3>5, <1>t, <1>i DEF TypeOK, FlightInv
      <4> QED BY <4>1, <4>2
    <3> QED BY <3>1, <3>3, <3>5, <1>i DEF FlightInv, Owns
  <2>2. CASE ~InFlight(key[t])
    <3>1. PICK f \in Flights :
            /\ \A u \in Threads : flight[u] # f
            /\ flights' = [flights EXCEPT ![key[t]] = f]
            /\ isSet' = isSet \ {f}
            /\ flight' = [flight EXCEPT ![t] = f]
            /\ pc' = [pc EXCEPT ![t] = "lookup"]
            /\ UNCHANGED <<key, child>>
      BY <1>10, <2>2 DEF Register, Go
    <3>2. /\ f # None /\ pc[t] = "register"
          /\ flights[key[t]] = None /\ flight[t] = None
      BY <1>10, <2>2, <1>t, <1>i, ColdPathAssumption DEF Register, InFlight,
          FlyInv, Grounded
    <3>3. \A u, v \in Threads :
            Owner(u)' /\ Owner(v)' /\ flight'[u] = flight'[v] => u = v
      BY <3>1, <3>2, <1>t, <1>i DEF TypeOK, FlightInv, Owner
    <3>4. \A k \in Keys : flights'[k] # None =>
            \E u \in Threads :
              Owns(u)' /\ flight'[u] = flights'[k] /\ key'[u] = k
      BY <3>1, <3>2, <1>t, <1>i DEF TypeOK, FlightInv, Owner, Owns
    <3>5. \A u \in Threads : pc'[u] = "wait" /\ flight'[u] \notin isSet' =>
            \E v \in Threads : /\ Owner(v)' /\ flight'[v] = flight'[u]
                               /\ pc'[v] = "signal" \/ flights'[key'[v]] = flight'[v]
      BY <3>1, <3>2, <1>t, <1>i DEF TypeOK, FlightInv, Owner
    <3>6. ~child' =>
            \A u \in Threads : Owns(u)' => flights'[key'[u]] = flight'[u]
      BY <3>1, <3>2, <1>t, <1>i DEF TypeOK, FlightInv, Owner, Owns
    <3> QED BY <3>3, <3>4, <3>5, <3>6 DEF FlightInv
  <2> QED BY <2>1, <2>2
<1>11. ASSUME NEW t \in Threads, Wait(t) PROVE FlightInv'
  BY <1>11, <1>t, <1>i, ColdPathAssumption
  DEF Wait, Go, TypeOK, FlightInv, FlyInv, Owner, Owns
<1>12. ASSUME NEW t \in Threads, FinishLock(t) PROVE FlightInv'
  BY <1>12, <1>t, <1>i, FlightFrame
  DEF FinishLock, Go, TypeOK
<1>13. ASSUME NEW t \in Threads, Unregister(t) PROVE FlightInv'
  <2>0. flight[t] # None /\ pc[t] = "unregister"
    BY <1>13, <1>i DEF Unregister, FlyInv, Flying
  <2>1. CASE OwnsFlight(t)
    <3>1. /\ flights' = [flights EXCEPT ![key[t]] = None]
          /\ flights[key[t]] = flight[t]
          /\ pc' = [pc EXCEPT ![t] = "signal"]
          /\ UNCHANGED <<flight, key, isSet, child>>
      BY <1>13, <2>1 DEF Unregister, Go, OwnsFlight
    <3>3. \A u, v \in Threads :
            Owner(u)' /\ Owner(v)' /\ flight'[u] = flight'[v] => u = v
      BY <3>1, <2>0, <1>t, <1>i DEF TypeOK, FlightInv, Owner
    <3>4. \A k \in Keys : flights'[k] # None =>
            \E u \in Threads :
              Owns(u)' /\ flight'[u] = flights'[k] /\ key'[u] = k
      BY <3>1, <2>0, <1>t, <1>i DEF TypeOK, FlightInv, Owner, Owns
    <3>5. ASSUME NEW u \in Threads, pc'[u] = "wait", flight'[u] \notin isSet'
          PROVE  \E v \in Threads :
                   /\ Owner(v)' /\ flight'[v] = flight'[u]
                   /\ pc'[v] = "signal" \/ flights'[key'[v]] = flight'[v]
      <4>1. PICK v \in Threads : /\ Owner(v) /\ flight[v] = flight[u]
                                 /\ pc[v] = "signal" \/ flights[key[v]] = flight[v]
        BY <3>1, <3>5, <2>0, <1>t, <1>i DEF TypeOK, FlightInv
      <4>2. CASE v = t
        BY <4>1, <4>2, <3>1, <2>0, <1>t DEF TypeOK, Owner
      <4>3. CASE v # t
        <5>1. key[v] # key[t] \/ pc[v] = "signal"
          BY <4>1, <4>3, <3>1, <2>0, <1>t, <1>i DEF TypeOK, FlightInv, Owner
        <5> QED BY <4>1, <4>3, <5>1, <3>1, <1>t DEF TypeOK, Owner
      <4> QED BY <4>2, <4>3
    <3>6. ~child' =>
            \A u \in Threads : Owns(u)' => flights'[key'[u]] = flight'[u]
      BY <3>1, <2>0, <1>t, <1>i DEF TypeOK, FlightInv, Owner, Owns
    <3> QED BY <3>3, <3>4, <3>5, <3>6 DEF FlightInv
  <2>2. CASE ~OwnsFlight(t)
    <3>1. /\ flights[key[t]] # flight[t]
          /\ flight' = [flight EXCEPT ![t] = None]
          /\ pc' = [pc EXCEPT ![t] = "idle"]
          /\ UNCHANGED <<flights, key, isSet, child>>
      BY <1>13, <2>2 DEF Unregister, Go, OwnsFlight
    <3> QED BY <3>1, <2>0, <1>t, <1>i DEF TypeOK, FlightInv, Owner, Owns
  <2> QED BY <2>1, <2>2
<1>14. ASSUME NEW t \in Threads, Signal(t) PROVE FlightInv'
  BY <1>14, <1>t, <1>i, ColdPathAssumption
  DEF Signal, Go, SetBy, TypeOK, FlightInv, FlyInv, Owner, Owns
<1>15. ASSUME NEW t \in Threads, Acquire(t) PROVE FlightInv'
  <2>1. /\ UNCHANGED <<flight, flights, isSet, child, key>>
        /\ \A u \in Threads \ {t} : pc'[u] = pc[u]
        /\ pc'[t] \in {"parked", "finish", "idle", "acquire"}
        /\ pc[t] \in {"place", "load"}
    BY <1>15, <1>t DEF Acquire, Go, TypeOK
  <2> QED BY <2>1, <1>i, FlightFrame
<1>16. ASSUME NEW t \in Threads, Acquired(t) PROVE FlightInv'
  BY <1>16, <1>t, <1>i, FlightFrame
  DEF Acquired, Go, Free, Take, TypeOK
<1>17. ASSUME NEW t \in Threads, EnterPlace(t) PROVE FlightInv'
  BY <1>17, <1>t, <1>i, FlightFrame
  DEF EnterPlace, Go, OneMore, GiveBack, TypeOK
<1>18. ASSUME NEW t \in Threads, Compile(t) PROVE FlightInv'
  BY <1>18, <1>t, <1>i, FlightFrame
  DEF Compile, Go, TypeOK
<1>19. ASSUME NEW t \in Threads, InsertLock(t) PROVE FlightInv'
  BY <1>19, <1>t, <1>i, FlightFrame
  DEF InsertLock, Go, TypeOK
<1>20. ASSUME NEW t \in Threads, Insert(t) PROVE FlightInv'
  BY <1>20, <1>t, <1>i, FlightFrame
  DEF Insert, Go, TypeOK
<1>21. ASSUME NEW t \in Threads, LeavePlace(t) PROVE FlightInv'
  BY <1>21, <1>t, <1>i, FlightFrame
  DEF LeavePlace, Go, TypeOK
<1>22. ASSUME NEW t \in Threads, Loaded(t) PROVE FlightInv'
  BY <1>22, <1>t, <1>i, FlightFrame
  DEF Loaded, Go, GiveBack, TypeOK
<1>23. ASSUME NEW t \in Threads, ForkLock(t) PROVE FlightInv'
  BY <1>23, <1>t, <1>i, FlightFrame
  DEF ForkLock, Go, Free, Take, TypeOK
<1>24. ASSUME NEW t \in Threads, ForkIdle(t) PROVE FlightInv'
  BY <1>24, <1>t, <1>i, FlightFrame
  DEF ForkIdle, Go, NoCompiles, TypeOK
<1>25. ASSUME NEW t \in Threads, ForkParent(t) PROVE FlightInv'
  <2>1. /\ UNCHANGED <<flight, flights, isSet, child, key>>
        /\ \A u \in Threads \ {t} : pc'[u] = pc[u]
        /\ {pc[t], pc'[t]} \cap {"wait", "signal"} = {}
    BY <1>25, <1>t, ColdPathAssumption DEF ForkParent, Go, TypeOK
  <2> QED BY <2>1, <1>i, FlightFrame
<1>26. ASSUME NEW t \in Threads, ForkChild(t) PROVE FlightInv'
  BY <1>26, <1>t, <1>i, ColdPathAssumption
  DEF ForkChild, Go, GiveBack, FlightsInChild, Inherited, TypeOK, FlightInv,
      FlyInv, Owner, Owns
<1>27. ASSUME Close PROVE FlightInv'
  BY <1>27, <1>t, <1>i, FlightFrame
  DEF Close, Go, TypeOK
<1>28. ASSUME CloseLock PROVE FlightInv'
  BY <1>28, <1>t, <1>i, FlightFrame
  DEF CloseLock, Go, Free, Take, TypeOK
<1>29. ASSUME CloseIdle PROVE FlightInv'
  BY <1>29, <1>t, <1>i, FlightFrame
  DEF CloseIdle, Go, CloseDone, NoCompiles, TypeOK
<1>30. ASSUME CloseTimeout PROVE FlightInv'
  BY <1>30, <1>t, <1>i, FlightFrame
  DEF CloseTimeout, Go, CloseDone, Free, TypeOK
<1>u. CASE UNCHANGED vars
  BY <1>u, <1>t, <1>i, ColdPathAssumption DEF vars, TypeOK, FlightInv, FlyInv,
      Owner, Owns
<1> QED BY <1>1, <1>2, <1>3, <1>4, <1>5, <1>6, <1>7, <1>8, <1>9, <1>10, <1>11,
          <1>12, <1>13, <1>14, <1>15, <1>16, <1>17, <1>18, <1>19, <1>20,
          <1>21, <1>22, <1>23, <1>24, <1>25, <1>26, <1>27, <1>28, <1>29,
          <1>30, <1>u DEF Next, Begin, Step, ExitStep

-----------------------------------------------------------------------------
(* The theorems. *)

\* At first no thread builds, waits or owns a flight.
LEMMA InvInit == Init => IInv
<1> SUFFICES ASSUME Init PROVE IInv
  OBVIOUS
<1>1. (CHOOSE k \in Keys : TRUE) \in Keys
  BY ColdPathAssumption
<1>2. TypeOK
  <2>0. key \in [Threads -> Keys]
    BY <1>1 DEF Init
  <2>1. {wait_ran_out, identity, exited, forked, child} \subseteq BOOLEAN
    BY ColdPathAssumption DEF Init
  <2>2. /\ pc \in [Threads -> Labels] /\ depth \in Nat /\ compiles \in Nat
        /\ calls \in 0..MaxCalls
    BY ColdPathAssumption DEF Init, Labels
  <2> QED BY <2>0, <2>1, <2>2, ColdPathAssumption DEF Init, TypeOK
<1>3. LockInv /\ ExitInv /\ KeptInv
  BY ColdPathAssumption DEF Init, LockInv, ExitInv, KeptInv, Inside
<1>4. PlaceInv
  BY ColdPathAssumption, FS_EmptySet DEF Init, PlaceInv, PlaceLabels
<1>5. FlyInv /\ FlightInv
  BY DEF Init, FlyInv, Flying, Grounded, PlaceLabels, FlightInv, Owner, Owns
<1> QED BY <1>2, <1>3, <1>4, <1>5 DEF IInv

\* The inductive invariant holds in every state of every behaviour.
LEMMA Invariance == Spec => []IInv
<1>1. IInv /\ [Next]_vars => IInv'
  BY TypeStep, LockStep, ExitStepInv, KeptStep, PlaceStep, FlyStep, FlightStep
  DEF IInv
<1> QED BY InvInit, <1>1, PTL DEF Spec

\* Every variable keeps its type, through every step of launch, load, exit and
\* fork.
THEOREM TypeCorrect == Spec => []TypeOK
<1>1. IInv => TypeOK
  BY DEF IInv
<1> QED BY <1>1, Invariance, PTL

\* _single_flight: two threads never build the artifact of one key at once.
THEOREM SingleFlight == Spec => []OneBuildPerKey
<1>1. IInv => OneBuildPerKey
  <2> SUFFICES ASSUME IInv, ~child, NEW t \in Threads, NEW u \in Threads,
                      Building(t), Building(u), key[t] = key[u]
               PROVE  t = u
    BY DEF OneBuildPerKey
  <2>1. Owns(t) /\ Owns(u)
    BY DEF Building, Owns, Owner
  <2>2. flights[key[t]] = flight[t] /\ flights[key[u]] = flight[u]
    BY <2>1 DEF IInv, FlightInv
  <2> QED BY <2>1, <2>2 DEF IInv, FlightInv, Owns
<1> QED BY <1>1, Invariance, PTL

\* The owner of a flight goes on with it, or was stopped by the exit of another
\* thread or at a cache lock that its process inherited taken.
LEMMA OwnerProgress ==
  ASSUME IInv, NEW u \in Threads, Owner(u)
  PROVE  GoesOn(u) \/ ShutOut(u) \/ Orphaned(u)
<1>1. pc[u] \in OwnerSteps \cup {"parked"}
  BY DEF IInv, TypeOK, Labels, Owner, FlyInv, Grounded, OwnerSteps
<1>2. pc[u] = "parked" => ShutOut(u)
  BY DEF IInv, ExitInv, ShutOut
<1> QED BY <1>1, <1>2 DEF GoesOn

\* _single_flight: the owner of a flight that somebody waits for goes on to set
\* its event, unless exit stopped it (acquire() waits for ever after close()) or
\* a child inherited the cache lock taken; no other owner is ever stopped.
THEOREM WaiterWoken == Spec => []WaiterHasBuilder
<1>1. IInv => WaiterHasBuilder
  <2> SUFFICES ASSUME IInv, NEW t \in Threads, pc[t] = "wait",
                      flight[t] \notin isSet
               PROVE  \E u \in Threads : /\ u # t /\ flight[u] = flight[t]
                                         /\ GoesOn(u) \/ ShutOut(u) \/ Orphaned(u)
    BY DEF WaiterHasBuilder
  <2>1. PICK u \in Threads : Owner(u) /\ flight[u] = flight[t]
    BY DEF IInv, FlightInv
  <2>2. u # t
    BY <2>1 DEF Owner
  <2>3. GoesOn(u) \/ ShutOut(u) \/ Orphaned(u)
    BY <2>1, OwnerProgress
  <2> QED BY <2>1, <2>2, <2>3
<1> QED BY <1>1, Invariance, PTL

\* _single_flight and _after_fork_in_child: the owner of a registered flight is
\* a thread of this process, also in a forked child, and goes on to remove it,
\* unless exit stopped it or the child inherited the cache lock taken.
THEOREM FlightOwned == Spec => []FlightHasOwner
<1>1. IInv => FlightHasOwner
  <2> SUFFICES ASSUME IInv, NEW k \in Keys, flights[k] # None
               PROVE  \E t \in Threads : /\ flight[t] = flights[k] /\ key[t] = k
                                         /\ GoesOn(t) \/ ShutOut(t) \/ Orphaned(t)
    BY DEF FlightHasOwner
  <2>1. PICK t \in Threads : Owner(t) /\ flight[t] = flights[k] /\ key[t] = k
    BY DEF IInv, FlightInv, Owns
  <2>2. GoesOn(t) \/ ShutOut(t) \/ Orphaned(t)
    BY <2>1, OwnerProgress
  <2> QED BY <2>1, <2>2
<1> QED BY <1>1, Invariance, PTL

\* compiling(): the count close() and before_fork() wait for is the number of
\* threads in a place, and none of those waits for the lock they hold.
THEOREM PlacesCounted == Spec => []PlacesAreCounted
<1>1. IInv => PlacesAreCounted
  BY DEF IInv, PlaceInv, PlaceLabels, LockInv, Inside, ExitInv,
      PlacesAreCounted
<1> QED BY <1>1, Invariance, PTL

\* close(): an exit that did not run out of time leaves no daemon thread inside
\* the native compiler or a load, and none will enter.
THEOREM ExitIsQuiet == Spec => []ExitFindsNoNativeWork
<1>1. IInv => ExitFindsNoNativeWork
  BY ColdPathAssumption
  DEF IInv, TypeOK, KeptInv, LockInv, Inside, PlaceInv, PlaceLabels, Native,
      ExitFindsNoNativeWork
<1> QED BY <1>1, Invariance, PTL
===============================================================================
