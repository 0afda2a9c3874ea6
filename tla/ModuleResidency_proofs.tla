------------------------ MODULE ModuleResidency_proofs ------------------------
(* Proofs of the safety of ModuleResidency for every set of threads, modules, *)
(* keys and streams, every cache limit and every choice of faults.            *)
EXTENDS ModuleResidency, FiniteSetTheorems, SequenceTheorems, TLAPS

\* The recency order after a use of k: the same keys and k, each once, k last.
LEMMA MoveToEndFacts ==
  ASSUME NEW k \in Keys, order \in Seq(Keys),
         \A i, j \in 1..Len(order) : order[i] = order[j] => i = j
  PROVE  /\ MoveToEnd(k) \in Seq(Keys)
         /\ \A i, j \in 1..Len(MoveToEnd(k)) :
              MoveToEnd(k)[i] = MoveToEnd(k)[j] => i = j
         /\ Len(MoveToEnd(k)) > 0
         /\ MoveToEnd(k)[Len(MoveToEnd(k))] = k
         /\ Len(MoveToEnd(k)) <= Len(order) + 1
         /\ (\E i \in 1..Len(order) : order[i] = k) => Len(MoveToEnd(k)) = Len(order)
         /\ \A x \in Keys : (\E i \in 1..Len(MoveToEnd(k)) : MoveToEnd(k)[i] = x)
              <=> (x = k \/ \E i \in 1..Len(order) : order[i] = x)
<1> DEFINE n == Len(order)
           p == CHOOSE i \in 1..n : order[i] = k
           s == [i \in 1..n |-> IF i < p THEN order[i]
                                ELSE IF i < n THEN order[i + 1] ELSE k]
<1>1. n \in Nat /\ \A i \in 1..n : order[i] \in Keys
  OBVIOUS
<1>2. CASE \E i \in 1..n : order[i] = k
  <2>1. MoveToEnd(k) = s
    BY <1>2 DEF MoveToEnd
  <2>2. p \in 1..n /\ order[p] = k
    BY <1>2
  <2> HIDE DEF p
  <2>3. s \in Seq(Keys) /\ Len(s) = n
    BY <1>1, <2>2
  <2>4. \A i, j \in 1..n : s[i] = s[j] => i = j
    BY <1>1, <2>2
  <2>5. s[n] = k /\ n > 0
    BY <1>1, <2>2
  <2>6. ASSUME NEW x \in Keys
        PROVE  (\E i \in 1..n : s[i] = x) <=> (x = k \/ \E i \in 1..n : order[i] = x)
    <3>1. ASSUME NEW i \in 1..n, s[i] = x
          PROVE  x = k \/ \E j \in 1..n : order[j] = x
      BY <1>1, <2>2, <3>1
    <3>2. ASSUME NEW i \in 1..n, order[i] = x, x # k
          PROVE  \E j \in 1..n : s[j] = x
      <4>1. CASE i < p
        BY <1>1, <2>2, <3>2, <4>1
      <4>2. CASE i > p
        <5>1. i - 1 \in 1..n /\ s[i - 1] = order[i]
          BY <1>1, <2>2, <4>2
        <5> QED BY <5>1, <3>2
      <4>3. i # p
        BY <2>2, <3>2
      <4> QED BY <1>1, <2>2, <4>1, <4>2, <4>3
    <3> QED BY <3>1, <3>2, <2>5
  <2> HIDE DEF s
  <2> QED BY <1>2, <2>1, <2>3, <2>4, <2>5, <2>6, <1>1
<1>3. CASE ~ \E i \in 1..n : order[i] = k
  <2>1. MoveToEnd(k) = Append(order, k)
    BY <1>3 DEF MoveToEnd
  <2> DEFINE a == Append(order, k)
  <2>2. a \in Seq(Keys) /\ Len(a) = n + 1 /\ a[n + 1] = k
    OBVIOUS
  <2>3. \A i \in 1..n : a[i] = order[i]
    OBVIOUS
  <2>4. \A i, j \in 1..n + 1 : a[i] = a[j] => i = j
    BY <1>1, <1>3, <2>2, <2>3
  <2>5. \A x \in Keys : (\E i \in 1..n + 1 : a[i] = x)
                          <=> (x = k \/ \E i \in 1..n : order[i] = x)
    BY <1>1, <2>2, <2>3
  <2> HIDE DEF a
  <2> QED BY <1>1, <1>3, <2>1, <2>2, <2>4, <2>5
<1> QED BY <1>2, <1>3

-----------------------------------------------------------------------------
(* Type correctness. *)

\* The arguments of a call that is over are well typed.
LEMMA NoOpType == NoOp \in Ops
<1>1. (CHOOSE k \in Keys : TRUE) \in Keys
  BY ResidencyAssumption
<1> QED BY <1>1 DEF NoOp, Ops, AllStreams

\* A function changed at one argument, which may lie outside its domain.
LEMMA ExceptType ==
  ASSUME NEW S, NEW T, NEW f \in [S -> T], NEW m, NEW v, m \in S => v \in T
  PROVE  [f EXCEPT ![m] = v] \in [S -> T]
OBVIOUS

\* The same for a function changed at one argument within its range.
LEMMA ExceptType2 ==
  ASSUME NEW S, NEW R, NEW T, NEW f \in [S -> [R -> T]], NEW m, NEW s, NEW v \in T
  PROVE  [f EXCEPT ![m][s] = v] \in [S -> [R -> T]]
OBVIOUS

\* What a launch leaves behind is well typed.
LEMMA SubmitType ==
  ASSUME TypeOK, NEW m, NEW s \in AllStreams, NEW b, Submit(m, s, b)
  PROVE  /\ tail' \in [AllStreams -> Nat]
         /\ ev' \in [Modules -> [AllStreams -> Nat]]
         /\ last' \in [Modules -> [AllStreams -> Nat]]
<1>1. tail[s] + 1 \in Nat
  BY DEF TypeOK
<1> QED BY <1>1, ExceptType, ExceptType2 DEF TypeOK, Submit

\* So are the tables of retired modules.
LEMMA QueueUnloadType ==
  ASSUME TypeOK, NEW ms \in SUBSET Modules, NEW resident,
         QueueUnload(ms, resident)
  PROVE  /\ unload_queued' \in [Modules -> BOOLEAN]
         /\ retired' \in [Keys -> Modules \cup {None}]
         /\ retired_extra' \in SUBSET Modules
<1> DEFINE new == {m \in ms : ~resident[m] /\ ~unloaded[m] /\ ~unload_queued[m]}
           atKey == {m \in new : KeySlotFree(m)}
<1>1. /\ unload_queued' = [m \in Modules |-> m \in new \/ unload_queued[m]]
      /\ retired' = [k \in Keys |->
           IF \E m \in atKey : key[m] = k
             THEN CHOOSE m \in atKey : key[m] = k ELSE retired[k]]
      /\ retired_extra' = retired_extra \cup (new \ atKey)
  BY DEF QueueUnload
<1>2. new \subseteq Modules /\ atKey \subseteq Modules
  OBVIOUS
<1> HIDE DEF new, atKey
<1>3. ASSUME NEW k \in Keys PROVE retired'[k] \in Modules \cup {None}
  <2>1. CASE \E m \in atKey : key[m] = k
    <3>1. (CHOOSE m \in atKey : key[m] = k) \in atKey
      BY <2>1
    <3> QED BY <1>1, <1>2, <2>1, <3>1
  <2>2. CASE ~ \E m \in atKey : key[m] = k
    BY <1>1, <2>2 DEF TypeOK
  <2> QED BY <2>1, <2>2
<1>4. retired' \in [Keys -> Modules \cup {None}]
  BY <1>1, <1>3
<1>5. unload_queued' \in [Modules -> BOOLEAN]
  BY <1>1 DEF TypeOK
<1> QED BY <1>1, <1>2, <1>4, <1>5 DEF TypeOK

\* The type invariant holds initially and every step keeps it.
LEMMA TypeOKInit == Init => TypeOK
BY NoOpType, ResidencyAssumption DEF Init, TypeOK, Labels, AllStreams

\* Where a call stands: it holds a lease from the claim to release(), and it
\* drops the released lease object on its way out.
PollLabels == {"pollEnter", "pollFence", "pollQuery", "pollUnload", "pollLeave"}
Holding(t) ==
  \/ pc[t] \in {"touch", "coldPublish", "leased", "enqueue", "release"}
  \/ pc[t] \in PollLabels \cup {"poll"} /\ ret[t] = "enqueue"
Dropping(t) == pc[t] \in {"relQueue", "prepare", "drop"}

\* The local state of a call fits its program counter; the cold path is
\* entered by the owner of its lock only.
CallInv ==
  \A t \in Threads :
    /\ Holding(t) => lease[t] \in Modules /\ ~released[t]
    /\ Dropping(t) => lease[t] \in Modules /\ released[t]
    /\ ~Holding(t) /\ ~Dropping(t) => lease[t] = None /\ released[t]
    /\ pc[t] \in {"warmLock", "coldClaim"} => got[t] \in Modules
    /\ pc[t] \in {"touch", "coldPublish"} => got[t] = lease[t]
    /\ pc[t] \in PollLabels \ {"pollEnter"} => got[t] \in cand[t]
    /\ pc[t] \notin PollLabels => cand[t] = {}
    /\ pc[t] \in {"coldFind", "coldLoad", "coldClaim", "coldPublish"}
         => compile_lock = t

\* A native launch that has passed its first checks has a loaded module, whose
\* event for the stream lasts until the module is unloaded.
FastInv ==
  \A t \in Threads : pc[t] = "fast" =>
    /\ got[t] \in Modules /\ key[got[t]] # None
    /\ op[t].stream \in events[got[t]] \/ unloaded[got[t]]

\* The arguments of a call that ends are well typed.
LEMMA ReturnType ==
  ASSUME TypeOK, NEW t \in Threads, Return(t)
  PROVE  op' \in [Threads -> Ops] /\ ret' \in [Threads -> {"warmGet", "enqueue"}]
<1>1. op' = [op EXCEPT ![t] = NoOp] /\ ret' = [ret EXCEPT ![t] = "warmGet"]
  BY DEF Return
<1>2. op \in [Threads -> Ops] /\ ret \in [Threads -> {"warmGet", "enqueue"}]
  BY DEF TypeOK
<1> QED BY <1>1, <1>2, NoOpType

\* Every step of every operation keeps the type invariant.
LEMMA TypeOKStep == TypeOK /\ CallInv /\ FastInv /\ [Next]_vars => TypeOK'
<1> SUFFICES ASSUME TypeOK, CallInv, FastInv, [Next]_vars PROVE TypeOK'
  OBVIOUS
<1> USE DEF entryVars, tableVars, threadVars, streamVars, userVars, Labels, Go, Set
<1>1. ASSUME NEW t \in Threads, CallStep(t) \/ CallerStep(t) PROVE TypeOK'
  <2>0. /\ op[t].key \in Keys /\ op[t].stream \in AllStreams
        /\ got[t] \in Modules \cup {None} /\ lease[t] \in Modules \cup {None}
        /\ Default \in AllStreams /\ NoOp \in Ops
    BY NoOpType DEF TypeOK, Ops, AllStreams
  <2>1. CASE PollSelect(t)
    BY <2>0, <2>1 DEF TypeOK, PollSelect
  <2>2. CASE PollFence(t)
    <3> DEFINE v == [s \in AllStreams |->
                       IF s \in FinalFences(got[t]) THEN tail[s] ELSE ev[got[t]][s]]
    <3>1. got[t] \in Modules => v \in [AllStreams -> Nat]
      BY DEF TypeOK
    <3>2. ev' = [ev EXCEPT ![got[t]] = v]
      BY <2>2 DEF PollFence
    <3>3. ev' \in [Modules -> [AllStreams -> Nat]]
      BY <3>1, <3>2, ExceptType DEF TypeOK
    <3>4. misused' \in SUBSET AllStreams
      BY <2>2 DEF TypeOK, PollFence, AllStreams
    <3> QED BY <2>0, <2>2, <3>3, <3>4 DEF TypeOK, PollFence
  <2>3. CASE PollQuery(t)
    BY <2>0, <2>3 DEF TypeOK, PollQuery
  <2>4. CASE PollUnload(t)
    BY <2>0, <2>4 DEF TypeOK, PollUnload
  <2>5. CASE PollError(t)
    BY <2>0, <2>5 DEF TypeOK, PollError
  <2>6. CASE PollLeave(t)
    BY <2>0, <2>6 DEF TypeOK, PollLeave
  <2>7. CASE PollInterrupt(t)
    <3>1. /\ op' \in [Threads -> Ops]
          /\ ret' \in [Threads -> {"warmGet", "enqueue"}]
      <4>1. Return(t) \/ UNCHANGED <<op, ret>>
        BY <2>7 DEF PollInterrupt
      <4> QED BY <4>1, ReturnType DEF TypeOK
    <3>0. /\ pc' \in [Threads -> Labels]
          /\ got' \in [Threads -> Modules \cup {None}]
          /\ cand' \in [Threads -> SUBSET Modules]
      BY <2>0, <2>7 DEF TypeOK, PollInterrupt
    <3>2. /\ unload_blocked' \in [Modules -> BOOLEAN]
          /\ unloading' \in [Modules -> BOOLEAN]
          /\ lock' \in [Modules -> Threads \cup {None}]
      BY <2>0, <2>7 DEF TypeOK, PollInterrupt
    <3> QED BY <2>7, <3>0, <3>1, <3>2 DEF TypeOK, PollInterrupt
  <2>8. CASE WarmGet(t)
    BY <2>0, <2>8 DEF TypeOK, WarmGet, NextAfterMiss
  <2>9. CASE WarmMiss(t)
    BY <2>0, <2>9 DEF TypeOK, WarmMiss, NextAfterMiss
  <2>10. CASE WarmHit(t)
    <3>1. got[t] \in Modules => leases[got[t]] + 1 \in Int
      BY DEF TypeOK
    <3>2. leases' = [leases EXCEPT ![got[t]] = leases[got[t]] + 1]
      BY <2>10 DEF WarmHit
    <3>3. leases' \in [Modules -> Int]
      BY <3>1, <3>2, ExceptType DEF TypeOK
    <3> QED BY <2>0, <2>10, <3>3 DEF TypeOK, WarmHit
  <2>11. CASE WarmTouch(t)
    <3>1. CASE order' = order
      BY <2>0, <2>11, <3>1 DEF TypeOK, WarmTouch, LeaveColdPath
    <3>2. CASE order' = MoveToEnd(op[t].key)
      <4>1. /\ order' \in Seq(Keys)
            /\ \A i, j \in 1..Len(order') : order'[i] = order'[j] => i = j
        <5>1. /\ order \in Seq(Keys)
              /\ \A i, j \in 1..Len(order) : order[i] = order[j] => i = j
          BY DEF TypeOK
        <5>2. /\ MoveToEnd(op[t].key) \in Seq(Keys)
              /\ \A i, j \in 1..Len(MoveToEnd(op[t].key)) :
                   MoveToEnd(op[t].key)[i] = MoveToEnd(op[t].key)[j] => i = j
          BY <2>0, <5>1, MoveToEndFacts
        <5> QED BY <3>2, <5>2
      <4> QED BY <2>0, <2>11, <4>1 DEF TypeOK, WarmTouch, LeaveColdPath
    <3> QED BY <2>11, <3>1, <3>2 DEF WarmTouch
  <2>12. CASE ColdLock(t)
    BY <2>0, <2>12 DEF TypeOK, ColdLock
  <2>13. CASE ColdFind(t)
    BY <2>0, <2>13 DEF TypeOK, ColdFind, Revivable
  <2>14. CASE ColdLoadError(t)
    BY <2>0, <2>14 DEF TypeOK, ColdLoadError, Return
  <2>15. CASE ColdClaim(t)
    <3>1. got[t] \in Modules => leases[got[t]] + 1 \in Int
      BY DEF TypeOK
    <3>2. leases' = [leases EXCEPT ![got[t]] = leases[got[t]] + 1]
      BY <2>15 DEF ColdClaim
    <3>3. leases' \in [Modules -> Int]
      BY <3>1, <3>2, ExceptType DEF TypeOK
    <3> QED BY <2>0, <2>15, <3>3 DEF TypeOK, ColdClaim
  <2>16. CASE ColdPublish(t)
    <3> DEFINE k == op[t].key
               new == [loaded EXCEPT ![k] = got[t]]
               newOrder == MoveToEnd(k)
               out == {newOrder[i] : i \in 1..Excess(Len(newOrder))}
               gone == {new[x] : x \in out} \ {None}
               resident == [m \in Modules |-> m \notin gone /\ cache_resident[m]]
    <3>1. /\ newOrder \in Seq(Keys)
          /\ \A i, j \in 1..Len(newOrder) : newOrder[i] = newOrder[j] => i = j
      BY <2>0, MoveToEndFacts DEF TypeOK
    <3>2. new \in [Keys -> Modules \cup {None}]
      BY <2>0 DEF TypeOK
    <3>3. /\ loaded' = [x \in Keys |-> IF x \in out THEN None ELSE new[x]]
          /\ order' = SubSeq(newOrder, Excess(Len(newOrder)) + 1, Len(newOrder))
          /\ cache_resident' = resident
          /\ QueueUnload(gone, resident)
      BY <2>16 DEF ColdPublish
    <3> HIDE DEF newOrder, new
    <3>4. Excess(Len(newOrder)) \in 0..Len(newOrder)
      BY <3>1, ResidencyAssumption DEF Excess
    <3>5. out \subseteq Keys
      BY <3>1, <3>4
    <3>6. gone \in SUBSET Modules
      BY <3>2, <3>5
    <3>7. loaded' \in [Keys -> Modules \cup {None}]
      BY <3>2, <3>3
    <3>8. cache_resident' \in [Modules -> BOOLEAN]
      BY <3>3 DEF TypeOK
    <3>9. /\ order' \in Seq(Keys)
          /\ \A i, j \in 1..Len(order') : order'[i] = order'[j] => i = j
      <4> DEFINE e == Excess(Len(newOrder))
      <4>1. /\ order' \in Seq(Keys) /\ Len(order') = Len(newOrder) - e
            /\ \A i \in 1..Len(newOrder) - e : order'[i] = newOrder[e + i]
        BY <3>1, <3>3, <3>4
      <4>2. ASSUME NEW i \in 1..Len(order'), NEW j \in 1..Len(order'),
                   order'[i] = order'[j]
            PROVE  i = j
        <5>1. e + i \in 1..Len(newOrder) /\ e + j \in 1..Len(newOrder)
          BY <3>1, <3>4, <4>1
        <5>2. newOrder[e + i] = newOrder[e + j]
          BY <3>1, <3>4, <4>1, <4>2
        <5> QED BY <3>1, <3>4, <5>1, <5>2
      <4> QED BY <4>1, <4>2
    <3>10. /\ unload_queued' \in [Modules -> BOOLEAN]
           /\ retired' \in [Keys -> Modules \cup {None}]
           /\ retired_extra' \in SUBSET Modules
      BY <3>3, <3>6, QueueUnloadType
    <3> QED BY <2>0, <2>16, <3>7, <3>8, <3>9, <3>10 DEF TypeOK, ColdPublish
  <2>17. CASE Enqueue(t)
    <3>0. lease[t] \in Modules
      BY <2>17 DEF CallInv, Holding, Dropping, Enqueue
    <3>1. /\ tail' \in [AllStreams -> Nat]
          /\ ev' \in [Modules -> [AllStreams -> Nat]]
          /\ last' \in [Modules -> [AllStreams -> Nat]]
      BY <2>0, <2>17, SubmitType DEF TypeOK, Enqueue
    <3>2. /\ graphs' \in SUBSET Modules /\ misused' \in SUBSET AllStreams
          /\ events' \in [Modules -> SUBSET AllStreams]
          /\ pending_streams' \in [Modules -> SUBSET AllStreams]
          /\ capture_pinned' \in [Modules -> BOOLEAN]
      BY <2>0, <3>0, <2>17 DEF TypeOK, Enqueue, FencedLater, Submit, Pins
    <3> QED BY <2>0, <2>17, <3>1, <3>2 DEF TypeOK, Enqueue
  <2>18. CASE EnqueueError(t)
    <3>0. lease[t] \in Modules
      BY <2>18 DEF CallInv, Holding, Dropping, EnqueueError
    <3>1. /\ tail' \in [AllStreams -> Nat]
          /\ ev' \in [Modules -> [AllStreams -> Nat]]
          /\ last' \in [Modules -> [AllStreams -> Nat]]
      BY <2>0, <2>18, SubmitType DEF TypeOK, EnqueueError
    <3>2. /\ graphs' \in SUBSET Modules
          /\ events' \in [Modules -> SUBSET AllStreams]
          /\ pending_streams' \in [Modules -> SUBSET AllStreams]
          /\ capture_pinned' \in [Modules -> BOOLEAN]
          /\ unload_blocked' \in [Modules -> BOOLEAN]
      BY <2>0, <3>0, <2>18 DEF TypeOK, EnqueueError, FencedLater, Pins
    <3> QED BY <2>0, <2>18, <3>1, <3>2 DEF TypeOK, EnqueueError
  <2>19. CASE Release(t)
    <3>1. lease[t] \in Modules => leases[lease[t]] - 1 \in Int
      BY DEF TypeOK
    <3>2. leases' = [leases EXCEPT ![lease[t]] = leases[lease[t]] - 1]
      BY <2>19 DEF Release
    <3>3. leases' \in [Modules -> Int]
      BY <3>1, <3>2, ExceptType DEF TypeOK
    <3> QED BY <2>0, <2>19, <3>3 DEF TypeOK, Release
  <2>20. CASE ReleaseQueue(t)
    <3>0. lease[t] \in Modules
      BY <2>20 DEF CallInv, Holding, Dropping, ReleaseQueue
    <3>1. /\ unload_queued' \in [Modules -> BOOLEAN]
          /\ retired' \in [Keys -> Modules \cup {None}]
          /\ retired_extra' \in SUBSET Modules
      BY <3>0, <2>20, QueueUnloadType DEF ReleaseQueue
    <3> QED BY <2>20, <3>1 DEF TypeOK, ReleaseQueue
  <2>21. CASE Prepare(t)
    BY <2>0, <2>21 DEF TypeOK, Prepare
  <2>22. CASE SkipPrepare(t)
    BY <2>0, <2>22 DEF TypeOK, SkipPrepare
  <2>23. CASE Drop(t)
    <3>1. /\ op' \in [Threads -> Ops]
          /\ ret' \in [Threads -> {"warmGet", "enqueue"}]
      <4>1. Return(t) \/ UNCHANGED <<op, ret>>
        BY <2>23 DEF Drop
      <4> QED BY <4>1, ReturnType DEF TypeOK
    <3>0. /\ pc' \in [Threads -> Labels]
          /\ got' \in [Threads -> Modules \cup {None}]
          /\ lease' \in [Threads -> Modules \cup {None}]
      BY <2>0, <2>23 DEF TypeOK, Drop
    <3> QED BY <2>23, <3>0, <3>1 DEF TypeOK, Drop
  <2>24. CASE StartLaunch(t)
    BY <2>0, <2>24 DEF TypeOK, StartLaunch
  <2>25. CASE StartRelease(t)
    BY <2>0, <2>25 DEF TypeOK, StartRelease
  <2>26. ASSUME NEW m \in Modules, PollEnter(t, m) PROVE TypeOK'
    BY <2>26 DEF TypeOK, PollEnter
  <2>27. ASSUME NEW m \in Modules, ColdLoad(t, m) PROVE TypeOK'
    BY <2>0, <2>27 DEF TypeOK, ColdLoad
  <2>28. ASSUME NEW k \in Keys, NEW s \in AllStreams, Begin(t, k, s) PROVE TypeOK'
    <3>1. op' \in [Threads -> Ops]
      BY <2>28 DEF TypeOK, Begin, Ops
    <3> QED BY <2>28, <3>1 DEF TypeOK, Begin
  <2>29. ASSUME NEW m \in Modules, NEW s \in AllStreams, FastCheck(t, m, s)
         PROVE  TypeOK'
    <3>1. key[m] \in Keys
      BY <2>29 DEF TypeOK, FastCheck
    <3>2. op' \in [Threads -> Ops]
      BY <2>29, <3>1 DEF TypeOK, FastCheck, Ops
    <3> QED BY <2>29, <3>2 DEF TypeOK, FastCheck
  <2>30. CASE FastLaunch(t)
    <3> DEFINE m == got[t]
               s == op[t].stream
    <3>0. m \in Modules /\ key[m] \in Keys /\ s \in AllStreams
      BY <2>0, <2>30 DEF TypeOK, FastLaunch, FastInv
    <3>1. /\ tail' \in [AllStreams -> Nat]
          /\ ev' \in [Modules -> [AllStreams -> Nat]]
          /\ last' \in [Modules -> [AllStreams -> Nat]]
      BY <2>30, <3>0, SubmitType DEF TypeOK, FastLaunch
    <3>2. /\ order' \in Seq(Keys)
          /\ \A i, j \in 1..Len(order') : order'[i] = order'[j] => i = j
      <4>1. order' = MoveToEnd(key[m])
        BY <2>30 DEF FastLaunch
      <4>2. /\ order \in Seq(Keys)
            /\ \A i, j \in 1..Len(order) : order[i] = order[j] => i = j
        BY DEF TypeOK
      <4>3. /\ MoveToEnd(key[m]) \in Seq(Keys)
            /\ \A i, j \in 1..Len(MoveToEnd(key[m])) :
                 MoveToEnd(key[m])[i] = MoveToEnd(key[m])[j] => i = j
        <5> HIDE DEF m
        <5> QED BY <3>0, <4>2, MoveToEndFacts
      <4> QED BY <4>1, <4>3
    <3>3. /\ pending_streams' \in [Modules -> SUBSET AllStreams]
          /\ unload_blocked' \in [Modules -> BOOLEAN]
      BY <2>0, <3>0, <2>30 DEF TypeOK, FastLaunch, FencedLater
    <3>4. /\ pc' \in [Threads -> Labels] /\ op' \in [Threads -> Ops]
          /\ ret' \in [Threads -> {"warmGet", "enqueue"}]
          /\ got' \in [Threads -> Modules \cup {None}]
      BY <2>0, <2>30 DEF TypeOK, FastLaunch, FastReturn, Return
    <3> QED BY <2>30, <3>1, <3>2, <3>3, <3>4 DEF TypeOK, FastLaunch
  <2>31. CASE FastRefuse(t)
    BY <2>0, <2>31 DEF TypeOK, FastRefuse, FastReturn, Return
  <2> QED BY <1>1, <2>1, <2>2, <2>3, <2>4, <2>5, <2>6, <2>7, <2>8, <2>9, <2>10,
             <2>11, <2>12, <2>13, <2>14, <2>15, <2>16, <2>17, <2>18, <2>19,
             <2>20, <2>21, <2>22, <2>23, <2>24, <2>25, <2>26, <2>27, <2>28,
             <2>29, <2>30, <2>31 DEF CallStep, CallerStep
<1>2. ASSUME Environment PROVE TypeOK'
  <2>1. ASSUME NEW s \in AllStreams, Complete(s) PROVE TypeOK'
    BY <2>1 DEF TypeOK, Complete
  <2>2. ASSUME NEW m \in Modules, NEW s \in AllStreams, Replay(m, s) PROVE TypeOK'
    BY <2>2, SubmitType DEF TypeOK, Replay
  <2>3. ASSUME NEW s \in Streams, ToggleCapture(s) PROVE TypeOK'
    BY <2>3 DEF TypeOK, ToggleCapture
  <2>4. ASSUME NEW s \in Streams, CloseStream(s) PROVE TypeOK'
    BY <2>4 DEF TypeOK, CloseStream
  <2> QED BY <1>2, <2>1, <2>2, <2>3, <2>4 DEF Environment
<1>3. CASE UNCHANGED vars
  BY <1>3 DEF TypeOK, vars
<1> QED BY <1>1, <1>2, <1>3 DEF Next

\* Every step keeps the calls in their places.
LEMMA CallInvStep == TypeOK /\ CallInv /\ [Next]_vars => CallInv'
<1> SUFFICES ASSUME TypeOK, CallInv, [Next]_vars PROVE CallInv'
  OBVIOUS
<1> USE DEF entryVars, tableVars, threadVars, streamVars, userVars, Go, Set,
        CallInv, Holding, Dropping, PollLabels, TypeOK, Labels
<1>1. ASSUME NEW t \in Threads, CallStep(t) \/ CallerStep(t) PROVE CallInv'
  <2>1. CASE PollSelect(t)
    BY <2>1, ResidencyAssumption DEF PollSelect
  <2>2. CASE PollFence(t)
    BY <2>2, ResidencyAssumption DEF PollFence
  <2>3. CASE PollQuery(t)
    BY <2>3, ResidencyAssumption DEF PollQuery
  <2>4. CASE PollUnload(t)
    BY <2>4, ResidencyAssumption DEF PollUnload
  <2>5. CASE PollError(t)
    BY <2>5, ResidencyAssumption DEF PollError
  <2>6. CASE PollLeave(t)
    BY <2>6, ResidencyAssumption DEF PollLeave
  <2>7. CASE PollInterrupt(t)
    BY <2>7, ResidencyAssumption DEF PollInterrupt, Return
  <2>8. CASE WarmGet(t)
    BY <2>8, ResidencyAssumption DEF WarmGet, NextAfterMiss, Ops
  <2>9. CASE WarmMiss(t)
    BY <2>9, ResidencyAssumption DEF WarmMiss, NextAfterMiss
  <2>10. CASE WarmHit(t)
    BY <2>10, ResidencyAssumption DEF WarmHit
  <2>11. CASE WarmTouch(t)
    BY <2>11, ResidencyAssumption DEF WarmTouch, LeaveColdPath
  <2>12. CASE ColdLock(t)
    BY <2>12, ResidencyAssumption DEF ColdLock
  <2>13. CASE ColdFind(t)
    BY <2>13, ResidencyAssumption DEF ColdFind, Ops
  <2>14. CASE ColdLoadError(t)
    BY <2>14, ResidencyAssumption DEF ColdLoadError, Return
  <2>15. CASE ColdClaim(t)
    BY <2>15, ResidencyAssumption DEF ColdClaim
  <2>16. CASE ColdPublish(t)
    BY <2>16, ResidencyAssumption DEF ColdPublish
  <2>17. CASE Enqueue(t)
    BY <2>17, ResidencyAssumption DEF Enqueue
  <2>18. CASE EnqueueError(t)
    BY <2>18, ResidencyAssumption DEF EnqueueError
  <2>19. CASE Release(t)
    BY <2>19, ResidencyAssumption DEF Release, AlreadyReleased
  <2>20. CASE ReleaseQueue(t)
    BY <2>20, ResidencyAssumption DEF ReleaseQueue
  <2>21. CASE Prepare(t)
    BY <2>21, ResidencyAssumption DEF Prepare
  <2>22. CASE SkipPrepare(t)
    BY <2>22, ResidencyAssumption DEF SkipPrepare
  <2>23. CASE Drop(t)
    BY <2>23, ResidencyAssumption DEF Drop, Return, AlreadyReleased
  <2>24. CASE StartLaunch(t)
    BY <2>24, ResidencyAssumption DEF StartLaunch
  <2>25. CASE StartRelease(t)
    BY <2>25, ResidencyAssumption DEF StartRelease
  <2>26. ASSUME NEW m \in Modules, PollEnter(t, m) PROVE CallInv'
    BY <2>26, ResidencyAssumption DEF PollEnter
  <2>27. ASSUME NEW m \in Modules, ColdLoad(t, m) PROVE CallInv'
    BY <2>27, ResidencyAssumption DEF ColdLoad
  <2>28. ASSUME NEW k \in Keys, NEW s \in AllStreams, Begin(t, k, s)
         PROVE  CallInv'
    BY <2>28, ResidencyAssumption DEF Begin
  <2>29. ASSUME NEW m \in Modules, NEW s \in AllStreams, FastCheck(t, m, s)
         PROVE  CallInv'
    BY <2>29, ResidencyAssumption DEF FastCheck
  <2>30. CASE FastLaunch(t)
    BY <2>30, ResidencyAssumption DEF FastLaunch, FastReturn, Return
  <2>31. CASE FastRefuse(t)
    BY <2>31, ResidencyAssumption DEF FastRefuse, FastReturn, Return
  <2> QED BY <1>1, <2>1, <2>2, <2>3, <2>4, <2>5, <2>6, <2>7, <2>8, <2>9, <2>10,
          <2>11, <2>12, <2>13, <2>14, <2>15, <2>16, <2>17, <2>18, <2>19, <2>20,
          <2>21, <2>22, <2>23, <2>24, <2>25, <2>26, <2>27, <2>28, <2>29, <2>30, <2>31
          DEF CallStep, CallerStep
<1>2. ASSUME Environment PROVE CallInv'
  <2>1. ASSUME NEW s \in AllStreams, Complete(s) PROVE CallInv'
    BY <2>1, ResidencyAssumption DEF Complete
  <2>2. ASSUME NEW m \in Modules, NEW s \in AllStreams, Replay(m, s)
        PROVE  CallInv'
    BY <2>2, ResidencyAssumption DEF Replay
  <2>3. ASSUME NEW s \in Streams, ToggleCapture(s) PROVE CallInv'
    BY <2>3, ResidencyAssumption DEF ToggleCapture
  <2>4. ASSUME NEW s \in Streams, CloseStream(s) PROVE CallInv'
    BY <2>4, ResidencyAssumption DEF CloseStream
  <2> QED BY <1>2, <2>1, <2>2, <2>3, <2>4 DEF Environment
<1>3. CASE UNCHANGED vars
  BY <1>3 DEF vars
<1> QED BY <1>1, <1>2, <1>3 DEF Next

-----------------------------------------------------------------------------
(* The count of leases. *)

\* The threads that hold a lease on a module are finitely many.
LEMMA ClaimsFinite ==
  ASSUME NEW m \in Modules
  PROVE  IsFiniteSet(Claims(m)) /\ Cardinality(Claims(m)) \in Nat
<1>1. Claims(m) \subseteq Threads
  BY DEF Claims
<1> QED BY <1>1, ResidencyAssumption, FS_Subset, FS_CardinalityType

\* A module with an unreleased lease has a positive count.
LEMMA LeasedIsCounted ==
  ASSUME LeasesAreCounted, NEW m \in Modules, NEW t \in Claims(m)
  PROVE  leases[m] \in Nat \ {0}
<1>1. Cardinality(Claims(m)) # 0
  BY ClaimsFinite, FS_EmptySet
<1> QED BY <1>1, ClaimsFinite DEF LeasesAreCounted

\* A thread that has no claim takes one.
LEMMA ClaimCounts ==
  ASSUME TypeOK, LeasesAreCounted, NEW t \in Threads, NEW m \in Modules,
         lease[t] = None, leases' = [leases EXCEPT ![m] = @ + 1],
         lease' = [lease EXCEPT ![t] = m],
         released' = [released EXCEPT ![t] = FALSE]
  PROVE  LeasesAreCounted'
<1> SUFFICES ASSUME NEW x \in Modules PROVE leases'[x] = Cardinality(Claims(x)')
  BY DEF LeasesAreCounted
<1>1. CASE x = m
  <2>1. Claims(x)' = Claims(x) \cup {t} /\ t \notin Claims(x)
    BY <1>1, ResidencyAssumption DEF Claims, TypeOK
  <2>2. Cardinality(Claims(x)') = Cardinality(Claims(x)) + 1
    BY <2>1, ClaimsFinite, FS_AddElement
  <2> QED BY <1>1, <2>2 DEF LeasesAreCounted, TypeOK
<1>2. CASE x # m
  <2>1. Claims(x)' = Claims(x)
    BY <1>2, ResidencyAssumption DEF Claims, TypeOK
  <2> QED BY <1>2, <2>1 DEF LeasesAreCounted, TypeOK
<1> QED BY <1>1, <1>2

\* release() gives back the claim of a thread that has one.
LEMMA ReleaseCounts ==
  ASSUME TypeOK, LeasesAreCounted, NEW t \in Threads, NEW m \in Modules,
         lease[t] = m, ~released[t], leases' = [leases EXCEPT ![m] = @ - 1],
         lease' = lease, released' = [released EXCEPT ![t] = TRUE]
  PROVE  LeasesAreCounted'
<1> SUFFICES ASSUME NEW x \in Modules PROVE leases'[x] = Cardinality(Claims(x)')
  BY DEF LeasesAreCounted
<1>1. CASE x = m
  <2>1. Claims(x)' = Claims(x) \ {t} /\ t \in Claims(x)
    BY <1>1 DEF Claims, TypeOK
  <2>2. Cardinality(Claims(x)') = Cardinality(Claims(x)) - 1
    BY <2>1, ClaimsFinite, FS_RemoveElement
  <2> QED BY <1>1, <2>2 DEF LeasesAreCounted, TypeOK
<1>2. CASE x # m
  <2>1. Claims(x)' = Claims(x)
    BY <1>2 DEF Claims, TypeOK
  <2> QED BY <1>2, <2>1 DEF LeasesAreCounted, TypeOK
<1> QED BY <1>1, <1>2

\* A step that changes neither the counts nor the leases keeps them equal.
LEMMA LeasesFrame ==
  ASSUME LeasesAreCounted, UNCHANGED <<leases, lease, released>>
  PROVE  LeasesAreCounted'
BY DEF LeasesAreCounted, Claims

\* Every step keeps entry.leases equal to the number of unreleased leases.
LEMMA LeasesStep ==
  /\ TypeOK /\ CallInv /\ LeasesAreCounted /\ [Next]_vars
  => LeasesAreCounted'
<1> SUFFICES ASSUME TypeOK, CallInv, LeasesAreCounted, [Next]_vars
           PROVE LeasesAreCounted'
  OBVIOUS
<1> USE DEF entryVars, tableVars, threadVars, streamVars, userVars
<1>1. ASSUME NEW t \in Threads, CallStep(t) \/ CallerStep(t) PROVE LeasesAreCounted'
  <2>1. CASE PollSelect(t)
    BY <2>1, LeasesFrame DEF PollSelect
  <2>2. CASE PollFence(t)
    BY <2>2, LeasesFrame DEF PollFence
  <2>3. CASE PollQuery(t)
    BY <2>3, LeasesFrame DEF PollQuery
  <2>4. CASE PollUnload(t)
    BY <2>4, LeasesFrame DEF PollUnload
  <2>5. CASE PollError(t)
    BY <2>5, LeasesFrame DEF PollError
  <2>6. CASE PollLeave(t)
    BY <2>6, LeasesFrame DEF PollLeave
  <2>7. CASE PollInterrupt(t)
    BY <2>7, LeasesFrame DEF PollInterrupt, Return
  <2>8. CASE WarmGet(t)
    BY <2>8, LeasesFrame DEF WarmGet, NextAfterMiss
  <2>9. CASE WarmMiss(t)
    BY <2>9, LeasesFrame DEF WarmMiss, NextAfterMiss
  <2>10. CASE WarmHit(t)
    <3>1. lease[t] = None /\ got[t] \in Modules
      BY <2>10 DEF CallInv, Holding, Dropping, PollLabels, WarmHit
    <3> QED BY <2>10, <3>1, ClaimCounts DEF WarmHit
  <2>11. CASE WarmTouch(t)
    BY <2>11, LeasesFrame DEF WarmTouch, LeaveColdPath
  <2>12. CASE ColdLock(t)
    BY <2>12, LeasesFrame DEF ColdLock
  <2>13. CASE ColdFind(t)
    BY <2>13, LeasesFrame DEF ColdFind
  <2>14. CASE ColdLoadError(t)
    BY <2>14, LeasesFrame DEF ColdLoadError, Return
  <2>15. CASE ColdClaim(t)
    <3>1. lease[t] = None /\ got[t] \in Modules
      BY <2>15 DEF CallInv, Holding, Dropping, PollLabels, ColdClaim
    <3> QED BY <2>15, <3>1, ClaimCounts DEF ColdClaim
  <2>16. CASE ColdPublish(t)
    BY <2>16, LeasesFrame DEF ColdPublish
  <2>17. CASE Enqueue(t)
    BY <2>17, LeasesFrame DEF Enqueue
  <2>18. CASE EnqueueError(t)
    BY <2>18, LeasesFrame DEF EnqueueError
  <2>19. CASE Release(t)
    <3>1. lease[t] \in Modules /\ ~released[t]
      BY <2>19 DEF CallInv, Holding, Release
    <3> QED BY <2>19, <3>1, ReleaseCounts DEF Release
  <2>20. CASE ReleaseQueue(t)
    BY <2>20, LeasesFrame DEF ReleaseQueue
  <2>21. CASE Prepare(t)
    BY <2>21, LeasesFrame DEF Prepare
  <2>22. CASE SkipPrepare(t)
    BY <2>22, LeasesFrame DEF SkipPrepare
  <2>23. CASE Drop(t)
    <3>1. released[t]
      BY <2>23 DEF CallInv, Dropping, Drop
    <3>2. leases' = leases /\ \A m \in Modules : Claims(m)' = Claims(m)
      BY <2>23, <3>1 DEF Drop, Claims, TypeOK
    <3> QED BY <3>2 DEF LeasesAreCounted
  <2>24. CASE StartLaunch(t)
    BY <2>24, LeasesFrame DEF StartLaunch
  <2>25. CASE StartRelease(t)
    BY <2>25, LeasesFrame DEF StartRelease
  <2>26. ASSUME NEW m \in Modules, PollEnter(t, m) PROVE LeasesAreCounted'
    BY <2>26, LeasesFrame DEF PollEnter
  <2>27. ASSUME NEW m \in Modules, ColdLoad(t, m) PROVE LeasesAreCounted'
    BY <2>27, LeasesFrame DEF ColdLoad
  <2>28. ASSUME NEW k \in Keys, NEW s \in AllStreams, Begin(t, k, s)
         PROVE  LeasesAreCounted'
    BY <2>28, LeasesFrame DEF Begin
  <2>29. ASSUME NEW m \in Modules, NEW s \in AllStreams, FastCheck(t, m, s)
         PROVE  LeasesAreCounted'
    BY <2>29, LeasesFrame DEF FastCheck
  <2>30. CASE FastLaunch(t)
    BY <2>30, LeasesFrame DEF FastLaunch
  <2>31. CASE FastRefuse(t)
    BY <2>31, LeasesFrame DEF FastRefuse
  <2> QED BY <1>1, <2>1, <2>2, <2>3, <2>4, <2>5, <2>6, <2>7, <2>8, <2>9, <2>10,
          <2>11, <2>12, <2>13, <2>14, <2>15, <2>16, <2>17, <2>18, <2>19, <2>20,
          <2>21, <2>22, <2>23, <2>24, <2>25, <2>26, <2>27, <2>28, <2>29, <2>30, <2>31
          DEF CallStep, CallerStep
<1>2. ASSUME Environment PROVE LeasesAreCounted'
  <2>1. ASSUME NEW s \in AllStreams, Complete(s) PROVE LeasesAreCounted'
    BY <2>1, LeasesFrame DEF Complete
  <2>2. ASSUME NEW m \in Modules, NEW s \in AllStreams, Replay(m, s)
        PROVE  LeasesAreCounted'
    BY <2>2, LeasesFrame DEF Replay
  <2>3. ASSUME NEW s \in Streams, ToggleCapture(s) PROVE LeasesAreCounted'
    BY <2>3, LeasesFrame DEF ToggleCapture
  <2>4. ASSUME NEW s \in Streams, CloseStream(s) PROVE LeasesAreCounted'
    BY <2>4, LeasesFrame DEF CloseStream
  <2> QED BY <1>2, <2>1, <2>2, <2>3, <2>4 DEF Environment
<1>3. CASE UNCHANGED vars
  BY <1>3, LeasesFrame DEF vars
<1> QED BY <1>1, <1>2, <1>3 DEF Next

-----------------------------------------------------------------------------
(* The reservations of the polls. *)

\* A step that touches neither the reservations nor the lists of the polls.
LEMMA ReservationFrame ==
  ASSUME ReservationHasOneOwner, UNCHANGED <<unloading, cand>>
  PROVE  ReservationHasOneOwner'
BY DEF ReservationHasOneOwner

\* Every step keeps each reservation with the one poll that made it.
LEMMA ReservationStep ==
  /\ TypeOK /\ CallInv /\ ReservationHasOneOwner /\ [Next]_vars
  => ReservationHasOneOwner'
<1> SUFFICES ASSUME TypeOK, CallInv, ReservationHasOneOwner, [Next]_vars
           PROVE ReservationHasOneOwner'
  OBVIOUS
<1> USE DEF entryVars, tableVars, threadVars, streamVars, userVars
<1>1. ASSUME NEW t \in Threads, CallStep(t) \/ CallerStep(t) PROVE ReservationHasOneOwner'
  <2>1. CASE PollSelect(t)
    <3>1. cand[t] = {}
      BY <2>1 DEF CallInv, PollLabels, PollSelect
    <3>2. \A m \in cand'[t] : m \in Modules /\ ~unloading[m]
      BY <2>1 DEF PollSelect, Candidate, TypeOK
    <3>3. /\ \A m \in Modules : unloading'[m] <=> m \in cand'[t] \/ unloading[m]
          /\ \A u \in Threads : u # t => cand'[u] = cand[u]
      BY <2>1 DEF PollSelect, TypeOK
    <3> QED BY <3>1, <3>2, <3>3 DEF ReservationHasOneOwner
  <2>2. CASE PollFence(t)
    BY <2>2, ReservationFrame DEF PollFence
  <2>3. CASE PollQuery(t)
    BY <2>3, ReservationFrame DEF PollQuery
  <2>4. CASE PollUnload(t)
    BY <2>4, ReservationFrame DEF PollUnload
  <2>5. CASE PollError(t)
    BY <2>5, ReservationFrame DEF PollError
  <2>6. CASE PollLeave(t)
    <3>1. got[t] \in cand[t]
      BY <2>6 DEF CallInv, PollLabels, PollLeave
    <3>2. /\ \A m \in Modules : unloading'[m] <=> m # got[t] /\ unloading[m]
          /\ \A u \in Threads : cand'[u] = IF u = t THEN cand[t] \ {got[t]} ELSE cand[u]
      BY <2>6 DEF PollLeave, TypeOK, Set
    <3> QED BY <3>1, <3>2 DEF ReservationHasOneOwner
  <2>7. CASE PollInterrupt(t)
    <3>1. /\ \A m \in Modules : unloading'[m] <=> m \notin cand[t] /\ unloading[m]
          /\ \A u \in Threads : cand'[u] = IF u = t THEN {} ELSE cand[u]
      BY <2>7 DEF PollInterrupt, GivenBack, TypeOK
    <3> QED BY <3>1 DEF ReservationHasOneOwner
  <2>8. CASE WarmGet(t)
    BY <2>8, ReservationFrame DEF WarmGet, NextAfterMiss
  <2>9. CASE WarmMiss(t)
    BY <2>9, ReservationFrame DEF WarmMiss, NextAfterMiss
  <2>10. CASE WarmHit(t)
    BY <2>10, ReservationFrame DEF WarmHit
  <2>11. CASE WarmTouch(t)
    BY <2>11, ReservationFrame DEF WarmTouch, LeaveColdPath
  <2>12. CASE ColdLock(t)
    BY <2>12, ReservationFrame DEF ColdLock
  <2>13. CASE ColdFind(t)
    BY <2>13, ReservationFrame DEF ColdFind
  <2>14. CASE ColdLoadError(t)
    BY <2>14, ReservationFrame DEF ColdLoadError, Return
  <2>15. CASE ColdClaim(t)
    BY <2>15, ReservationFrame DEF ColdClaim
  <2>16. CASE ColdPublish(t)
    BY <2>16, ReservationFrame DEF ColdPublish
  <2>17. CASE Enqueue(t)
    BY <2>17, ReservationFrame DEF Enqueue
  <2>18. CASE EnqueueError(t)
    BY <2>18, ReservationFrame DEF EnqueueError
  <2>19. CASE Release(t)
    BY <2>19, ReservationFrame DEF Release, AlreadyReleased
  <2>20. CASE ReleaseQueue(t)
    BY <2>20, ReservationFrame DEF ReleaseQueue
  <2>21. CASE Prepare(t)
    BY <2>21, ReservationFrame DEF Prepare
  <2>22. CASE SkipPrepare(t)
    BY <2>22, ReservationFrame DEF SkipPrepare
  <2>23. CASE Drop(t)
    BY <2>23, ReservationFrame DEF Drop, Return, AlreadyReleased
  <2>24. CASE StartLaunch(t)
    BY <2>24, ReservationFrame DEF StartLaunch
  <2>25. CASE StartRelease(t)
    BY <2>25, ReservationFrame DEF StartRelease
  <2>26. ASSUME NEW m \in Modules, PollEnter(t, m) PROVE ReservationHasOneOwner'
    BY <2>26, ReservationFrame DEF PollEnter
  <2>27. ASSUME NEW m \in Modules, ColdLoad(t, m) PROVE ReservationHasOneOwner'
    BY <2>27, ReservationFrame DEF ColdLoad
  <2>28. ASSUME NEW k \in Keys, NEW s \in AllStreams, Begin(t, k, s)
         PROVE  ReservationHasOneOwner'
    BY <2>28, ReservationFrame DEF Begin
  <2>29. ASSUME NEW m \in Modules, NEW s \in AllStreams, FastCheck(t, m, s)
         PROVE  ReservationHasOneOwner'
    BY <2>29, ReservationFrame DEF FastCheck
  <2>30. CASE FastLaunch(t)
    BY <2>30, ReservationFrame DEF FastLaunch
  <2>31. CASE FastRefuse(t)
    BY <2>31, ReservationFrame DEF FastRefuse
  <2> QED BY <1>1, <2>1, <2>2, <2>3, <2>4, <2>5, <2>6, <2>7, <2>8, <2>9, <2>10,
          <2>11, <2>12, <2>13, <2>14, <2>15, <2>16, <2>17, <2>18, <2>19, <2>20,
          <2>21, <2>22, <2>23, <2>24, <2>25, <2>26, <2>27, <2>28, <2>29, <2>30, <2>31
          DEF CallStep, CallerStep
<1>2. ASSUME Environment PROVE ReservationHasOneOwner'
  <2>1. ASSUME NEW s \in AllStreams, Complete(s) PROVE ReservationHasOneOwner'
    BY <2>1, ReservationFrame DEF Complete
  <2>2. ASSUME NEW m \in Modules, NEW s \in AllStreams, Replay(m, s)
        PROVE  ReservationHasOneOwner'
    BY <2>2, ReservationFrame DEF Replay
  <2>3. ASSUME NEW s \in Streams, ToggleCapture(s) PROVE ReservationHasOneOwner'
    BY <2>3, ReservationFrame DEF ToggleCapture
  <2>4. ASSUME NEW s \in Streams, CloseStream(s) PROVE ReservationHasOneOwner'
    BY <2>4, ReservationFrame DEF CloseStream
  <2> QED BY <1>2, <2>1, <2>2, <2>3, <2>4 DEF Environment
<1>3. CASE UNCHANGED vars
  BY <1>3, ReservationFrame DEF vars
<1> QED BY <1>1, <1>2, <1>3 DEF Next

-----------------------------------------------------------------------------
(* What a module that is being retired excludes. *)

\* A module that a poll has reserved or unloaded has left the cache and has no
\* lease and no graph, and nothing brings it back; the module that the cold
\* path found is resident.  The tables hold modules of the right key.
RetireInv ==
  /\ \A m \in Modules : unloading[m] \/ unloaded[m] =>
       ~cache_resident[m] /\ leases[m] = 0 /\ ~capture_pinned[m] /\ key[m] # None
  /\ \A t \in Threads : pc[t] \in {"coldClaim", "coldPublish"} =>
       cache_resident[got[t]] /\ key[got[t]] = op[t].key
  /\ \A k \in Keys : loaded[k] # None =>
       cache_resident[loaded[k]] /\ key[loaded[k]] = k
  /\ \A k \in Keys : retired[k] # None => key[retired[k]] = k
  /\ \A m \in graphs : capture_pinned[m]

\* _queue_unload_locked names a slot after the key of the module in it.
LEMMA QueueUnloadKeys ==
  ASSUME TypeOK, RetireInv, NEW ms \in SUBSET Modules, NEW resident,
         QueueUnload(ms, resident), key' = key
  PROVE  \A k \in Keys : retired'[k] # None => key'[retired'[k]] = k
<1> DEFINE new == {m \in ms : ~resident[m] /\ ~unloaded[m] /\ ~unload_queued[m]}
           atKey == {m \in new : KeySlotFree(m)}
<1>1. retired' = [k \in Keys |->
           IF \E m \in atKey : key[m] = k
             THEN CHOOSE m \in atKey : key[m] = k ELSE retired[k]]
  BY DEF QueueUnload
<1> HIDE DEF new, atKey
<1> SUFFICES ASSUME NEW k \in Keys, retired'[k] # None PROVE key[retired'[k]] = k
  OBVIOUS
<1>2. CASE \E m \in atKey : key[m] = k
  <2>1. key[CHOOSE m \in atKey : key[m] = k] = k
    BY <1>2
  <2> QED BY <1>1, <1>2, <2>1
<1>3. CASE ~ \E m \in atKey : key[m] = k
  BY <1>1, <1>3 DEF RetireInv
<1> QED BY <1>2, <1>3

\* Every step keeps the modules that are reserved or unloaded apart from the
\* resident, leased and pinned ones.
LEMMA RetireStep ==
  /\ TypeOK /\ CallInv /\ LeasesAreCounted /\ ReservationHasOneOwner
  /\ RetireInv /\ [Next]_vars
  => RetireInv'
<1> SUFFICES ASSUME TypeOK, CallInv, LeasesAreCounted, ReservationHasOneOwner,
           RetireInv, [Next]_vars PROVE RetireInv'
  OBVIOUS
<1> USE DEF entryVars, tableVars, threadVars, streamVars, userVars, Go, Set,
        TypeOK, RetireInv
<1>1. ASSUME NEW t \in Threads, CallStep(t) \/ CallerStep(t) PROVE RetireInv'
  <2>1. CASE PollSelect(t)
    <3>1. \A m \in Modules : unloading'[m] /\ ~unloading[m] =>
            Candidate(m, Context[op[t].key])
      BY <2>1 DEF PollSelect
    <3>2. \A u \in Threads : pc'[u] \in {"coldClaim", "coldPublish"} => pc'[u] = pc[u]
      BY <2>1 DEF PollSelect
    <3> QED BY <2>1, <3>1, <3>2 DEF PollSelect, Candidate
  <2>2. CASE PollFence(t)
    BY <2>2, ResidencyAssumption DEF PollFence
  <2>3. CASE PollQuery(t)
    BY <2>3, ResidencyAssumption DEF PollQuery
  <2>4. CASE PollUnload(t)
    <3>1. got[t] \in Modules /\ unloading[got[t]]
      BY <2>4 DEF CallInv, PollLabels, ReservationHasOneOwner, PollUnload
    <3> QED BY <2>4, <3>1, ResidencyAssumption DEF PollUnload
  <2>5. CASE PollError(t)
    BY <2>5, ResidencyAssumption DEF PollError
  <2>6. CASE PollLeave(t)
    <3>1. ret[t] \in {"warmGet", "enqueue"}
      OBVIOUS
    <3>2. \A u \in Threads : pc'[u] \in {"coldClaim", "coldPublish"} =>
            u # t /\ pc'[u] = pc[u] /\ got'[u] = got[u]
      BY <2>6, <3>1 DEF PollLeave
    <3>3. \A m \in Modules : unloading'[m] => unloading[m]
      BY <2>6 DEF PollLeave
    <3> QED BY <2>6, <3>2, <3>3 DEF PollLeave
  <2>7. CASE PollInterrupt(t)
    BY <2>7, ResidencyAssumption DEF PollInterrupt, Return
  <2>8. CASE WarmGet(t)
    BY <2>8, ResidencyAssumption DEF WarmGet, NextAfterMiss
  <2>9. CASE WarmMiss(t)
    BY <2>9, ResidencyAssumption DEF WarmMiss, NextAfterMiss
  <2>10. CASE WarmHit(t)
    BY <2>10, ResidencyAssumption DEF WarmHit, Leasable
  <2>11. CASE WarmTouch(t)
    BY <2>11, ResidencyAssumption DEF WarmTouch, LeaveColdPath
  <2>12. CASE ColdLock(t)
    BY <2>12, ResidencyAssumption DEF ColdLock
  <2>13. CASE ColdFind(t)
    <3> DEFINE k == op[t].key
    <3>1. k \in Keys
      BY DEF Ops
    <3>2. ASSUME NEW u \in Threads, u # t
          PROVE  pc'[u] \notin {"coldClaim", "coldPublish"}
      BY <2>13, <3>2 DEF CallInv, ColdFind
    <3>3. CASE loaded[k] # None
      BY <2>13, <3>1, <3>2, <3>3 DEF ColdFind
    <3>4. CASE loaded[k] = None /\ Revivable(retired[k])
      <4>1. retired[k] \in Modules /\ key[retired[k]] = k
        BY <3>1, <3>4 DEF Revivable
      <4> QED BY <2>13, <3>1, <3>2, <3>4, <4>1 DEF ColdFind, Revivable
    <3>5. CASE loaded[k] = None /\ ~Revivable(retired[k])
      BY <2>13, <3>1, <3>2, <3>5 DEF ColdFind
    <3> QED BY <3>3, <3>4, <3>5
  <2>14. CASE ColdLoadError(t)
    BY <2>14, ResidencyAssumption DEF ColdLoadError, Return
  <2>15. CASE ColdClaim(t)
    BY <2>15, ResidencyAssumption DEF ColdClaim
  <2>16. CASE ColdPublish(t)
    <3> DEFINE k == op[t].key
               new == [loaded EXCEPT ![k] = got[t]]
               newOrder == MoveToEnd(k)
               out == {newOrder[i] : i \in 1..Excess(Len(newOrder))}
               gone == {new[x] : x \in out} \ {None}
               resident == [m \in Modules |-> m \notin gone /\ cache_resident[m]]
    <3>1. k \in Keys /\ newOrder \in Seq(Keys)
      BY MoveToEndFacts DEF Ops
    <3>2. got[t] \in Modules /\ got[t] = lease[t]
      BY <2>16 DEF CallInv, Holding, ColdPublish
    <3>3. \A x \in Keys : new[x] # None =>
            new[x] \in Modules /\ cache_resident[new[x]] /\ key[new[x]] = x
      BY <2>16, <3>1, <3>2 DEF ColdPublish
    <3>4. /\ loaded' = [x \in Keys |-> IF x \in out THEN None ELSE new[x]]
          /\ cache_resident' = resident /\ key' = key
          /\ QueueUnload(gone, resident)
      BY <2>16 DEF ColdPublish
    <3> HIDE DEF newOrder, new
    <3>5. out \subseteq Keys
      <4>1. Excess(Len(newOrder)) \in 0..Len(newOrder)
        BY <3>1, ResidencyAssumption DEF Excess
      <4> QED BY <3>1, <4>1
    <3>6. gone \in SUBSET Modules
      BY <3>3, <3>5
    <3>7. \A x \in Keys : retired'[x] # None => key'[retired'[x]] = x
      BY <3>4, <3>6, QueueUnloadKeys
    <3>8. \A x \in Keys : loaded'[x] # None =>
            cache_resident'[loaded'[x]] /\ key'[loaded'[x]] = x
      <4> SUFFICES ASSUME NEW x \in Keys, loaded'[x] # None
                   PROVE  cache_resident'[loaded'[x]] /\ key'[loaded'[x]] = x
        OBVIOUS
      <4>1. x \notin out /\ loaded'[x] = new[x]
        BY <3>4
      <4>2. new[x] \notin gone
        <5> SUFFICES ASSUME new[x] \in gone PROVE FALSE
          OBVIOUS
        <5>1. PICK y \in out : new[x] = new[y]
          OBVIOUS
        <5>2. y = x
          BY <3>3, <3>5, <4>1, <5>1
        <5> QED BY <4>1, <5>2
      <4> QED BY <3>3, <3>4, <4>1, <4>2
    <3>9. \A u \in Threads : pc'[u] \notin {"coldClaim", "coldPublish"}
      BY <2>16 DEF CallInv, ColdPublish
    <3>10. \A m \in Modules : cache_resident'[m] => cache_resident[m]
      BY <3>4
    <3> HIDE DEF out, gone, resident
    <3> QED BY <2>16, <3>7, <3>8, <3>9, <3>10 DEF ColdPublish
  <2>17. CASE Enqueue(t)
    <3>1. lease[t] \in Modules /\ t \in Claims(lease[t])
      BY <2>17 DEF CallInv, Holding, Claims, Enqueue
    <3>2. leases[lease[t]] # 0
      BY <3>1, LeasedIsCounted
    <3>3. \A m \in Modules : capture_pinned'[m] <=>
            capture_pinned[m] \/ (m = lease[t] /\ op[t].capturing)
      BY <2>17, <3>1 DEF Enqueue, Pins, Ops
    <3>4. \A m \in graphs' : m \in graphs \/ (m = lease[t] /\ op[t].capturing)
      BY <2>17 DEF Enqueue
    <3>5. \A u \in Threads : pc'[u] \in {"coldClaim", "coldPublish"} => pc'[u] = pc[u]
      BY <2>17 DEF Enqueue
    <3> QED BY <2>17, <3>1, <3>2, <3>3, <3>4, <3>5 DEF Enqueue
  <2>18. CASE EnqueueError(t)
    <3>1. lease[t] \in Modules /\ t \in Claims(lease[t])
      BY <2>18 DEF CallInv, Holding, Claims, EnqueueError
    <3>2. leases[lease[t]] # 0
      BY <3>1, LeasedIsCounted
    <3>3. \A m \in Modules : capture_pinned'[m] <=>
            capture_pinned[m] \/ (m = lease[t] /\ op[t].capturing)
      BY <2>18, <3>1 DEF EnqueueError, Pins, Ops
    <3>4. \A m \in graphs' : m \in graphs \/ (m = lease[t] /\ op[t].capturing)
      <4>1. graphs' = graphs \/ (op[t].capturing /\ graphs' = graphs \cup {lease[t]})
        BY <2>18, Zenon DEF EnqueueError
      <4> QED BY <4>1
    <3>5. \A u \in Threads : pc'[u] \in {"coldClaim", "coldPublish"} => pc'[u] = pc[u]
      BY <2>18 DEF EnqueueError
    <3> QED BY <2>18, <3>1, <3>2, <3>3, <3>4, <3>5 DEF EnqueueError
  <2>19. CASE Release(t)
    <3>1. lease[t] \in Modules /\ t \in Claims(lease[t])
      BY <2>19 DEF CallInv, Holding, Claims, Release
    <3>2. leases[lease[t]] # 0
      BY <3>1, LeasedIsCounted
    <3>3. \A m \in Modules : m # lease[t] => leases'[m] = leases[m]
      BY <2>19 DEF Release
    <3>4. \A u \in Threads : pc'[u] \in {"coldClaim", "coldPublish"} => pc'[u] = pc[u]
      BY <2>19 DEF Release
    <3> QED BY <2>19, <3>1, <3>2, <3>3, <3>4 DEF Release
  <2>20. CASE ReleaseQueue(t)
    <3>1. lease[t] \in Modules
      BY <2>20 DEF CallInv, Dropping, ReleaseQueue
    <3>2. \A k \in Keys : retired'[k] # None => key'[retired'[k]] = k
      BY <2>20, <3>1, QueueUnloadKeys DEF ReleaseQueue
    <3> QED BY <2>20, <3>2 DEF ReleaseQueue
  <2>21. CASE Prepare(t)
    BY <2>21, ResidencyAssumption DEF Prepare
  <2>22. CASE SkipPrepare(t)
    BY <2>22, ResidencyAssumption DEF SkipPrepare
  <2>23. CASE Drop(t)
    <3>1. \A u \in Threads : pc'[u] \in {"coldClaim", "coldPublish"} =>
            pc'[u] = pc[u] /\ got'[u] = got[u] /\ op'[u] = op[u]
      BY <2>23 DEF Drop, Return
    <3> QED BY <2>23, <3>1 DEF Drop
  <2>24. CASE StartLaunch(t)
    BY <2>24, ResidencyAssumption DEF StartLaunch
  <2>25. CASE StartRelease(t)
    BY <2>25, ResidencyAssumption DEF StartRelease
  <2>26. ASSUME NEW m \in Modules, PollEnter(t, m) PROVE RetireInv'
    BY <2>26, ResidencyAssumption DEF PollEnter
  <2>27. ASSUME NEW m \in Modules, ColdLoad(t, m) PROVE RetireInv'
    <3>1. op[t].key \in Keys
      BY DEF Ops
    <3>2. \A u \in Threads : u # t => pc'[u] \notin {"coldClaim", "coldPublish"}
      BY <2>27 DEF CallInv, ColdLoad
    <3>3. key[m] = None /\ m # None /\ \A k \in Keys : k # None
      BY <2>27, ResidencyAssumption DEF ColdLoad
    <3>4. \A k \in Keys : loaded[k] # m /\ retired[k] # m
      BY <3>3
    <3> QED BY <2>27, <3>1, <3>2, <3>3, <3>4 DEF ColdLoad
  <2>28. ASSUME NEW k \in Keys, NEW s \in AllStreams, Begin(t, k, s)
         PROVE  RetireInv'
    BY <2>28, ResidencyAssumption DEF Begin
  <2>29. ASSUME NEW m \in Modules, NEW s \in AllStreams, FastCheck(t, m, s)
         PROVE  RetireInv'
    BY <2>29, ResidencyAssumption DEF FastCheck
  <2>30. CASE FastLaunch(t)
    BY <2>30, ResidencyAssumption DEF FastLaunch, FastReturn, Return
  <2>31. CASE FastRefuse(t)
    BY <2>31, ResidencyAssumption DEF FastRefuse, FastReturn, Return
  <2> QED BY <1>1, <2>1, <2>2, <2>3, <2>4, <2>5, <2>6, <2>7, <2>8, <2>9, <2>10,
          <2>11, <2>12, <2>13, <2>14, <2>15, <2>16, <2>17, <2>18, <2>19, <2>20,
          <2>21, <2>22, <2>23, <2>24, <2>25, <2>26, <2>27, <2>28, <2>29, <2>30, <2>31
          DEF CallStep, CallerStep
<1>2. ASSUME Environment PROVE RetireInv'
  <2>1. ASSUME NEW s \in AllStreams, Complete(s) PROVE RetireInv'
    BY <2>1, ResidencyAssumption DEF Complete
  <2>2. ASSUME NEW m \in Modules, NEW s \in AllStreams, Replay(m, s)
        PROVE  RetireInv'
    BY <2>2, ResidencyAssumption DEF Replay
  <2>3. ASSUME NEW s \in Streams, ToggleCapture(s) PROVE RetireInv'
    BY <2>3, ResidencyAssumption DEF ToggleCapture
  <2>4. ASSUME NEW s \in Streams, CloseStream(s) PROVE RetireInv'
    BY <2>4, ResidencyAssumption DEF CloseStream
  <2> QED BY <1>2, <2>1, <2>2, <2>3, <2>4 DEF Environment
<1>3. CASE UNCHANGED vars
  BY <1>3 DEF vars
<1> QED BY <1>1, <1>2, <1>3 DEF Next

-----------------------------------------------------------------------------
(* The fences behind the launches. *)

Fencing == {"pollFence", "pollQuery", "pollUnload"}

\* Every launch of a module is covered: by an event recorded after it, by a
\* stream that the poll still has to fence, or by a mark that keeps the module
\* loaded.  Every stream that holds a launch has an event.  The poll that is
\* about to unload a module has fenced it, and has seen its work done.
FenceInv ==
  /\ \A m \in Modules, s \in AllStreams :
       /\ last[m][s] <= tail[s]
       /\ \/ last[m][s] <= ev[m][s] \/ s \in pending_streams[m]
          \/ unload_blocked[m] \/ capture_pinned[m]
       /\ last[m][s] = 0 \/ s \in events[m] \/ unloaded[m] \/ capture_pinned[m]
  /\ \A m \in Modules : fixed_launcher[m] # None =>
       fixed_launcher[m] \in events[m] \/ unloaded[m]
  /\ \A t \in Threads :
       /\ pc[t] \in Fencing => ~unload_blocked[got[t]]
       /\ pc[t] \in Fencing \ {"pollFence"} => pending_streams[got[t]] = {}
       /\ pc[t] = "pollUnload" =>
            \A s \in AllStreams : last[got[t]][s] <= done[s]
  /\ UnloadedModuleIsIdle

\* The module at hand in a poll is reserved by it, and by no other poll.
LEMMA PollOwnsModule ==
  ASSUME TypeOK, CallInv, ReservationHasOneOwner, NEW t \in Threads,
         pc[t] \in PollLabels \ {"pollEnter"}
  PROVE  /\ got[t] \in Modules /\ got[t] \in cand[t] /\ unloading[got[t]]
         /\ \A u \in Threads : u # t /\ pc[u] \in PollLabels \ {"pollEnter"}
              => got[u] # got[t]
<1>1. \A u \in Threads : pc[u] \in PollLabels \ {"pollEnter"} => got[u] \in cand[u]
  BY DEF CallInv
<1>2. got[t] \in Modules
  BY <1>1 DEF TypeOK
<1> QED BY <1>1, <1>2 DEF ReservationHasOneOwner

\* A launch of a module that is neither reserved nor unloaded, which is fenced
\* or left to the poll or keeps the module loaded, keeps the fences in order.
LEMMA LaunchKeepsFences ==
  ASSUME TypeOK, CallInv, ReservationHasOneOwner, FenceInv,
         NEW m \in Modules, NEW s \in AllStreams, NEW b \in BOOLEAN,
         ~unloading[m], ~unloaded[m],
         Submit(m, s, b) \/ UNCHANGED <<tail, last, ev>>,
         \/ UNCHANGED <<tail, last, ev>>
         \/ b \/ s \in pending_streams'[m] \/ unload_blocked'[m] \/ capture_pinned'[m],
         s \in events'[m] \/ capture_pinned'[m],
         \A x \in Modules : /\ events[x] \subseteq events'[x]
                            /\ pending_streams[x] \subseteq pending_streams'[x]
                            /\ unload_blocked[x] => unload_blocked'[x]
                            /\ capture_pinned[x] => capture_pinned'[x]
                            /\ x # m => pending_streams'[x] = pending_streams[x]
                            /\ x # m => unload_blocked'[x] = unload_blocked[x],
         UNCHANGED <<unloaded, done, fixed_launcher>>,
         \A t \in Threads : pc'[t] \in Fencing => pc'[t] = pc[t] /\ got'[t] = got[t]
  PROVE  FenceInv'
<1>1. \A x \in Modules, r \in AllStreams :
        /\ last[x][r] \in Nat /\ ev[x][r] \in Nat /\ tail[r] \in Nat
        /\ last'[x][r] = last[x][r] \/ (x = m /\ r = s /\ last'[x][r] = tail[s] + 1)
        /\ last'[x][r] <= tail'[r]
        /\ x # m => last'[x][r] = last[x][r]
  BY DEF TypeOK, FenceInv, Submit
<1>2. ASSUME NEW x \in Modules, NEW r \in AllStreams
      PROVE  \/ last'[x][r] <= ev'[x][r] \/ r \in pending_streams'[x]
             \/ unload_blocked'[x] \/ capture_pinned'[x]
  <2>1. CASE x = m /\ r = s /\ Submit(m, s, b)
    BY <2>1, <1>1 DEF TypeOK, FenceInv, Submit
  <2>2. CASE ~(x = m /\ r = s) \/ UNCHANGED <<tail, last, ev>>
    <3>1. last'[x][r] = last[x][r] /\ ev'[x][r] = ev[x][r]
      BY <2>2 DEF TypeOK, Submit
    <3> QED BY <3>1 DEF FenceInv
  <2> QED BY <2>1, <2>2
<1>3. ASSUME NEW x \in Modules, NEW r \in AllStreams
      PROVE  last'[x][r] = 0 \/ r \in events'[x] \/ unloaded'[x] \/ capture_pinned'[x]
  BY <1>1 DEF FenceInv
<1>4. \A x \in Modules : fixed_launcher'[x] # None =>
        fixed_launcher'[x] \in events'[x] \/ unloaded'[x]
  BY DEF FenceInv
<1>5. ASSUME NEW t \in Threads, pc'[t] \in Fencing
      PROVE  /\ ~unload_blocked'[got'[t]]
             /\ pc'[t] \in Fencing \ {"pollFence"} => pending_streams'[got'[t]] = {}
             /\ pc'[t] = "pollUnload" =>
                  \A r \in AllStreams : last'[got'[t]][r] <= done'[r]
  <2>1. got[t] \in Modules /\ got[t] # m /\ pc[t] = pc'[t] /\ got'[t] = got[t]
    BY <1>5, PollOwnsModule DEF Fencing, PollLabels
  <2> QED BY <1>1, <1>5, <2>1 DEF FenceInv
<1>6. UnloadedModuleIsIdle'
  BY <1>1 DEF FenceInv, UnloadedModuleIsIdle
<1> QED BY <1>1, <1>2, <1>3, <1>4, <1>5, <1>6 DEF FenceInv, Fencing

\* Every step keeps every launch behind a fence or a mark.
LEMMA FenceStep ==
  /\ TypeOK /\ CallInv /\ LeasesAreCounted /\ ReservationHasOneOwner
  /\ RetireInv /\ FastInv /\ FenceInv /\ [Next]_vars
  => FenceInv'
<1> SUFFICES ASSUME TypeOK, CallInv, LeasesAreCounted, ReservationHasOneOwner,
           RetireInv, FastInv, FenceInv, [Next]_vars PROVE FenceInv'
  OBVIOUS
<1> USE DEF entryVars, tableVars, threadVars, streamVars, userVars, Go, Set,
        TypeOK, FenceInv, UnloadedModuleIsIdle, Fencing
<1>1. ASSUME NEW t \in Threads, CallStep(t) \/ CallerStep(t) PROVE FenceInv'
  <2>1. CASE PollSelect(t)
    <3>1. ret[t] \in {"warmGet", "enqueue"}
      OBVIOUS
    <3>2. \A u \in Threads : pc'[u] \in Fencing => pc'[u] = pc[u]
      BY <2>1, <3>1 DEF PollSelect
    <3> QED BY <2>1, <3>2 DEF PollSelect
  <2>2. CASE PollFence(t)
    <3> HIDE DEF TypeOK, FenceInv, UnloadedModuleIsIdle
    <3>0. \A m \in Modules, s \in AllStreams :
            last[m][s] \in Nat /\ ev[m][s] \in Nat /\ tail[s] \in Nat /\ done[s] \in Nat
      BY DEF TypeOK
    <3> DEFINE x == got[t]
    <3>1. /\ x \in Modules
          /\ \A u \in Threads : u # t /\ pc[u] \in Fencing => got[u] # x
      BY <2>2, PollOwnsModule DEF PollFence, PollLabels
    <3>2. \A m \in Modules, s \in AllStreams :
            ev'[m][s] = IF m = x /\ s \in pending_streams[m] THEN tail[s] ELSE ev[m][s]
      BY <2>2, <3>1 DEF PollFence, FinalFences, TypeOK
    <3>3. \A m \in Modules :
            pending_streams'[m] = IF m = x THEN {} ELSE pending_streams[m]
      BY <2>2, <3>1 DEF PollFence, TypeOK
    <3>4. \A u \in Threads : pc'[u] = IF u = t THEN "pollQuery" ELSE pc[u]
      BY <2>2 DEF PollFence, TypeOK
    <3>5. UNCHANGED <<last, tail, done, events, unloaded, unload_blocked,
                      capture_pinned, fixed_launcher, got>>
      BY <2>2 DEF PollFence
    <3>6. pc[t] = "pollFence"
      BY <2>2 DEF PollFence
    <3>7. \A m \in Modules, s \in AllStreams :
            /\ last'[m][s] <= tail'[s]
            /\ \/ last'[m][s] <= ev'[m][s] \/ s \in pending_streams'[m]
               \/ unload_blocked'[m] \/ capture_pinned'[m]
            /\ \/ last'[m][s] = 0 \/ s \in events'[m] \/ unloaded'[m]
               \/ capture_pinned'[m]
      BY <3>0, <3>2, <3>3, <3>5 DEF FenceInv
    <3>8. ASSUME NEW u \in Threads, pc'[u] \in Fencing
          PROVE  /\ ~unload_blocked'[got'[u]]
                 /\ pc'[u] # "pollFence" => pending_streams'[got'[u]] = {}
                 /\ pc'[u] = "pollUnload" =>
                      \A s \in AllStreams : last'[got'[u]][s] <= done'[s]
      <4>1. CASE u = t
        BY <4>1, <3>1, <3>3, <3>4, <3>5, <3>6 DEF FenceInv
      <4>2. CASE u # t
        <5>1. pc'[u] = pc[u] /\ got[u] \in Modules /\ got[u] # x
          BY <4>2, <3>1, <3>4, <3>8, PollOwnsModule DEF PollLabels
        <5> QED BY <5>1, <3>3, <3>5, <3>8 DEF FenceInv
      <4> QED BY <4>1, <4>2
    <3>9. UnloadedModuleIsIdle'
      BY <3>5 DEF FenceInv, UnloadedModuleIsIdle
    <3> QED BY <3>5, <3>7, <3>8, <3>9 DEF FenceInv
  <2>3. CASE PollQuery(t)
    <3> HIDE DEF TypeOK, FenceInv, UnloadedModuleIsIdle
    <3>0. \A m \in Modules, s \in AllStreams :
            last[m][s] \in Nat /\ ev[m][s] \in Nat /\ tail[s] \in Nat /\ done[s] \in Nat
      BY DEF TypeOK
    <3>1. got[t] \in Modules /\ unloading[got[t]] /\ pc[t] = "pollQuery"
      BY <2>3, PollOwnsModule DEF PollQuery, PollLabels
    <3>2. ~capture_pinned[got[t]]
      BY <3>1 DEF RetireInv
    <3>3. ASSUME EventsDone(got[t]), NEW s \in AllStreams
          PROVE  last[got[t]][s] <= done[s]
      <4>1. last[got[t]][s] <= ev[got[t]][s]
        BY <3>1, <3>2 DEF FenceInv
      <4>2. CASE s \in events[got[t]]
        BY <4>1, <4>2, <3>0, <3>1, <3>3 DEF EventsDone
      <4>3. CASE s \notin events[got[t]]
        BY <4>3, <3>0, <3>1, <3>2 DEF FenceInv, UnloadedModuleIsIdle
      <4> QED BY <4>2, <4>3
    <3>4. pc' = [pc EXCEPT ![t] = IF EventsDone(got[t]) THEN "pollUnload"
                                                        ELSE "pollLeave"]
      BY <2>3 DEF PollQuery
    <3>5. UNCHANGED <<last, tail, done, ev, events, unloaded, unload_blocked,
                      capture_pinned, pending_streams, fixed_launcher, got>>
      BY <2>3 DEF PollQuery
    <3>6. \A u \in Threads : u # t => pc'[u] = pc[u]
      BY <3>4 DEF TypeOK
    <3>7. pc'[t] = "pollLeave" \/ (pc'[t] = "pollUnload" /\ EventsDone(got[t]))
      BY <3>4 DEF TypeOK
    <3>8. ASSUME NEW u \in Threads, pc'[u] \in Fencing
          PROVE  /\ ~unload_blocked'[got'[u]]
                 /\ pc'[u] # "pollFence" => pending_streams'[got'[u]] = {}
                 /\ pc'[u] = "pollUnload" =>
                      \A s \in AllStreams : last'[got'[u]][s] <= done'[s]
      <4>1. CASE u = t
        BY <4>1, <3>1, <3>3, <3>5, <3>7, <3>8 DEF FenceInv
      <4>2. CASE u # t
        BY <4>2, <3>5, <3>6, <3>8 DEF FenceInv
      <4> QED BY <4>1, <4>2
    <3> QED BY <3>5, <3>8 DEF FenceInv, UnloadedModuleIsIdle
  <2>4. CASE PollUnload(t)
    BY <2>4, ResidencyAssumption DEF PollUnload
  <2>5. CASE PollError(t)
    <3> HIDE DEF TypeOK, FenceInv, UnloadedModuleIsIdle
    <3>1. /\ got[t] \in Modules
          /\ \A u \in Threads : u # t /\ pc[u] \in Fencing => got[u] # got[t]
      BY <2>5, PollOwnsModule DEF PollError, PollLabels
    <3>2. \A u \in Threads : pc'[u] \in Fencing =>
            u # t /\ pc'[u] = pc[u] /\ got'[u] = got[u]
      BY <2>5 DEF PollError, TypeOK
    <3>3. \A m \in Modules : /\ unload_blocked[m] => unload_blocked'[m]
                             /\ m # got[t] => unload_blocked'[m] = unload_blocked[m]
      BY <2>5 DEF PollError, TypeOK
    <3>4. UNCHANGED <<last, tail, done, ev, events, unloaded, capture_pinned,
                      pending_streams, fixed_launcher>>
      BY <2>5 DEF PollError
    <3>5. ASSUME NEW u \in Threads, pc'[u] \in Fencing
          PROVE  /\ ~unload_blocked'[got'[u]]
                 /\ pc'[u] # "pollFence" => pending_streams'[got'[u]] = {}
                 /\ pc'[u] = "pollUnload" =>
                      \A s \in AllStreams : last'[got'[u]][s] <= done'[s]
      <4>1. pc'[u] = pc[u] /\ got'[u] = got[u] /\ got[u] \in Modules /\ got[u] # got[t]
        BY <3>1, <3>2, <3>5, PollOwnsModule DEF PollLabels
      <4> QED BY <4>1, <3>3, <3>4, <3>5 DEF FenceInv
    <3> QED BY <3>3, <3>4, <3>5 DEF FenceInv, UnloadedModuleIsIdle
  <2>6. CASE PollLeave(t)
    BY <2>6, ResidencyAssumption DEF PollLeave
  <2>7. CASE PollInterrupt(t)
    <3> HIDE DEF TypeOK, FenceInv, UnloadedModuleIsIdle
    <3>1. /\ got[t] \in Modules
          /\ \A u \in Threads : u # t /\ pc[u] \in Fencing => got[u] # got[t]
      BY <2>7, PollOwnsModule DEF PollInterrupt, PollLabels
    <3>2. \A u \in Threads : pc'[u] \in Fencing =>
            u # t /\ pc'[u] = pc[u] /\ got'[u] = got[u]
      BY <2>7 DEF PollInterrupt, Return, TypeOK
    <3>3. \A m \in Modules : /\ unload_blocked[m] => unload_blocked'[m]
                             /\ m # got[t] => unload_blocked'[m] = unload_blocked[m]
      BY <2>7 DEF PollInterrupt, TypeOK
    <3>4. UNCHANGED <<last, tail, done, ev, events, unloaded, capture_pinned,
                      pending_streams, fixed_launcher>>
      BY <2>7 DEF PollInterrupt
    <3>5. ASSUME NEW u \in Threads, pc'[u] \in Fencing
          PROVE  /\ ~unload_blocked'[got'[u]]
                 /\ pc'[u] # "pollFence" => pending_streams'[got'[u]] = {}
                 /\ pc'[u] = "pollUnload" =>
                      \A s \in AllStreams : last'[got'[u]][s] <= done'[s]
      <4>1. pc'[u] = pc[u] /\ got'[u] = got[u] /\ got[u] \in Modules /\ got[u] # got[t]
        BY <3>1, <3>2, <3>5, PollOwnsModule DEF PollLabels
      <4> QED BY <4>1, <3>3, <3>4, <3>5 DEF FenceInv
    <3> QED BY <3>3, <3>4, <3>5 DEF FenceInv, UnloadedModuleIsIdle
  <2>8. CASE WarmGet(t)
    BY <2>8, ResidencyAssumption DEF WarmGet, NextAfterMiss
  <2>9. CASE WarmMiss(t)
    BY <2>9, ResidencyAssumption DEF WarmMiss, NextAfterMiss
  <2>10. CASE WarmHit(t)
    BY <2>10, ResidencyAssumption DEF WarmHit
  <2>11. CASE WarmTouch(t)
    BY <2>11, ResidencyAssumption DEF WarmTouch, LeaveColdPath
  <2>12. CASE ColdLock(t)
    BY <2>12, ResidencyAssumption DEF ColdLock
  <2>13. CASE ColdFind(t)
    BY <2>13, ResidencyAssumption DEF ColdFind
  <2>14. CASE ColdLoadError(t)
    BY <2>14, ResidencyAssumption DEF ColdLoadError, Return
  <2>15. CASE ColdClaim(t)
    BY <2>15, ResidencyAssumption DEF ColdClaim
  <2>16. CASE ColdPublish(t)
    BY <2>16, ResidencyAssumption DEF ColdPublish
  <2>17. CASE Enqueue(t)
    <3> HIDE DEF TypeOK, FenceInv, UnloadedModuleIsIdle
    <3> DEFINE m == lease[t]
               s == op[t].stream
    <3>1. m \in Modules /\ s \in AllStreams /\ t \in Claims(m)
      BY <2>17 DEF CallInv, Holding, Claims, Ops, Enqueue, TypeOK
    <3>2. ~unloading[m] /\ ~unloaded[m]
      BY <3>1, LeasedIsCounted DEF RetireInv
    <3>3. /\ events' = [events EXCEPT ![m] = @ \cup {s}]
          /\ pending_streams' = [pending_streams EXCEPT ![m] = @ \cup FencedLater(s)]
          /\ unload_blocked' = unload_blocked
          /\ capture_pinned' = [capture_pinned EXCEPT ![m] = @ \/ Pins(t)]
          /\ UNCHANGED <<unloaded, done, fixed_launcher, got>>
      BY <2>17 DEF Enqueue
    <3>4. \A u \in Threads : pc'[u] \in Fencing => pc'[u] = pc[u]
      BY <2>17 DEF Enqueue, TypeOK
    <3>5. Submit(m, s, s # Default) \/ UNCHANGED <<tail, last, ev>>
      BY <2>17 DEF Enqueue, FencedAtLaunch
    <3> HIDE DEF m, s
    <3>6. /\ s \in events'[m]
          /\ s = Default => s \in pending_streams'[m]
          /\ \A x \in Modules : /\ events[x] \subseteq events'[x]
                                /\ pending_streams[x] \subseteq pending_streams'[x]
                                /\ unload_blocked[x] => unload_blocked'[x]
                                /\ capture_pinned[x] => capture_pinned'[x]
                                /\ x # m => pending_streams'[x] = pending_streams[x]
                                /\ x # m => unload_blocked'[x] = unload_blocked[x]
      BY <3>1, <3>3 DEF TypeOK, FencedLater
    <3> QED
      <4>1. CASE s = Default
        BY <4>1, <3>1, <3>2, <3>3, <3>4, <3>5, <3>6, LaunchKeepsFences
      <4>2. CASE s # Default
        BY <4>2, <3>1, <3>2, <3>3, <3>4, <3>5, <3>6, LaunchKeepsFences
      <4> QED BY <4>1, <4>2
  <2>18. CASE EnqueueError(t)
    <3> HIDE DEF TypeOK, FenceInv, UnloadedModuleIsIdle
    <3> DEFINE m == lease[t]
               s == op[t].stream
    <3>1. m \in Modules /\ s \in AllStreams /\ t \in Claims(m)
      BY <2>18 DEF CallInv, Holding, Claims, Ops, EnqueueError, TypeOK
    <3>2. ~unloading[m] /\ ~unloaded[m]
      BY <3>1, LeasedIsCounted DEF RetireInv
    <3>3. /\ events' = [events EXCEPT ![m] = @ \cup {s}]
          /\ pending_streams' = [pending_streams EXCEPT ![m] = @ \cup FencedLater(s)]
          /\ unload_blocked' = IF s # Default THEN Set(unload_blocked, m, TRUE)
                                           ELSE unload_blocked
          /\ capture_pinned' = [capture_pinned EXCEPT ![m] = @ \/ Pins(t)]
          /\ UNCHANGED <<unloaded, done, fixed_launcher, got>>
      BY <2>18 DEF EnqueueError
    <3>4. \A u \in Threads : pc'[u] \in Fencing => pc'[u] = pc[u]
      BY <2>18 DEF EnqueueError, TypeOK
    <3>5. Submit(m, s, FALSE) \/ UNCHANGED <<tail, last, ev>>
      BY <2>18, Zenon DEF EnqueueError
    <3> HIDE DEF m, s
    <3>6. /\ s \in events'[m]
          /\ s = Default => s \in pending_streams'[m]
          /\ \A x \in Modules : /\ events[x] \subseteq events'[x]
                                /\ pending_streams[x] \subseteq pending_streams'[x]
                                /\ unload_blocked[x] => unload_blocked'[x]
                                /\ capture_pinned[x] => capture_pinned'[x]
                                /\ x # m => pending_streams'[x] = pending_streams[x]
                                /\ x # m => unload_blocked'[x] = unload_blocked[x]
      BY <3>1, <3>3 DEF TypeOK, FencedLater
    <3>7. s # Default => unload_blocked'[m]
      BY <3>1, <3>3 DEF TypeOK
    <3> QED BY <3>1, <3>2, <3>3, <3>4, <3>5, <3>6, <3>7, LaunchKeepsFences
  <2>19. CASE Release(t)
    BY <2>19, ResidencyAssumption DEF Release, AlreadyReleased
  <2>20. CASE ReleaseQueue(t)
    BY <2>20, ResidencyAssumption DEF ReleaseQueue
  <2>21. CASE Prepare(t)
    BY <2>21, ResidencyAssumption DEF Prepare
  <2>22. CASE SkipPrepare(t)
    BY <2>22, ResidencyAssumption DEF SkipPrepare
  <2>23. CASE Drop(t)
    <3>1. \A u \in Threads : pc'[u] \in Fencing => pc'[u] = pc[u] /\ got'[u] = got[u]
      BY <2>23 DEF Drop, Return
    <3> QED BY <2>23, <3>1 DEF Drop
  <2>24. CASE StartLaunch(t)
    BY <2>24, ResidencyAssumption DEF StartLaunch
  <2>25. CASE StartRelease(t)
    BY <2>25, ResidencyAssumption DEF StartRelease
  <2>26. ASSUME NEW m \in Modules, PollEnter(t, m) PROVE FenceInv'
    <3>1. \A u \in Threads : pc'[u] \in Fencing =>
            \/ u # t /\ pc'[u] = pc[u] /\ got'[u] = got[u]
            \/ pc'[u] = "pollFence" /\ got'[u] = m /\ Eligible(m)
      BY <2>26 DEF PollEnter
    <3>2. UNCHANGED <<last, tail, done, ev, events, unloaded, unload_blocked,
                      capture_pinned, pending_streams, fixed_launcher>>
      BY <2>26 DEF PollEnter
    <3> QED BY <3>1, <3>2 DEF Eligible
  <2>27. ASSUME NEW m \in Modules, ColdLoad(t, m) PROVE FenceInv'
    BY <2>27, ResidencyAssumption DEF ColdLoad
  <2>28. ASSUME NEW k \in Keys, NEW s \in AllStreams, Begin(t, k, s)
         PROVE  FenceInv'
    BY <2>28, ResidencyAssumption DEF Begin
  <2>29. ASSUME NEW m \in Modules, NEW s \in AllStreams, FastCheck(t, m, s)
         PROVE  FenceInv'
    <3>1. \A u \in Threads : pc'[u] \in Fencing => pc'[u] = pc[u] /\ got'[u] = got[u]
      BY <2>29 DEF FastCheck
    <3> QED BY <2>29, <3>1 DEF FastCheck
  <2>30. CASE FastLaunch(t)
    <3> HIDE DEF TypeOK, FenceInv, UnloadedModuleIsIdle
    <3> DEFINE m == got[t]
               s == op[t].stream
    <3>0. m \in Modules /\ s \in AllStreams
      BY <2>30 DEF FastLaunch, FastInv, TypeOK, Ops
    <3>1. ~unloading[m] /\ ~unloaded[m] /\ s \in events[m]
      BY <2>30, <3>0 DEF FastLaunch, FastReady, Leasable, FastInv
    <3>2. /\ pending_streams' = [pending_streams EXCEPT ![m] = @ \cup FencedLater(s)]
          /\ UNCHANGED <<unloaded, done, fixed_launcher, events, capture_pinned>>
      BY <2>30 DEF FastLaunch
    <3>3. \/ Submit(m, s, s # Default) /\ unload_blocked' = unload_blocked
          \/ /\ unload_blocked' = IF s # Default THEN Set(unload_blocked, m, TRUE)
                                                 ELSE unload_blocked
             /\ Submit(m, s, FALSE) \/ UNCHANGED <<tail, last, ev>>
      BY <2>30 DEF FastLaunch, FencedAtLaunch
    <3>7. \A u \in Threads : pc'[u] \in Fencing => pc'[u] = pc[u] /\ got'[u] = got[u]
      BY <2>30 DEF FastLaunch, FastReturn, TypeOK
    <3> HIDE DEF m, s
    <3>4. /\ s = Default => s \in pending_streams'[m]
          /\ \A x \in Modules : /\ pending_streams[x] \subseteq pending_streams'[x]
                                /\ unload_blocked[x] => unload_blocked'[x]
                                /\ x # m => pending_streams'[x] = pending_streams[x]
                                /\ x # m => unload_blocked'[x] = unload_blocked[x]
      BY <3>0, <3>2, <3>3 DEF TypeOK, FencedLater
    <3>5. CASE Submit(m, s, TRUE) /\ s # Default
      BY <3>0, <3>1, <3>2, <3>4, <3>5, <3>7, LaunchKeepsFences
    <3>6. CASE Submit(m, s, FALSE) \/ UNCHANGED <<tail, last, ev>>
      <4>1. CASE s = Default
        BY <4>1, <3>0, <3>1, <3>2, <3>4, <3>6, <3>7, LaunchKeepsFences
      <4>2. CASE unload_blocked'[m]
        BY <4>2, <3>0, <3>1, <3>2, <3>4, <3>6, <3>7, LaunchKeepsFences
      <4>3. CASE Submit(m, s, s # Default) /\ s # Default
        BY <4>3, <3>5
      <4> QED BY <3>0, <3>3, <4>1, <4>2, <4>3 DEF TypeOK
    <3> QED
      <4>1. CASE s = Default
        BY <4>1, <3>3, <3>6
      <4>2. CASE s # Default
        BY <4>2, <3>3, <3>5, <3>6
      <4> QED BY <4>1, <4>2
  <2>31. CASE FastRefuse(t)
    <3>1. \A u \in Threads : pc'[u] \in Fencing => pc'[u] = pc[u] /\ got'[u] = got[u]
      BY <2>31 DEF FastRefuse, FastReturn
    <3> QED BY <2>31, <3>1 DEF FastRefuse
  <2> QED BY <1>1, <2>1, <2>2, <2>3, <2>4, <2>5, <2>6, <2>7, <2>8, <2>9, <2>10,
          <2>11, <2>12, <2>13, <2>14, <2>15, <2>16, <2>17, <2>18, <2>19, <2>20,
          <2>21, <2>22, <2>23, <2>24, <2>25, <2>26, <2>27, <2>28, <2>29, <2>30, <2>31
          DEF CallStep, CallerStep
<1>2. ASSUME Environment PROVE FenceInv'
  <2>1. ASSUME NEW s \in AllStreams, Complete(s) PROVE FenceInv'
    <3>1. \A r \in AllStreams : done[r] \in Nat /\ done'[r] \in Nat /\ done'[r] >= done[r]
      BY <2>1 DEF Complete
    <3>2. UNCHANGED <<last, tail, ev, events, unloaded, unload_blocked, pc,
                      capture_pinned, pending_streams, fixed_launcher, got>>
      BY <2>1 DEF Complete
    <3>3. ASSUME NEW m \in Modules, NEW r \in AllStreams, last[m][r] <= done[r]
          PROVE  last'[m][r] <= done'[r]
      BY <3>1, <3>2, <3>3
    <3>4. \A u \in Threads : pc[u] = "pollUnload" => got[u] \in Modules
      BY PollOwnsModule DEF PollLabels
    <3> QED BY <3>2, <3>3, <3>4
  <2>2. ASSUME NEW m \in Modules, NEW s \in AllStreams, Replay(m, s)
        PROVE  FenceInv'
    <3>1. capture_pinned[m] /\ ~unloading[m] /\ ~unloaded[m]
      BY <2>2 DEF Replay, RetireInv
    <3>2. UNCHANGED <<unloaded, done, fixed_launcher, got, events, pc,
                      capture_pinned, pending_streams, unload_blocked>>
      BY <2>2 DEF Replay
    <3>3. Submit(m, s, FALSE)
      BY <2>2 DEF Replay
    <3> QED BY <3>1, <3>2, <3>3, LaunchKeepsFences
  <2>3. ASSUME NEW s \in Streams, ToggleCapture(s) PROVE FenceInv'
    BY <2>3, ResidencyAssumption DEF ToggleCapture
  <2>4. ASSUME NEW s \in Streams, CloseStream(s) PROVE FenceInv'
    BY <2>4, ResidencyAssumption DEF CloseStream
  <2> QED BY <1>2, <2>1, <2>2, <2>3, <2>4 DEF Environment
<1>3. CASE UNCHANGED vars
  BY <1>3 DEF vars
<1> QED BY <1>1, <1>2, <1>3 DEF Next

-----------------------------------------------------------------------------
(* The native launches on their way. *)

\* A step that leaves the other threads alone, forgets no module and destroys
\* the events of a module only when it unloads it.
LEMMA FastFrame ==
  ASSUME FastInv, NEW t \in Threads, pc'[t] # "fast",
         \A u \in Threads \ {t} : pc'[u] = pc[u] /\ got'[u] = got[u] /\ op'[u] = op[u],
         \A m \in Modules : /\ key[m] # None => key'[m] # None
                            /\ events[m] \subseteq events'[m] \/ unloaded'[m]
                            /\ unloaded[m] => unloaded'[m]
  PROVE  FastInv'
BY DEF FastInv

\* Every step keeps what a native launch has found.
LEMMA FastStep == TypeOK /\ CallInv /\ FenceInv /\ FastInv /\ [Next]_vars => FastInv'
<1> SUFFICES ASSUME TypeOK, CallInv, FenceInv, FastInv, [Next]_vars PROVE FastInv'
  OBVIOUS
<1> USE DEF entryVars, tableVars, threadVars, streamVars, userVars, Go, Set, TypeOK
<1>1. ASSUME NEW t \in Threads, CallStep(t) \/ CallerStep(t) PROVE FastInv'
  <2>1. CASE PollSelect(t)
    <3>1. ret[t] \in {"warmGet", "enqueue"}
      OBVIOUS
    <3> QED BY <2>1, <3>1, FastFrame DEF PollSelect
  <2>2. CASE PollFence(t)
    BY <2>2, FastFrame DEF PollFence
  <2>3. CASE PollQuery(t)
    BY <2>3, FastFrame DEF PollQuery
  <2>4. CASE PollUnload(t)
    BY <2>4, FastFrame DEF PollUnload
  <2>5. CASE PollError(t)
    BY <2>5, FastFrame DEF PollError
  <2>6. CASE PollLeave(t)
    <3>1. ret[t] \in {"warmGet", "enqueue"}
      OBVIOUS
    <3> QED BY <2>6, <3>1, FastFrame DEF PollLeave
  <2>7. CASE PollInterrupt(t)
    <3>1. ret[t] \in {"warmGet", "enqueue"}
      OBVIOUS
    <3> QED BY <2>7, <3>1, FastFrame DEF PollInterrupt, Return
  <2>8. CASE WarmGet(t)
    BY <2>8, FastFrame DEF WarmGet, NextAfterMiss
  <2>9. CASE WarmMiss(t)
    BY <2>9, FastFrame DEF WarmMiss, NextAfterMiss
  <2>10. CASE WarmHit(t)
    BY <2>10, FastFrame DEF WarmHit
  <2>11. CASE WarmTouch(t)
    BY <2>11, FastFrame DEF WarmTouch
  <2>12. CASE ColdLock(t)
    BY <2>12, FastFrame DEF ColdLock
  <2>13. CASE ColdFind(t)
    BY <2>13, FastFrame DEF ColdFind
  <2>14. CASE ColdLoadError(t)
    BY <2>14, FastFrame DEF ColdLoadError, Return
  <2>15. CASE ColdClaim(t)
    BY <2>15, FastFrame DEF ColdClaim
  <2>16. CASE ColdPublish(t)
    BY <2>16, FastFrame DEF ColdPublish
  <2>17. CASE Enqueue(t)
    BY <2>17, FastFrame DEF Enqueue
  <2>18. CASE EnqueueError(t)
    BY <2>18, FastFrame DEF EnqueueError
  <2>19. CASE Release(t)
    BY <2>19, FastFrame DEF Release
  <2>20. CASE ReleaseQueue(t)
    BY <2>20, FastFrame DEF ReleaseQueue
  <2>21. CASE Prepare(t)
    BY <2>21, FastFrame DEF Prepare
  <2>22. CASE SkipPrepare(t)
    BY <2>22, FastFrame DEF SkipPrepare
  <2>23. CASE Drop(t)
    BY <2>23, FastFrame DEF Drop, Return
  <2>24. CASE StartLaunch(t)
    BY <2>24, FastFrame DEF StartLaunch
  <2>25. CASE StartRelease(t)
    BY <2>25, FastFrame DEF StartRelease
  <2>26. ASSUME NEW m \in Modules, PollEnter(t, m) PROVE FastInv'
    BY <2>26, FastFrame DEF PollEnter
  <2>27. ASSUME NEW m \in Modules, ColdLoad(t, m) PROVE FastInv'
    <3>1. op[t].key # None
      BY ResidencyAssumption DEF Ops
    <3> QED BY <2>27, <3>1, FastFrame DEF ColdLoad
  <2>28. ASSUME NEW k \in Keys, NEW s \in AllStreams, Begin(t, k, s) PROVE FastInv'
    BY <2>28, FastFrame DEF Begin
  <2>29. ASSUME NEW m \in Modules, NEW s \in AllStreams, FastCheck(t, m, s)
         PROVE  FastInv'
    <3>1. s \in events[m] \/ unloaded[m]
      BY <2>29, ResidencyAssumption DEF FastCheck, FenceInv
    <3>2. op'[t].stream = s /\ got'[t] = m
      BY <2>29 DEF FastCheck
    <3>3. /\ UNCHANGED <<key, events, unloaded>> /\ key[m] # None
          /\ \A u \in Threads \ {t} :
               pc'[u] = pc[u] /\ got'[u] = got[u] /\ op'[u] = op[u]
      BY <2>29 DEF FastCheck
    <3> QED BY <3>1, <3>2, <3>3 DEF FastInv
  <2>30. CASE FastLaunch(t)
    BY <2>30, FastFrame DEF FastLaunch, FastReturn, Return
  <2>31. CASE FastRefuse(t)
    BY <2>31, FastFrame DEF FastRefuse, FastReturn, Return
  <2> QED BY <1>1, <2>1, <2>2, <2>3, <2>4, <2>5, <2>6, <2>7, <2>8, <2>9, <2>10,
          <2>11, <2>12, <2>13, <2>14, <2>15, <2>16, <2>17, <2>18, <2>19, <2>20,
          <2>21, <2>22, <2>23, <2>24, <2>25, <2>26, <2>27, <2>28, <2>29, <2>30,
          <2>31 DEF CallStep, CallerStep
<1>2. ASSUME Environment PROVE FastInv'
  <2>1. ASSUME NEW s \in AllStreams, Complete(s) PROVE FastInv'
    BY <2>1 DEF Complete, FastInv
  <2>2. ASSUME NEW m \in Modules, NEW s \in AllStreams, Replay(m, s) PROVE FastInv'
    BY <2>2 DEF Replay, FastInv
  <2>3. ASSUME NEW s \in Streams, ToggleCapture(s) PROVE FastInv'
    BY <2>3 DEF ToggleCapture, FastInv
  <2>4. ASSUME NEW s \in Streams, CloseStream(s) PROVE FastInv'
    BY <2>4 DEF CloseStream, FastInv
  <2> QED BY <1>2, <2>1, <2>2, <2>3, <2>4 DEF Environment
<1>3. CASE UNCHANGED vars
  BY <1>3 DEF vars, FastInv
<1> QED BY <1>1, <1>2, <1>3 DEF Next

-----------------------------------------------------------------------------
(* The bound of the LRU. *)

\* A use of a resident key changes neither the keys of the order nor their
\* number.
LEMMA UseKeepsBound ==
  ASSUME TypeOK, ResidencyBound, NEW k \in Keys, loaded[k] # None,
         order' = MoveToEnd(k), loaded' = loaded
  PROVE  ResidencyBound'
<1>1. \E i \in 1..Len(order) : order[i] = k
  BY DEF ResidencyBound
<1>2. /\ Len(order') = Len(order)
      /\ \A x \in Keys : (\E i \in 1..Len(order') : order'[i] = x)
           <=> (x = k \/ \E i \in 1..Len(order) : order[i] = x)
  <2>1. /\ order \in Seq(Keys)
        /\ \A i, j \in 1..Len(order) : order[i] = order[j] => i = j
    BY DEF TypeOK
  <2>2. /\ Len(MoveToEnd(k)) = Len(order)
        /\ \A x \in Keys : (\E i \in 1..Len(MoveToEnd(k)) : MoveToEnd(k)[i] = x)
             <=> (x = k \/ \E i \in 1..Len(order) : order[i] = x)
    BY <1>1, <2>1, MoveToEndFacts
  <2> QED BY <2>2
<1> QED BY <1>1, <1>2 DEF ResidencyBound

\* A step that changes neither the order nor the map keeps the bound.
LEMMA BoundFrame ==
  ASSUME ResidencyBound, order' = order, loaded' = loaded
  PROVE  ResidencyBound'
BY DEF ResidencyBound

\* Every step keeps the LRU within its limit and its map in step with its order.
LEMMA BoundStep ==
  TypeOK /\ CallInv /\ FastInv /\ ResidencyBound /\ [Next]_vars => ResidencyBound'
<1> SUFFICES ASSUME TypeOK, CallInv, FastInv, ResidencyBound, [Next]_vars
           PROVE ResidencyBound'
  OBVIOUS
<1> USE DEF entryVars, tableVars, threadVars, streamVars, userVars
<1>1. ASSUME NEW t \in Threads, CallStep(t) \/ CallerStep(t) PROVE ResidencyBound'
  <2>1. CASE PollSelect(t)
    BY <2>1, BoundFrame DEF PollSelect
  <2>2. CASE PollFence(t)
    BY <2>2, BoundFrame DEF PollFence
  <2>3. CASE PollQuery(t)
    BY <2>3, BoundFrame DEF PollQuery
  <2>4. CASE PollUnload(t)
    BY <2>4, BoundFrame DEF PollUnload
  <2>5. CASE PollError(t)
    BY <2>5, BoundFrame DEF PollError
  <2>6. CASE PollLeave(t)
    BY <2>6, BoundFrame DEF PollLeave
  <2>7. CASE PollInterrupt(t)
    BY <2>7, BoundFrame DEF PollInterrupt, Return
  <2>8. CASE WarmGet(t)
    BY <2>8, BoundFrame DEF WarmGet, NextAfterMiss
  <2>9. CASE WarmMiss(t)
    BY <2>9, BoundFrame DEF WarmMiss, NextAfterMiss
  <2>10. CASE WarmHit(t)
    BY <2>10, BoundFrame DEF WarmHit
  <2>11. CASE WarmTouch(t)
    <3>1. op[t].key \in Keys /\ got[t] # None
      BY <2>11, ResidencyAssumption DEF WarmTouch, CallInv, Holding, TypeOK, Ops
    <3>2. loaded' = loaded
      BY <2>11 DEF WarmTouch
    <3>3. CASE loaded[op[t].key] = got[t] /\ order' = MoveToEnd(op[t].key)
      BY <3>1, <3>2, <3>3, UseKeepsBound
    <3>4. CASE order' = order
      BY <3>2, <3>4, BoundFrame
    <3> QED BY <2>11, <3>3, <3>4 DEF WarmTouch
  <2>12. CASE ColdLock(t)
    BY <2>12, BoundFrame DEF ColdLock
  <2>13. CASE ColdFind(t)
    BY <2>13, BoundFrame DEF ColdFind
  <2>14. CASE ColdLoadError(t)
    BY <2>14, BoundFrame DEF ColdLoadError, Return
  <2>15. CASE ColdClaim(t)
    BY <2>15, BoundFrame DEF ColdClaim
  <2>16. CASE ColdPublish(t)
    <3> DEFINE k == op[t].key
               new == [loaded EXCEPT ![k] = got[t]]
               newOrder == MoveToEnd(k)
               n == Len(newOrder)
               e == Excess(n)
               out == {newOrder[i] : i \in 1..e}
    <3>1. k \in Keys /\ got[t] # None
      BY <2>16, ResidencyAssumption DEF ColdPublish, CallInv, Holding, TypeOK, Ops
    <3>2. /\ newOrder \in Seq(Keys)
          /\ \A i, j \in 1..n : newOrder[i] = newOrder[j] => i = j
          /\ \A x \in Keys : (\E i \in 1..n : newOrder[i] = x)
               <=> (x = k \/ \E i \in 1..Len(order) : order[i] = x)
      BY <3>1, MoveToEndFacts DEF TypeOK
    <3>3. /\ loaded' = [x \in Keys |-> IF x \in out THEN None ELSE new[x]]
          /\ order' = SubSeq(newOrder, e + 1, n)
      BY <2>16 DEF ColdPublish
    <3>4. \A x \in Keys : new[x] # None <=> \E i \in 1..n : newOrder[i] = x
      BY <3>1, <3>2 DEF ResidencyBound, TypeOK
    <3> HIDE DEF newOrder, new, k
    <3>5. n \in Nat /\ e \in 0..n /\ n - e <= Limit
      BY <3>2, ResidencyAssumption DEF Excess
    <3> HIDE DEF e
    <3>6. /\ Len(order') = n - e
          /\ \A i \in 1..n - e : order'[i] = newOrder[e + i]
      BY <3>2, <3>3, <3>5
    <3> HIDE DEF n
    <3>7. ASSUME NEW x \in Keys
          PROVE  loaded'[x] # None <=> \E i \in 1..Len(order') : order'[i] = x
      <4>1. ASSUME loaded'[x] # None
            PROVE  \E i \in 1..Len(order') : order'[i] = x
        <5>1. x \notin out /\ new[x] # None
          BY <3>3, <4>1
        <5>2. PICK i \in 1..n : newOrder[i] = x
          BY <3>4, <5>1
        <5>3. i \notin 1..e
          BY <5>1, <5>2
        <5>4. i - e \in 1..n - e /\ order'[i - e] = x
          BY <3>5, <3>6, <5>2, <5>3
        <5> QED BY <3>6, <5>4
      <4>2. ASSUME NEW i \in 1..Len(order'), order'[i] = x
            PROVE  loaded'[x] # None
        <5>1. e + i \in 1..n /\ newOrder[e + i] = x /\ e + i \notin 1..e
          BY <3>5, <3>6, <4>2
        <5>2. x \notin out
          BY <3>2, <3>5, <5>1 DEF n
        <5> QED BY <3>3, <3>4, <5>1, <5>2
      <4> QED BY <4>1, <4>2
    <3> QED BY <3>5, <3>6, <3>7 DEF ResidencyBound
  <2>17. CASE Enqueue(t)
    BY <2>17, BoundFrame DEF Enqueue
  <2>18. CASE EnqueueError(t)
    BY <2>18, BoundFrame DEF EnqueueError
  <2>19. CASE Release(t)
    BY <2>19, BoundFrame DEF Release, AlreadyReleased
  <2>20. CASE ReleaseQueue(t)
    BY <2>20, BoundFrame DEF ReleaseQueue
  <2>21. CASE Prepare(t)
    BY <2>21, BoundFrame DEF Prepare
  <2>22. CASE SkipPrepare(t)
    BY <2>22, BoundFrame DEF SkipPrepare
  <2>23. CASE Drop(t)
    BY <2>23, BoundFrame DEF Drop, Return, AlreadyReleased
  <2>24. CASE StartLaunch(t)
    BY <2>24, BoundFrame DEF StartLaunch
  <2>25. CASE StartRelease(t)
    BY <2>25, BoundFrame DEF StartRelease
  <2>26. ASSUME NEW m \in Modules, PollEnter(t, m) PROVE ResidencyBound'
    BY <2>26, BoundFrame DEF PollEnter
  <2>27. ASSUME NEW m \in Modules, ColdLoad(t, m) PROVE ResidencyBound'
    BY <2>27, BoundFrame DEF ColdLoad
  <2>28. ASSUME NEW k \in Keys, NEW s \in AllStreams, Begin(t, k, s)
         PROVE  ResidencyBound'
    BY <2>28, BoundFrame DEF Begin
  <2>29. ASSUME NEW m \in Modules, NEW s \in AllStreams, FastCheck(t, m, s)
         PROVE  ResidencyBound'
    BY <2>29, BoundFrame DEF FastCheck
  <2>30. CASE FastLaunch(t)
    <3> DEFINE m == got[t]
    <3>1. m \in Modules /\ key[m] \in Keys
      BY <2>30 DEF FastLaunch, FastInv, TypeOK
    <3>2. /\ loaded[key[m]] # None
          /\ order' = MoveToEnd(key[m]) /\ loaded' = loaded
      BY <2>30, <3>1, ResidencyAssumption DEF FastLaunch, FastReady
    <3> HIDE DEF m
    <3> QED BY <3>1, <3>2, UseKeepsBound
  <2>31. CASE FastRefuse(t)
    BY <2>31, BoundFrame DEF FastRefuse
  <2> QED BY <1>1, <2>1, <2>2, <2>3, <2>4, <2>5, <2>6, <2>7, <2>8, <2>9, <2>10,
          <2>11, <2>12, <2>13, <2>14, <2>15, <2>16, <2>17, <2>18, <2>19, <2>20,
          <2>21, <2>22, <2>23, <2>24, <2>25, <2>26, <2>27, <2>28, <2>29, <2>30, <2>31
          DEF CallStep, CallerStep
<1>2. ASSUME Environment PROVE ResidencyBound'
  <2>1. ASSUME NEW s \in AllStreams, Complete(s) PROVE ResidencyBound'
    BY <2>1, BoundFrame DEF Complete
  <2>2. ASSUME NEW m \in Modules, NEW s \in AllStreams, Replay(m, s)
        PROVE  ResidencyBound'
    BY <2>2, BoundFrame DEF Replay
  <2>3. ASSUME NEW s \in Streams, ToggleCapture(s) PROVE ResidencyBound'
    BY <2>3, BoundFrame DEF ToggleCapture
  <2>4. ASSUME NEW s \in Streams, CloseStream(s) PROVE ResidencyBound'
    BY <2>4, BoundFrame DEF CloseStream
  <2> QED BY <1>2, <2>1, <2>2, <2>3, <2>4 DEF Environment
<1>3. CASE UNCHANGED vars
  BY <1>3, BoundFrame DEF vars
<1> QED BY <1>1, <1>2, <1>3 DEF Next

-----------------------------------------------------------------------------
(* No loaded module is forgotten. *)

InColdPath(m) == \E t \in Threads : pc[t] \in {"coldClaim", "coldPublish"} /\ got[t] = m
InTables(m) == m \in retired_extra \/ \E k \in Keys : retired[k] = m

\* A module is in the cache, in the tables of the retired ones, of which it then
\* has one slot, or in the hands of the cold path; unload_queued says which.  What
\* the cold path publishes pushes no other module of its key out of the cache.
KeepInv ==
  /\ \A m \in Modules :
       /\ unload_queued[m] <=> InTables(m)
       /\ unload_queued[m] => ~cache_resident[m] /\ ~unloaded[m] /\ key[m] # None
       /\ key[m] # None => cache_resident[m] \/ unloaded[m] \/ unload_queued[m]
       /\ cache_resident[m] =>
            key[m] # None /\ (loaded[key[m]] = m \/ InColdPath(m))
  /\ \A k \in Keys : retired[k] \notin retired_extra
  /\ \A t \in Threads :
       /\ pc[t] = "coldLoad" => loaded[op[t].key] = None
       /\ pc[t] \in {"coldClaim", "coldPublish"} =>
            loaded[op[t].key] \in {None, got[t]}
       /\ lease[t] # None => key[lease[t]] # None

\* A step outside the cold path that leaves the cache and the tables alone.
LEMMA KeepFrame ==
  ASSUME KeepInv, NEW t \in Threads,
         UNCHANGED <<key, cache_resident, unload_queued, unloaded, loaded, retired,
                     retired_extra>>,
         pc[t] \notin {"coldLoad", "coldClaim", "coldPublish"},
         pc'[t] \notin {"coldLoad", "coldClaim", "coldPublish"},
         \A u \in Threads \ {t} : pc'[u] = pc[u] /\ got'[u] = got[u] /\ op'[u] = op[u],
         \A u \in Threads :
           lease'[u] # None => lease'[u] = lease[u] \/ key[lease'[u]] # None
  PROVE  KeepInv'
<1>1. \A m \in Modules : InColdPath(m)' <=> InColdPath(m)
  BY DEF InColdPath
<1>2. \A m \in Modules : InTables(m)' <=> InTables(m)
  BY DEF InTables
<1> QED BY <1>1, <1>2 DEF KeepInv

\* A step that moves no module forgets none.
LEMMA KeepUnchanged ==
  ASSUME KeepInv, UNCHANGED <<key, cache_resident, unload_queued, unloaded, loaded,
                              retired, retired_extra, pc, got, op, lease>>
  PROVE  KeepInv'
BY DEF KeepInv, InColdPath, InTables

\* _queue_unload_locked gives a slot to each module that has lost its place.
LEMMA QueueUnloadKeeps ==
  ASSUME TypeOK, RetireInv, KeepInv, NEW ms \in SUBSET Modules, NEW resident,
         QueueUnload(ms, resident),
         \A m \in ms : key[m] # None,
         \A m, n \in ms : key[m] = key[n] => m = n
  PROVE  /\ \A m \in Modules : unload_queued'[m] <=> InTables(m)'
         /\ \A m \in Modules : unload_queued'[m] <=>
              unload_queued[m] \/ (m \in ms /\ ~resident[m] /\ ~unloaded[m])
         /\ \A k \in Keys : retired'[k] \notin retired_extra'
<1> DEFINE new == {m \in ms : ~resident[m] /\ ~unloaded[m] /\ ~unload_queued[m]}
           atKey == {m \in new : KeySlotFree(m)}
<1>1. /\ unload_queued' = [m \in Modules |-> m \in new \/ unload_queued[m]]
      /\ retired' = [k \in Keys |->
           IF \E m \in atKey : key[m] = k
             THEN CHOOSE m \in atKey : key[m] = k ELSE retired[k]]
      /\ retired_extra' = retired_extra \cup (new \ atKey)
  BY DEF QueueUnload
<1>2. /\ \A m \in new : m \in Modules /\ ~unload_queued[m] /\ key[m] \in Keys
      /\ \A m, n \in new : key[m] = key[n] => m = n
      /\ atKey \subseteq new /\ new \subseteq ms
  BY DEF TypeOK
<1>3. \A m \in atKey : retired[key[m]] \in {None, m}
  BY DEF KeySlotFree
<1>n. \A m \in Modules : m \in new <=>
         m \in ms /\ ~resident[m] /\ ~unloaded[m] /\ ~unload_queued[m]
  OBVIOUS
<1> HIDE DEF new, atKey
<1>4. ASSUME NEW m \in atKey PROVE retired'[key[m]] = m
  <2>1. (CHOOSE n \in atKey : key[n] = key[m]) \in atKey
    BY <1>2
  <2>2. key[CHOOSE n \in atKey : key[n] = key[m]] = key[m]
    BY <1>2
  <2> QED BY <1>1, <1>2, <2>1, <2>2
<1>5. ASSUME NEW k \in Keys
      PROVE  \/ retired'[k] = retired[k] \/ retired'[k] \in atKey
  <2>1. CASE \E m \in atKey : key[m] = k
    BY <1>2, <1>4, <2>1
  <2>2. CASE ~ \E m \in atKey : key[m] = k
    BY <1>1, <2>2
  <2> QED BY <2>1, <2>2
<1>6. ASSUME NEW k \in Keys, retired[k] # None PROVE retired'[k] = retired[k]
  <2>1. retired[k] \in Modules /\ InTables(retired[k])
    BY <1>6 DEF TypeOK, InTables
  <2>2. unload_queued[retired[k]]
    BY <2>1 DEF KeepInv
  <2>3. \A m \in atKey : key[m] # k
    BY <1>2, <1>3, <1>6, <2>2
  <2> QED BY <1>1, <2>3
<1>7. ASSUME NEW m \in Modules PROVE unload_queued'[m] <=> InTables(m)'
  <2>1. ASSUME unload_queued'[m] PROVE InTables(m)'
    <3>1. CASE m \in new
      BY <3>1, <1>1, <1>2, <1>4 DEF InTables
    <3>2. CASE unload_queued[m]
      <4>1. InTables(m)
        BY <3>2 DEF KeepInv
      <4>2. m # None
        BY ResidencyAssumption
      <4> QED BY <4>1, <4>2, <1>1, <1>6 DEF InTables
    <3> QED BY <2>1, <3>1, <3>2, <1>1
  <2>2. ASSUME InTables(m)' PROVE unload_queued'[m]
    <3>1. CASE m \in retired_extra'
      BY <3>1, <1>1, <1>2 DEF KeepInv, InTables
    <3>2. ASSUME NEW k \in Keys, retired'[k] = m PROVE unload_queued'[m]
      <4>1. m = retired[k] \/ m \in atKey
        BY <1>5, <3>2
      <4>2. m = retired[k] => unload_queued[m]
        BY DEF KeepInv, InTables
      <4> QED BY <4>1, <4>2, <1>1, <1>2
    <3> QED BY <2>2, <3>1, <3>2 DEF InTables
  <2> QED BY <2>1, <2>2
<1>8. ASSUME NEW k \in Keys, retired'[k] \in retired_extra' PROVE FALSE
  <2> DEFINE m == retired'[k]
  <2>1. m \in retired_extra \/ m \in new \ atKey
    BY <1>1, <1>8
  <2>2. m = retired[k] \/ m \in atKey
    BY <1>5
  <2>3. m = retired[k] => m \notin retired_extra
    BY DEF KeepInv
  <2>4. m \in new => m # retired[k]
    <3>1. ASSUME m \in new, m = retired[k] PROVE FALSE
      <4>1. m \in Modules /\ ~unload_queued[m]
        BY <1>2, <3>1
      <4>2. InTables(m)
        BY <3>1 DEF InTables
      <4> QED BY <4>1, <4>2 DEF KeepInv
    <3> QED BY <3>1
  <2>5. m \in atKey => m \notin retired_extra
    <3>1. ASSUME m \in atKey, m \in retired_extra PROVE FALSE
      <4>1. m \in Modules /\ ~unload_queued[m]
        BY <1>2, <3>1
      <4>2. InTables(m)
        BY <3>1 DEF InTables
      <4> QED BY <4>1, <4>2 DEF KeepInv
    <3> QED BY <3>1
  <2> HIDE DEF m
  <2> QED BY <2>1, <2>2, <2>3, <2>4, <2>5
<1>9. \A m \in Modules : unload_queued'[m] <=>
        unload_queued[m] \/ (m \in ms /\ ~resident[m] /\ ~unloaded[m])
  BY <1>1, <1>n
<1> QED BY <1>7, <1>8, <1>9

\* Every step keeps track of every loaded module.
LEMMA KeepStep ==
  ASSUME TypeOK, CallInv, ReservationHasOneOwner, RetireInv, KeepInv, [Next]_vars
  PROVE  KeepInv'
<1> USE DEF entryVars, tableVars, threadVars, streamVars, userVars, Go, Set, TypeOK
<1>1. ASSUME NEW t \in Threads, CallStep(t) \/ CallerStep(t) PROVE KeepInv'
  <2>1. CASE PollSelect(t)
    <3>1. ret[t] \in {"warmGet", "enqueue"}
      OBVIOUS
    <3> QED BY <2>1, <3>1, KeepFrame DEF PollSelect
  <2>2. CASE PollFence(t)
    BY <2>2, KeepFrame DEF PollFence
  <2>3. CASE PollQuery(t)
    BY <2>3, KeepFrame DEF PollQuery
  <2>4. CASE PollUnload(t)
    <3>1. got[t] \in Modules /\ got[t] # None /\ unloading[got[t]]
      BY <2>4, PollOwnsModule, ResidencyAssumption DEF PollUnload, PollLabels
    <3>2. /\ \A m \in Modules : InColdPath(m)' <=> InColdPath(m)
          /\ \A u \in Threads : pc'[u] \in {"coldLoad", "coldClaim", "coldPublish"} =>
               pc'[u] = pc[u]
      BY <2>4 DEF PollUnload, InColdPath
    <3>3. \A m \in Modules : InTables(m)' <=> InTables(m) /\ m # got[t]
      <4>1. \A k \in Keys : retired'[k] = IF retired[k] = got[t] THEN None ELSE retired[k]
        BY <2>4 DEF PollUnload
      <4>2. retired_extra' = retired_extra \ {got[t]} /\ \A m \in Modules : m # None
        BY <2>4, ResidencyAssumption DEF PollUnload
      <4> QED BY <4>1, <4>2 DEF InTables
    <3>4. ~cache_resident[got[t]]
      BY <3>1 DEF RetireInv
    <3>5. \A k \in Keys : retired'[k] \notin retired_extra'
      BY <2>4, ResidencyAssumption DEF PollUnload, KeepInv
    <3> QED BY <2>4, <3>1, <3>2, <3>3, <3>4, <3>5 DEF PollUnload, KeepInv
  <2>5. CASE PollError(t)
    BY <2>5, KeepFrame DEF PollError
  <2>6. CASE PollLeave(t)
    <3>1. ret[t] \in {"warmGet", "enqueue"}
      OBVIOUS
    <3> QED BY <2>6, <3>1, KeepFrame DEF PollLeave
  <2>7. CASE PollInterrupt(t)
    <3>1. /\ pc[t] \in {"pollFence", "pollQuery", "pollUnload"}
          /\ pc'[t] \in {"release", "idle"}
          /\ \A u \in Threads \ {t} :
               pc'[u] = pc[u] /\ got'[u] = got[u] /\ op'[u] = op[u]
      BY <2>7 DEF PollInterrupt, Return
    <3> QED BY <2>7, <3>1, KeepFrame DEF PollInterrupt
  <2>8. CASE WarmGet(t)
    BY <2>8, KeepFrame DEF WarmGet, NextAfterMiss
  <2>9. CASE WarmMiss(t)
    BY <2>9, KeepFrame DEF WarmMiss, NextAfterMiss
  <2>10. CASE WarmHit(t)
    <3>1. /\ cache_resident[got[t]] /\ got[t] \in Modules /\ pc[t] = "warmLock"
      BY <2>10 DEF WarmHit, Leasable, CallInv
    <3>2. key[got[t]] # None
      BY <3>1 DEF KeepInv
    <3>3. \A u \in Threads :
            lease'[u] # None => lease'[u] = lease[u] \/ key[lease'[u]] # None
      BY <2>10, <3>2 DEF WarmHit
    <3> QED BY <2>10, <3>3, KeepFrame DEF WarmHit
  <2>11. CASE WarmTouch(t)
    BY <2>11, KeepFrame DEF WarmTouch
  <2>12. CASE ColdLock(t)
    BY <2>12, KeepFrame DEF ColdLock
  <2>13. CASE ColdFind(t)
    <3> DEFINE k == op[t].key
    <3>1. k \in Keys /\ pc'[t] \in {"coldLoad", "coldClaim"} /\ pc[t] = "coldFind"
      BY <2>13 DEF ColdFind, Ops
    <3>2. \A u \in Threads \ {t} : pc'[u] = pc[u] /\ got'[u] = got[u] /\ op'[u] = op[u]
      BY <2>13 DEF ColdFind
    <3>3. \A m \in Modules : InColdPath(m)' <=>
            InColdPath(m) \/ (pc'[t] = "coldClaim" /\ got'[t] = m)
      BY <3>1, <3>2 DEF InColdPath
    <3>4. UNCHANGED <<key, unloaded, loaded, retired_extra, op, lease>>
      BY <2>13 DEF ColdFind
    <3>5. CASE loaded[k] = None /\ Revivable(retired[k])
      <4>0. PICK m \in Modules : m = retired[k] /\ m # None
        BY <3>1, <3>5 DEF Revivable
      <4>1. /\ m # None /\ ~unloaded[m] /\ key[m] = k
            /\ got'[t] = m /\ pc'[t] = "coldClaim"
            /\ cache_resident' = Set(cache_resident, m, TRUE)
            /\ unload_queued' = Set(unload_queued, m, FALSE)
            /\ retired' = [retired EXCEPT ![k] = None]
        BY <2>13, <3>1, <3>5, <4>0 DEF ColdFind, Revivable, RetireInv
      <4>2. m \notin retired_extra /\ \A x \in Keys : x # k => retired[x] # m
        BY <3>1, <4>0, <4>1 DEF KeepInv, RetireInv
      <4> HIDE DEF k
      <4>3. \A n \in Modules : InTables(n)' <=> InTables(n) /\ n # m
        <5>1. \A x \in Keys : retired'[x] = IF x = k THEN None ELSE retired[x]
          BY <4>1
        <5>2. m = retired[k] /\ \A n \in Modules : n # None
          BY <4>0, ResidencyAssumption
        <5> QED BY <3>1, <3>4, <4>2, <5>1, <5>2 DEF InTables
      <4>4. \A x \in Keys : retired'[x] \notin retired_extra'
        BY <3>4, <4>1, ResidencyAssumption DEF KeepInv
      <4>5. \A n \in Modules \ {m} : /\ cache_resident'[n] = cache_resident[n]
                                     /\ unload_queued'[n] = unload_queued[n]
        BY <4>1
      <4>6. cache_resident'[m] /\ ~unload_queued'[m] /\ InColdPath(m)'
        BY <3>3, <4>1
      <4>7. \A u \in Threads \ {t} :
              pc'[u] \notin {"coldLoad", "coldClaim", "coldPublish"}
        BY <3>1, <3>2 DEF CallInv
      <4>8. loaded'[op'[t].key] = None
        BY <3>4, <3>5 DEF k
      <4>9. ASSUME NEW n \in Modules
            PROVE  /\ unload_queued'[n] <=> InTables(n)'
                   /\ unload_queued'[n] =>
                        ~cache_resident'[n] /\ ~unloaded'[n] /\ key'[n] # None
                   /\ key'[n] # None =>
                        cache_resident'[n] \/ unloaded'[n] \/ unload_queued'[n]
                   /\ cache_resident'[n] =>
                        /\ key'[n] # None
                        /\ loaded'[key'[n]] = n \/ InColdPath(n)'
        <5>1. CASE n = m
          <6>1. key'[m] # None
            BY <3>1, <3>4, <4>1, ResidencyAssumption
          <6> QED BY <4>3, <4>6, <5>1, <6>1
        <5>2. CASE n # m
          BY <3>3, <3>4, <4>3, <4>5, <5>2 DEF KeepInv
        <5> QED BY <5>1, <5>2
      <4>10. \A u \in Threads : lease'[u] # None => key'[lease'[u]] # None
        BY <3>4 DEF KeepInv
      <4> QED BY <4>4, <4>7, <4>8, <4>9, <4>10, <3>1 DEF KeepInv
    <3>6. CASE ~(loaded[k] = None /\ Revivable(retired[k]))
      <4>1. /\ UNCHANGED <<cache_resident, unload_queued, retired>>
            /\ got'[t] = loaded[k]
            /\ pc'[t] = IF loaded[k] = None THEN "coldLoad" ELSE "coldClaim"
        BY <2>13, <3>6 DEF ColdFind
      <4>2. \A m \in Modules : InTables(m)' <=> InTables(m)
        BY <3>4, <4>1 DEF InTables
      <4>3. loaded'[op'[t].key] = got'[t]
        BY <3>4, <4>1
      <4> HIDE DEF k
      <4>4. \A u \in Threads : u # t =>
              pc'[u] \notin {"coldLoad", "coldClaim", "coldPublish"}
        BY <3>1, <3>2 DEF CallInv
      <4>5. \A m \in Modules : InColdPath(m) => InColdPath(m)'
        BY <3>3
      <4> QED BY <3>1, <3>4, <4>1, <4>2, <4>3, <4>4, <4>5 DEF KeepInv
    <3> QED BY <3>5, <3>6
  <2>14. CASE ColdLoadError(t)
    <3>1. \A m \in Modules : InColdPath(m)' <=> InColdPath(m)
      BY <2>14 DEF ColdLoadError, InColdPath
    <3>2. \A m \in Modules : InTables(m)' <=> InTables(m)
      BY <2>14 DEF ColdLoadError, InTables
    <3> QED BY <2>14, <3>1, <3>2 DEF ColdLoadError, Return, KeepInv
  <2>15. CASE ColdClaim(t)
    <3>1. \A m \in Modules : InColdPath(m)' <=> InColdPath(m)
      BY <2>15 DEF ColdClaim, InColdPath
    <3>2. \A m \in Modules : InTables(m)' <=> InTables(m)
      BY <2>15 DEF ColdClaim, InTables
    <3>3. key[got[t]] # None
      BY <2>15, ResidencyAssumption DEF ColdClaim, RetireInv, Ops
    <3>4. \A u \in Threads : lease'[u] # None => key[lease'[u]] # None
      BY <2>15, <3>3 DEF ColdClaim, KeepInv
    <3> QED BY <2>15, <3>1, <3>2, <3>4 DEF ColdClaim, KeepInv
  <2>16. CASE ColdPublish(t)
    <3> DEFINE k == op[t].key
               new == [loaded EXCEPT ![k] = got[t]]
               newOrder == MoveToEnd(k)
               out == {newOrder[i] : i \in 1..Excess(Len(newOrder))}
               gone == {new[x] : x \in out} \ {None}
               resident == [m \in Modules |-> m \notin gone /\ cache_resident[m]]
    <3>1. k \in Keys /\ newOrder \in Seq(Keys)
      BY MoveToEndFacts DEF Ops
    <3>2. /\ got[t] \in Modules /\ got[t] # None /\ cache_resident[got[t]]
          /\ key[got[t]] = k /\ loaded[k] \in {None, got[t]}
      BY <2>16, ResidencyAssumption
         DEF CallInv, Holding, ColdPublish, RetireInv, KeepInv
    <3>3. \A x \in Keys : new[x] # None =>
            new[x] \in Modules /\ cache_resident[new[x]] /\ key[new[x]] = x
      BY <3>1, <3>2 DEF RetireInv
    <3>4. /\ loaded' = [x \in Keys |-> IF x \in out THEN None ELSE new[x]]
          /\ cache_resident' = resident /\ QueueUnload(gone, resident)
          /\ UNCHANGED <<key, unloaded, got, op, lease>>
          /\ pc' = [pc EXCEPT ![t] = "leased"]
      BY <2>16 DEF ColdPublish
    <3>5. \A x \in Keys : new[x] = IF x = k THEN got[t] ELSE loaded[x]
      BY <3>1
    <3> HIDE DEF newOrder, new
    <3>6. out \subseteq Keys
      <4>1. Excess(Len(newOrder)) \in 0..Len(newOrder)
        BY <3>1, ResidencyAssumption DEF Excess
      <4> QED BY <3>1, <4>1
    <3>7. /\ gone \in SUBSET Modules /\ \A m \in gone : key[m] # None
          /\ \A m, n \in gone : key[m] = key[n] => m = n
      <4>1. ASSUME NEW m \in gone
            PROVE  m \in Modules /\ key[m] \in Keys /\ new[key[m]] = m
        <5>1. PICK x \in out : m = new[x]
          OBVIOUS
        <5> QED BY <3>3, <3>6, <5>1
      <4> HIDE DEF gone
      <4>2. gone \in SUBSET Modules
        BY <4>1
      <4>3. \A m \in gone : key[m] # None
        BY <4>1, ResidencyAssumption
      <4>4. \A m, n \in gone : key[m] = key[n] => m = n
        <5> SUFFICES ASSUME NEW m \in gone, NEW n \in gone, key[m] = key[n]
                     PROVE  m = n
          OBVIOUS
        <5>1. new[key[m]] = m /\ new[key[n]] = n
          BY <4>1
        <5> QED BY <5>1, Zenon
      <4> QED BY <4>2, <4>3, <4>4
    <3>8. /\ \A m \in Modules : unload_queued'[m] <=> InTables(m)'
          /\ \A m \in Modules : unload_queued'[m] <=>
               unload_queued[m] \/ (m \in gone /\ ~resident[m] /\ ~unloaded[m])
          /\ \A x \in Keys : retired'[x] \notin retired_extra'
      BY <3>4, <3>7, QueueUnloadKeeps
    <3>9. \A m \in gone : cache_resident[m] /\ ~unloaded[m]
      BY <3>3, <3>6, <3>7 DEF RetireInv
    <3>10. \A m \in Modules : unload_queued'[m] <=> unload_queued[m] \/ m \in gone
      BY <3>8, <3>9
    <3>11. \A m \in Modules : cache_resident'[m] <=> m \notin gone /\ cache_resident[m]
      BY <3>4
    <3>12. \A u \in Threads : pc'[u] \notin {"coldLoad", "coldClaim", "coldPublish"}
      BY <2>16, <3>4 DEF CallInv, ColdPublish
    <3>13. \A m \in Modules : InColdPath(m) => m = got[t]
      BY <2>16 DEF InColdPath, CallInv, ColdPublish
    <3>14. ASSUME NEW m \in Modules, cache_resident'[m]
           PROVE  key[m] # None /\ loaded'[key[m]] = m
      <4>1. key[m] \in Keys /\ (loaded[key[m]] = m \/ m = got[t]) /\ m # None
        BY <3>11, <3>13, <3>14, ResidencyAssumption DEF KeepInv
      <4>2. new[key[m]] = m
        <5>1. CASE key[m] = k
          <6>1. loaded[k] = m => m = got[t]
            BY <3>2, <4>1
          <6> QED BY <3>5, <4>1, <5>1, <6>1
        <5>2. CASE key[m] # k
          BY <3>2, <3>5, <4>1, <5>2
        <5> QED BY <5>1, <5>2
      <4>3. key[m] \notin out
        <5>1. m \notin gone
          BY <3>11, <3>14
        <5>2. key[m] \in out => new[key[m]] \in gone
          BY <4>1, <4>2
        <5> QED BY <4>2, <5>1, <5>2
      <4> QED BY <3>4, <4>1, <4>2, <4>3, ResidencyAssumption
    <3> HIDE DEF gone, resident, out
    <3> QED BY <3>4, <3>8, <3>9, <3>10, <3>11, <3>12, <3>14 DEF KeepInv
  <2>17. CASE Enqueue(t)
    BY <2>17, KeepFrame DEF Enqueue
  <2>18. CASE EnqueueError(t)
    BY <2>18, KeepFrame DEF EnqueueError
  <2>19. CASE Release(t)
    BY <2>19, KeepFrame DEF Release
  <2>20. CASE ReleaseQueue(t)
    <3>1. lease[t] \in Modules /\ pc[t] = "relQueue"
      BY <2>20 DEF CallInv, Dropping, ReleaseQueue
    <3>2. key[lease[t]] # None => \A m \in Modules : unload_queued'[m] = unload_queued[m]
      BY <3>1, <2>20 DEF ReleaseQueue, QueueUnload, KeepInv
    <3>3. QueueUnload({lease[t]}, cache_resident)
      BY <2>20 DEF ReleaseQueue
    <3>4. key[lease[t]] # None
      BY <3>1, ResidencyAssumption DEF KeepInv
    <3>5. /\ \A m \in Modules : unload_queued'[m] <=> InTables(m)'
          /\ \A x \in Keys : retired'[x] \notin retired_extra'
      <4> DEFINE ms == {lease[t]}
      <4>1. /\ ms \in SUBSET Modules /\ \A m \in ms : key[m] # None
            /\ \A m, n \in ms : key[m] = key[n] => m = n
        BY <3>1, <3>4
      <4>2. QueueUnload(ms, cache_resident)
        BY <3>3
      <4> HIDE DEF ms
      <4> QED BY <4>1, <4>2, QueueUnloadKeeps
    <3>6. /\ UNCHANGED <<key, cache_resident, unloaded, loaded, got, op, lease>>
          /\ pc' = [pc EXCEPT ![t] = "prepare"]
      BY <2>20 DEF ReleaseQueue
    <3>7. \A m \in Modules : InColdPath(m)' <=> InColdPath(m)
      BY <3>1, <3>6 DEF InColdPath
    <3> QED BY <3>1, <3>2, <3>4, <3>5, <3>6, <3>7 DEF KeepInv
  <2>21. CASE Prepare(t)
    BY <2>21, KeepFrame DEF Prepare
  <2>22. CASE SkipPrepare(t)
    BY <2>22, KeepFrame DEF SkipPrepare
  <2>23. CASE Drop(t)
    <3>1. /\ pc[t] = "drop" /\ pc'[t] \in {"idle", "release"}
          /\ lease'[t] \in {None, lease[t]}
          /\ \A u \in Threads \ {t} : /\ pc'[u] = pc[u] /\ got'[u] = got[u]
                                     /\ op'[u] = op[u] /\ lease'[u] = lease[u]
      <4>1. CASE AlreadyReleased(t)
        BY <2>23, <4>1 DEF Drop, Return
      <4>2. CASE ~AlreadyReleased(t)
        BY <2>23, <4>2 DEF Drop
      <4> QED BY <4>1, <4>2
    <3>2. UNCHANGED <<key, cache_resident, unload_queued, unloaded, loaded, retired,
                      retired_extra>>
      BY <2>23 DEF Drop
    <3> QED BY <3>1, <3>2, KeepFrame
  <2>24. CASE StartLaunch(t)
    BY <2>24, KeepFrame DEF StartLaunch
  <2>25. CASE StartRelease(t)
    BY <2>25, KeepFrame DEF StartRelease
  <2>26. ASSUME NEW m \in Modules, PollEnter(t, m)
         PROVE  KeepInv'
    BY <2>26, KeepFrame DEF PollEnter
  <2>27. ASSUME NEW m \in Modules, ColdLoad(t, m)
         PROVE  KeepInv'
    <3>1. /\ op[t].key \in Keys /\ m # None /\ key[m] = None
          /\ loaded[op[t].key] = None /\ pc[t] = "coldLoad"
      BY <2>27, ResidencyAssumption DEF ColdLoad, KeepInv, Ops
    <3>2. /\ key' = [key EXCEPT ![m] = op[t].key]
          /\ cache_resident' = [cache_resident EXCEPT ![m] = TRUE]
          /\ got' = [got EXCEPT ![t] = m] /\ pc' = [pc EXCEPT ![t] = "coldClaim"]
          /\ UNCHANGED <<unload_queued, unloaded, loaded, retired, retired_extra, op,
                       lease>>
      BY <2>27 DEF ColdLoad
    <3>3. \A n \in Modules : InTables(n)' <=> InTables(n)
      BY <3>2 DEF InTables
    <3>4. \A n \in Modules : InColdPath(n)' <=> InColdPath(n) \/ n = m
      BY <3>1, <3>2 DEF InColdPath
    <3>5. ~unloaded[m] /\ ~unload_queued[m]
      BY <3>1 DEF RetireInv, KeepInv
    <3>6. \A u \in Threads \ {t} : pc'[u] \notin {"coldLoad", "coldClaim", "coldPublish"}
      BY <3>1, <3>2 DEF CallInv
    <3>7. op[t].key # None
      BY <3>1, ResidencyAssumption
    <3> QED BY <3>1, <3>2, <3>3, <3>4, <3>5, <3>6, <3>7 DEF KeepInv
  <2>28. ASSUME NEW k \in Keys, NEW s \in AllStreams, Begin(t, k, s)
         PROVE  KeepInv'
    BY <2>28, KeepFrame DEF Begin
  <2>29. ASSUME NEW m \in Modules, NEW s \in AllStreams, FastCheck(t, m, s)
         PROVE  KeepInv'
    BY <2>29, KeepFrame DEF FastCheck
  <2>30. CASE FastLaunch(t)
    BY <2>30, KeepFrame DEF FastLaunch, FastReturn, Return
  <2>31. CASE FastRefuse(t)
    BY <2>31, KeepFrame DEF FastRefuse, FastReturn, Return
  <2> QED BY <1>1, <2>1, <2>2, <2>3, <2>4, <2>5, <2>6, <2>7, <2>8, <2>9,
          <2>10, <2>11, <2>12, <2>13, <2>14, <2>15, <2>16, <2>17, <2>18,
          <2>19, <2>20, <2>21, <2>22, <2>23, <2>24, <2>25, <2>26, <2>27,
          <2>28, <2>29, <2>30, <2>31
          DEF CallStep, CallerStep
<1>2. ASSUME Environment PROVE KeepInv'
  <2>1. ASSUME NEW s \in AllStreams, Complete(s) PROVE KeepInv'
    BY <2>1, KeepUnchanged DEF Complete
  <2>2. ASSUME NEW m \in Modules, NEW s \in AllStreams, Replay(m, s) PROVE KeepInv'
    BY <2>2, KeepUnchanged DEF Replay
  <2>3. ASSUME NEW s \in Streams, ToggleCapture(s) PROVE KeepInv'
    BY <2>3, KeepUnchanged DEF ToggleCapture
  <2>4. ASSUME NEW s \in Streams, CloseStream(s) PROVE KeepInv'
    BY <2>4, KeepUnchanged DEF CloseStream
  <2> QED BY <1>2, <2>1, <2>2, <2>3, <2>4 DEF Environment
<1>3. CASE UNCHANGED vars
  BY <1>3, KeepUnchanged DEF vars
<1> QED BY <1>1, <1>2, <1>3 DEF Next

-----------------------------------------------------------------------------
(* Destroyed streams. *)

\* Only the legacy stream, which nobody destroys, is left for a poll to fence,
\* and a stream stays while a call has it as its argument.
StreamInv ==
  /\ \A m \in Modules : pending_streams[m] \subseteq {Default}
  /\ \A t \in Threads : pc[t] # "idle" => op[t].stream \notin closed
  /\ DestroyedStreamUnused

\* A step that hands no stream to the driver.
LEMMA StreamFrame ==
  ASSUME StreamInv, NEW t \in Threads, UNCHANGED <<pending_streams, closed, misused>>,
         \A u \in Threads \ {t} : pc'[u] = pc[u] /\ op'[u] = op[u],
         pc'[t] = "idle" \/ (pc[t] # "idle" /\ op'[t] = op[t])
  PROVE  StreamInv'
BY DEF StreamInv, DestroyedStreamUnused

\* A launch leaves at most the legacy stream to the poll.
LEMMA PendingDefault ==
  ASSUME TypeOK, StreamInv, NEW m, NEW s \in AllStreams,
         pending_streams' = [pending_streams EXCEPT ![m] = @ \cup FencedLater(s)]
  PROVE  \A n \in Modules : pending_streams'[n] \subseteq {Default}
BY DEF TypeOK, StreamInv, FencedLater

\* No step hands a destroyed stream to the driver.
LEMMA StreamStep ==
  ASSUME TypeOK, CallInv, ReservationHasOneOwner, StreamInv, [Next]_vars
  PROVE  StreamInv'
<1> USE DEF entryVars, tableVars, threadVars, streamVars, userVars, Go, Set, TypeOK
<1>1. ASSUME NEW t \in Threads, CallStep(t) \/ CallerStep(t) PROVE StreamInv'
  <2>1. CASE PollSelect(t)
    <3>1. ret[t] \in {"warmGet", "enqueue"}
      OBVIOUS
    <3> QED BY <2>1, <3>1, StreamFrame DEF PollSelect
  <2>2. CASE PollFence(t)
    <3>1. got[t] \in Modules
      BY <2>2, PollOwnsModule DEF PollFence, PollLabels
    <3>2. pending_streams[got[t]] \cap closed = {}
      BY <3>1, ResidencyAssumption DEF StreamInv
    <3>3. misused' = {}
      BY <2>2, <3>2 DEF PollFence, FinalFences, StreamInv, DestroyedStreamUnused
    <3>4. \A m \in Modules : pending_streams'[m] \subseteq {Default}
      BY <2>2 DEF PollFence, StreamInv
    <3>5. \A u \in Threads : pc'[u] # "idle" => op'[u].stream \notin closed'
      BY <2>2 DEF PollFence, StreamInv
    <3> QED BY <3>3, <3>4, <3>5 DEF StreamInv, DestroyedStreamUnused
  <2>3. CASE PollQuery(t)
    BY <2>3, StreamFrame DEF PollQuery
  <2>4. CASE PollUnload(t)
    BY <2>4, StreamFrame DEF PollUnload
  <2>5. CASE PollError(t)
    BY <2>5, StreamFrame DEF PollError
  <2>6. CASE PollLeave(t)
    BY <2>6, StreamFrame DEF PollLeave
  <2>7. CASE PollInterrupt(t)
    BY <2>7, StreamFrame DEF PollInterrupt, Return
  <2>8. CASE WarmGet(t)
    BY <2>8, StreamFrame DEF WarmGet, NextAfterMiss
  <2>9. CASE WarmMiss(t)
    BY <2>9, StreamFrame DEF WarmMiss, NextAfterMiss
  <2>10. CASE WarmHit(t)
    BY <2>10, StreamFrame DEF WarmHit
  <2>11. CASE WarmTouch(t)
    BY <2>11, StreamFrame DEF WarmTouch
  <2>12. CASE ColdLock(t)
    BY <2>12, StreamFrame DEF ColdLock
  <2>13. CASE ColdFind(t)
    BY <2>13, StreamFrame DEF ColdFind
  <2>14. CASE ColdLoadError(t)
    BY <2>14, StreamFrame DEF ColdLoadError, Return
  <2>15. CASE ColdClaim(t)
    BY <2>15, StreamFrame DEF ColdClaim
  <2>16. CASE ColdPublish(t)
    BY <2>16, StreamFrame DEF ColdPublish
  <2>17. CASE Enqueue(t)
    <3>1. op[t].stream \in AllStreams
      BY DEF Ops
    <3>2. \A m \in Modules : pending_streams'[m] \subseteq {Default}
      BY <2>17, <3>1, PendingDefault DEF Enqueue
    <3>3. op[t].stream \notin closed /\ UNCHANGED closed
      BY <2>17 DEF Enqueue, StreamInv
    <3>4. misused' = {}
      BY <2>17, <3>3 DEF Enqueue, StreamInv, DestroyedStreamUnused
    <3>5. \A u \in Threads : pc'[u] # "idle" => op'[u].stream \notin closed'
      BY <2>17 DEF Enqueue, StreamInv
    <3> QED BY <3>2, <3>4, <3>5 DEF StreamInv, DestroyedStreamUnused
  <2>18. CASE EnqueueError(t)
    <3>1. op[t].stream \in AllStreams
      BY DEF Ops
    <3>2. \A m \in Modules : pending_streams'[m] \subseteq {Default}
      BY <2>18, <3>1, PendingDefault DEF EnqueueError
    <3>3. op[t].stream \notin closed /\ UNCHANGED closed
      BY <2>18 DEF EnqueueError, StreamInv
    <3>4. misused' = {}
      BY <2>18, <3>3 DEF EnqueueError, StreamInv, DestroyedStreamUnused
    <3>5. \A u \in Threads : pc'[u] # "idle" => op'[u].stream \notin closed'
      BY <2>18 DEF EnqueueError, StreamInv
    <3> QED BY <3>2, <3>4, <3>5 DEF StreamInv, DestroyedStreamUnused
  <2>19. CASE Release(t)
    BY <2>19, StreamFrame DEF Release
  <2>20. CASE ReleaseQueue(t)
    BY <2>20, StreamFrame DEF ReleaseQueue
  <2>21. CASE Prepare(t)
    BY <2>21, StreamFrame DEF Prepare
  <2>22. CASE SkipPrepare(t)
    BY <2>22, StreamFrame DEF SkipPrepare
  <2>23. CASE Drop(t)
    <3>1. UNCHANGED <<pending_streams, closed, misused>>
      BY <2>23 DEF Drop
    <3>2. CASE AlreadyReleased(t)
      BY <2>23, <3>1, <3>2, StreamFrame DEF Drop, Return
    <3>3. CASE ~AlreadyReleased(t)
      BY <2>23, <3>1, <3>3, StreamFrame DEF Drop
    <3> QED BY <3>2, <3>3
  <2>24. CASE StartLaunch(t)
    BY <2>24, StreamFrame DEF StartLaunch
  <2>25. CASE StartRelease(t)
    BY <2>25, StreamFrame DEF StartRelease
  <2>26. ASSUME NEW m \in Modules, PollEnter(t, m)
         PROVE  StreamInv'
    BY <2>26, StreamFrame DEF PollEnter
  <2>27. ASSUME NEW m \in Modules, ColdLoad(t, m)
         PROVE  StreamInv'
    BY <2>27, StreamFrame DEF ColdLoad
  <2>28. ASSUME NEW k \in Keys, NEW s \in AllStreams, Begin(t, k, s)
         PROVE  StreamInv'
    BY <2>28 DEF Begin, StreamInv, DestroyedStreamUnused
  <2>29. ASSUME NEW m \in Modules, NEW s \in AllStreams, FastCheck(t, m, s)
         PROVE  StreamInv'
    BY <2>29 DEF FastCheck, StreamInv, DestroyedStreamUnused
  <2>30. CASE FastLaunch(t)
    <3>0. op[t].stream \in AllStreams
      BY DEF Ops
    <3>1. \A n \in Modules : pending_streams'[n] \subseteq {Default}
      BY <2>30, <3>0, PendingDefault DEF FastLaunch
    <3>2. \A u \in Threads : pc'[u] # "idle" => pc[u] # "idle" /\ op'[u] = op[u]
      BY <2>30 DEF FastLaunch, FastReturn, Return
    <3> QED BY <2>30, <3>1, <3>2 DEF FastLaunch, StreamInv, DestroyedStreamUnused
  <2>31. CASE FastRefuse(t)
    BY <2>31, StreamFrame DEF FastRefuse, FastReturn, Return
  <2> QED BY <1>1, <2>1, <2>2, <2>3, <2>4, <2>5, <2>6, <2>7, <2>8, <2>9,
          <2>10, <2>11, <2>12, <2>13, <2>14, <2>15, <2>16, <2>17, <2>18,
          <2>19, <2>20, <2>21, <2>22, <2>23, <2>24, <2>25, <2>26, <2>27,
          <2>28, <2>29, <2>30, <2>31
          DEF CallStep, CallerStep
<1>2. ASSUME Environment PROVE StreamInv'
  <2>1. ASSUME NEW s \in AllStreams, Complete(s) PROVE StreamInv'
    BY <2>1 DEF Complete, StreamInv, DestroyedStreamUnused
  <2>2. ASSUME NEW m \in Modules, NEW s \in AllStreams, Replay(m, s) PROVE StreamInv'
    BY <2>2 DEF Replay, StreamInv, DestroyedStreamUnused
  <2>3. ASSUME NEW s \in Streams, ToggleCapture(s) PROVE StreamInv'
    BY <2>3 DEF ToggleCapture, StreamInv, DestroyedStreamUnused
  <2>4. ASSUME NEW s \in Streams, CloseStream(s) PROVE StreamInv'
    BY <2>4, ResidencyAssumption
       DEF CloseStream, InUse, StreamInv, DestroyedStreamUnused
  <2> QED BY <1>2, <2>1, <2>2, <2>3, <2>4 DEF Environment
<1>3. CASE UNCHANGED vars
  BY <1>3 DEF vars, StreamInv, DestroyedStreamUnused
<1> QED BY <1>1, <1>2, <1>3 DEF Next

-----------------------------------------------------------------------------
(* The inductive invariant and the theorems. *)

IInv == /\ TypeOK /\ CallInv /\ LeasesAreCounted /\ ReservationHasOneOwner
        /\ RetireInv /\ FenceInv /\ FastInv /\ ResidencyBound /\ KeepInv
        /\ StreamInv

\* The inductive invariant holds when the process starts: no call is in
\* progress, nothing is leased, reserved, loaded or launched.
LEMMA IInvInit == Init => IInv
<1> SUFFICES ASSUME Init PROVE IInv
  OBVIOUS
<1>1. TypeOK
  BY TypeOKInit
<1>2. CallInv
  BY ResidencyAssumption DEF Init, CallInv, Holding, Dropping, PollLabels
<1>3. LeasesAreCounted
  <2>1. \A m \in Modules : Claims(m) = {} /\ leases[m] = 0
    BY DEF Init, Claims
  <2> QED BY <2>1, FS_EmptySet DEF LeasesAreCounted
<1>4. ReservationHasOneOwner
  BY DEF Init, ReservationHasOneOwner
<1>5. RetireInv
  BY DEF Init, RetireInv
<1>6. FenceInv
  BY ResidencyAssumption DEF Init, FenceInv, Fencing, UnloadedModuleIsIdle
<1>7. ResidencyBound
  BY ResidencyAssumption DEF Init, ResidencyBound
<1>8. KeepInv
  <2>1. \A m \in Modules : ~InTables(m) /\ ~InColdPath(m)
    BY ResidencyAssumption DEF Init, InTables, InColdPath
  <2> QED BY <2>1, ResidencyAssumption DEF Init, KeepInv
<1>9. StreamInv
  BY DEF Init, StreamInv, DestroyedStreamUnused
<1>10. FastInv
  BY DEF Init, FastInv
<1> QED BY <1>1, <1>2, <1>3, <1>4, <1>5, <1>6, <1>7, <1>8, <1>9, <1>10 DEF IInv

\* Every step of every thread, of the device and of the owner of the streams
\* keeps the inductive invariant.
LEMMA IInvStep == IInv /\ [Next]_vars => IInv'
<1> SUFFICES ASSUME IInv, [Next]_vars PROVE IInv'
  OBVIOUS
<1>1. /\ TypeOK /\ CallInv /\ LeasesAreCounted /\ ReservationHasOneOwner
      /\ RetireInv /\ FenceInv /\ FastInv /\ ResidencyBound /\ KeepInv /\ StreamInv
  BY DEF IInv
<1>2. TypeOK' /\ CallInv' /\ LeasesAreCounted'
  BY <1>1, TypeOKStep, CallInvStep, LeasesStep
<1>3. ReservationHasOneOwner' /\ RetireInv' /\ FenceInv' /\ ResidencyBound'
  BY <1>1, ReservationStep, RetireStep, FenceStep, BoundStep
<1>4. KeepInv' /\ StreamInv' /\ FastInv'
  BY <1>1, KeepStep, StreamStep, FastStep
<1> QED BY <1>2, <1>3, <1>4 DEF IInv

\* The inductive invariant holds in every reachable state.
LEMMA Invariance == Spec => []IInv
BY IInvInit, IInvStep, PTL DEF Spec

\* The caches, the entries and every call keep their types, for any number of
\* threads, keys, contexts, modules and streams.
THEOREM TypeCorrect == Spec => []TypeOK
<1>1. IInv => TypeOK
  BY DEF IInv
<1> QED BY <1>1, Invariance, PTL

\* entry.leases is exact: _warm_lease and _load_artifact count a lease once,
\* release() gives it back once, whatever fails in between.
THEOREM LeasesCounted == Spec => []LeasesAreCounted
<1>1. IInv => LeasesAreCounted
  BY DEF IInv
<1> QED BY <1>1, Invariance, PTL

\* The reservations that _poll_deferred makes belong to one running poll each:
\* errors and interrupts leak none, and no module is unloaded twice.
THEOREM ReservationOwned == Spec => []ReservationHasOneOwner
<1>1. IInv => ReservationHasOneOwner
  BY DEF IInv
<1> QED BY <1>1, Invariance, PTL

\* A leased module and a module in a captured graph stay loaded: the poll, the
\* eviction and the revival of a module cannot race a lease into an unload.
THEOREM ClaimedStaysLoaded == Spec => []ClaimedModuleStaysLoaded
<1>1. IInv => ClaimedModuleStaysLoaded
  <2> SUFFICES ASSUME IInv, NEW m \in Modules, Claims(m) # {} \/ m \in graphs
               PROVE  ~unloaded[m]
    BY DEF ClaimedModuleStaysLoaded
  <2>1. CASE m \in graphs
    BY <2>1 DEF IInv, RetireInv
  <2>2. CASE Claims(m) # {}
    <3>1. PICK t \in Threads : t \in Claims(m)
      BY <2>2 DEF Claims
    <3>2. leases[m] # 0
      BY <3>1, LeasedIsCounted DEF IInv
    <3> QED BY <3>2 DEF IInv, RetireInv
  <2> QED BY <2>1, <2>2
<1> QED BY <1>1, Invariance, PTL

\* cuModuleUnload never runs under a kernel of the module, whichever stream
\* it was launched on and whether by a leased call, by the native launcher or
\* by the replay of a graph.
THEOREM UnloadedIdle == Spec => []UnloadedModuleIsIdle
<1>1. IInv => UnloadedModuleIsIdle
  BY DEF IInv, FenceInv
<1> QED BY <1>1, Invariance, PTL

\* The loaded modules never exceed SWAGE_MEMORY_CACHE_ENTRIES, and the order of
\* the LRU lists exactly the keys it holds, whatever uses and loads interleave.
THEOREM ResidencyBounded == Spec => []ResidencyBound
<1>1. IInv => ResidencyBound
  BY DEF IInv
<1> QED BY <1>1, Invariance, PTL

\* Every loaded module can be found: it is in the cache, queued for unloading, or
\* in the hands of the cold path, whatever fails and however calls, polls and
\* evictions interleave (_queue_unload_locked).
THEOREM NothingForgotten == Spec => []NoModuleForgotten
<1>1. IInv => NoModuleForgotten
  <2> SUFFICES ASSUME IInv, NEW m \in Modules, key[m] # None, ~unloaded[m]
               PROVE  \/ loaded[key[m]] = m
                      \/ retired[key[m]] = m
                      \/ m \in retired_extra
                      \/ InColdPath(m)
    BY DEF NoModuleForgotten, InColdPath
  <2>1. cache_resident[m] \/ unload_queued[m]
    BY DEF IInv, KeepInv
  <2>2. CASE cache_resident[m]
    BY <2>2 DEF IInv, KeepInv
  <2>3. CASE unload_queued[m]
    <3>1. m \in retired_extra \/ \E k \in Keys : retired[k] = m
      BY <2>3 DEF IInv, KeepInv, InTables
    <3> QED BY <3>1, ResidencyAssumption DEF IInv, RetireInv
  <2> QED BY <2>1, <2>2, <2>3
<1> QED BY <1>1, Invariance, PTL

\* A stream that its owner destroyed is never passed to the driver again: the
\* polls fence no stream but the legacy one (_poll_deferred).
THEOREM DestroyedUnused == Spec => []DestroyedStreamUnused
<1>1. IInv => DestroyedStreamUnused
  BY DEF IInv, StreamInv
<1> QED BY <1>1, Invariance, PTL
===============================================================================
