------------------------ MODULE PersistentQueue_proofs ------------------------
(* Proofs about the prepared persistent sum for all sets of threads and       *)
(* streams and all bounds: its types, the order of the upload before every    *)
(* kernel, the versions, and, when no launch fails during a capture, that it  *)
(* implements the abstract owner of its scratch.                              *)
EXTENDS PersistentQueue, FiniteSetTheorems, SequenceTheorems, TLAPS

\* What the device removes from a stream, and what a launch adds to it.
LEMMA TailFacts ==
  ASSUME NEW q \in Seq(Work), q # <<>>
  PROVE  /\ Tail(q) \in Seq(Work) /\ Head(q) = q[1] /\ Len(q) \in Nat \ {0}
         /\ Len(Tail(q)) = Len(q) - 1
         /\ \A i \in 1..(Len(q) - 1) : Tail(q)[i] = q[i + 1]
  BY HeadTailProperties, EmptySeq

\* What a queue holds after one more item.
LEMMA AppendFacts ==
  ASSUME NEW q \in Seq(Work), NEW w \in Work
  PROVE  /\ Append(q, w) \in Seq(Work) /\ Len(q) \in Nat
         /\ Len(Append(q, w)) = Len(q) + 1
         /\ \A i \in 1..Len(q) : Append(q, w)[i] = q[i]
         /\ Append(q, w)[Len(q) + 1] = w
  BY AppendProperties, LenProperties

\* Recording the event again marks its older records and moves nothing.
LEMMA SupersededFacts ==
  ASSUME queue \in [Streams -> Seq(Work)], NEW s \in Streams
  PROVE  /\ Superseded \in [Streams -> Seq(Work)]
         /\ Len(Superseded[s]) = Len(queue[s]) /\ Len(queue[s]) \in Nat
         /\ \A i \in 1..Len(queue[s]) :
              Superseded[s][i] = IF queue[s][i] = "fence" THEN "past"
                                                          ELSE queue[s][i]
<1>1. ASSUME NEW r \in Streams
      PROVE  /\ Superseded[r] \in Seq(Work) /\ Len(Superseded[r]) = Len(queue[r])
             /\ Len(queue[r]) \in Nat
             /\ \A i \in 1..Len(queue[r]) :
                  Superseded[r][i] = IF queue[r][i] = "fence" THEN "past"
                                                              ELSE queue[r][i]
  <2> DEFINE q == queue[r]
             f == [i \in 1..Len(q) |-> IF q[i] = "fence" THEN "past" ELSE q[i]]
  <2>1. q \in Seq(Work) /\ Len(q) \in Nat /\ DOMAIN q = 1..Len(q)
    BY LenProperties
  <2>2. Superseded[r] = f
    BY <2>1 DEF Superseded
  <2>3. f \in Seq(Work) /\ Len(f) = Len(q)
    BY <2>1 DEF Work
  <2> QED BY <2>1, <2>2, <2>3
<1> QED BY <1>1 DEF Superseded

-------------------------------------------------------------------------------
(* Types. *)

\* What a call keeps in its local variables.
Calls ==
  [capturing : BOOLEAN, previous : Streams \cup {NoStream},
   wasRecorded : BOOLEAN, failed : BOOLEAN, cleanup : BOOLEAN, wrote : BOOLEAN]

\* The types hold at first.
LEMMA TypeInit == Init => TypeOK
<1> SUFFICES ASSUME Init PROVE TypeOK
  OBVIOUS
<1>1. <<"upload", "ready">> \in Seq(Work) /\ <<>> \in Seq(Work)
  BY DEF Work
<1>2. queue \in [Streams -> Seq(Work)]
  BY <1>1 DEF Init
<1>3. /\ calls \in 0..MaxLaunches /\ edits \in 0..MaxEdits
      /\ version \in Nat /\ expected \in Nat
  BY BoundsAreNatural DEF Init
<1> QED BY <1>2, <1>3, HomeIsAStream DEF Init, TypeOK, Steps, NoCall, NoThread

\* The updates of a call that the steps make.
LEMMA CallFacts ==
  ASSUME NEW c \in Calls
  PROVE  /\ [c EXCEPT !.failed = TRUE] \in Calls
         /\ [c EXCEPT !.wrote = TRUE] \in Calls
         /\ [c EXCEPT !.cleanup = TRUE] \in Calls
         /\ [c EXCEPT !.wrote = TRUE, !.failed = TRUE] \in Calls
         /\ NoCall \in Calls
         /\ c.capturing \in BOOLEAN /\ c.wrote \in BOOLEAN
         /\ c.failed \in BOOLEAN /\ c.cleanup \in BOOLEAN
         /\ c.wasRecorded \in BOOLEAN /\ c.previous \in Streams \cup {NoStream}
  BY DEF Calls, NoCall

\* One call changes.
LEMMA CallUpdate ==
  ASSUME call \in [Threads -> Calls], NEW t \in Threads, NEW c \in Calls,
         call' = [call EXCEPT ![t] = c]
  PROVE  call' \in [Threads -> Calls]
  OBVIOUS

\* Every step keeps the types.
LEMMA TypeStep == TypeOK /\ [Next]_vars => TypeOK'
<1> SUFFICES ASSUME TypeOK, [Next]_vars PROVE TypeOK'
  OBVIOUS
<1>q. queue \in [Streams -> Seq(Work)]
  BY DEF TypeOK
<1>p. pc \in [Threads -> Steps] /\ at \in [Threads -> Streams]
  BY DEF TypeOK
<1>c. call \in [Threads -> Calls]
  BY DEF TypeOK, Calls
<1>n. /\ version \in Nat /\ expected \in Nat /\ edits \in 0..MaxEdits
      /\ share \in {0, 1} /\ calls \in 0..MaxLaunches
  BY DEF TypeOK
<1>h. inStream \in Streams \cup {NoStream} /\ launching \in Threads \cup {NoThread}
  BY DEF TypeOK
<1>b. /\ uploaded \in BOOLEAN /\ bound \in BOOLEAN /\ tasksReady \in BOOLEAN
      /\ recorded \in BOOLEAN
  BY DEF TypeOK
<1>m. capturer \in [Streams -> Threads \cup {NoThread}]
  BY DEF TypeOK
<1>f. ASSUME /\ queue' \in [Streams -> Seq(Work)]
             /\ pc' \in [Threads -> Steps] /\ at' \in [Threads -> Streams]
             /\ call' \in [Threads -> Calls]
             /\ version' \in Nat /\ expected' \in Nat /\ edits' \in 0..MaxEdits
             /\ share' \in {0, 1} /\ calls' \in 0..MaxLaunches
             /\ inStream' \in Streams \cup {NoStream}
             /\ launching' \in Threads \cup {NoThread}
             /\ uploaded' \in BOOLEAN /\ bound' \in BOOLEAN
             /\ tasksReady' \in BOOLEAN /\ recorded' \in BOOLEAN
             /\ capturer' \in [Streams -> Threads \cup {NoThread}]
      PROVE  TypeOK'
  BY <1>f DEF TypeOK, Calls
<1>1. ASSUME NEW s \in Streams, NEW w \in Work, Queued(s, w)
      PROVE  queue' \in [Streams -> Seq(Work)]
  BY <1>1, <1>q, AppendFacts DEF Queued
<1>2. ASSUME NEW t \in Threads, NEW step \in Steps, Goto(t, step)
      PROVE  pc' \in [Threads -> Steps]
  BY <1>2, <1>p DEF Goto
<1>3. ASSUME NEW t \in Threads, NEW s \in Streams, Check(t, s) PROVE TypeOK'
  <2>1. calls' \in 0..MaxLaunches
    BY <1>3, <1>n, BoundsAreNatural DEF Check
  <2>2. pc' \in [Threads -> Steps] /\ at' \in [Threads -> Streams]
    BY <1>3, <1>p, <1>2 DEF Check, Steps
  <2>3. UNCHANGED <<device, user, host, call>>
    BY <1>3 DEF Check
  <2> QED BY <1>q, <1>c, <1>n, <1>h, <1>b, <1>m, <1>f, <2>1, <2>2, <2>3
          DEF device, user, host
<1>4. ASSUME NEW t \in Threads, Acquire(t) PROVE TypeOK'
  <2>1. pc' \in [Threads -> Steps]
    BY <1>4, <1>2 DEF Acquire, Leave, Steps
  <2>2. at' \in [Threads -> Streams] /\ launching' \in Threads \cup {NoThread}
    BY <1>4, <1>p, <1>h, HomeIsAStream DEF Acquire, Leave
  <2>3. UNCHANGED <<device, user, expected, tasksReady, inStream, recorded,
                    call, calls>>
    BY <1>4 DEF Acquire
  <2> QED BY <1>q, <1>c, <1>n, <1>h, <1>b, <1>m, <1>f, <2>1, <2>2, <2>3
          DEF device, user
<1>5. ASSUME NEW t \in Threads, Admit(t) PROVE TypeOK'
  <2>1. queue' \in [Streams -> Seq(Work)] /\ tasksReady' \in BOOLEAN
    <3>1. CASE UNCHANGED <<queue, tasksReady>>
      BY <3>1, <1>q, <1>b
    <3>2. CASE AwaitTasks(at[t])
      <4>1. at[t] \in Streams /\ "wait" \in Work
        BY <1>p DEF Work
      <4> QED BY <3>2, <4>1, <1>1, <1>q, <1>b DEF AwaitTasks
    <3> QED BY <1>5, <3>1, <3>2 DEF Admit
  <2>2. pc' \in [Threads -> Steps]
    BY <1>5, <1>2 DEF Admit, Steps
  <2>3. inStream' \in Streams \cup {NoStream} /\ recorded' \in BOOLEAN
    <3>1. \/ UNCHANGED <<inStream, recorded>>
          \/ inStream' = at[t] /\ recorded' = FALSE
      BY <1>5 DEF Admit
    <3> QED BY <3>1, <1>p, <1>h, <1>b
  <2>4. call' \in [Threads -> Calls]
    <3> DEFINE c == [call[t] EXCEPT !.capturing = (capturer[at[t]] = t),
                            !.previous = inStream, !.wasRecorded = recorded]
    <3>1. c \in Calls
      BY <1>c, <1>h, <1>b DEF Calls
    <3>2. UNCHANGED call \/ call' = [call EXCEPT ![t] = c]
      BY <1>5 DEF Admit
    <3> HIDE DEF c
    <3> QED BY <1>c, <3>1, <3>2
  <2>5. UNCHANGED <<uploaded, user, expected, launching, at, calls>>
    BY <1>5 DEF Admit
  <2> QED BY <1>p, <1>n, <1>h, <1>b, <1>m, <1>f, <2>1, <2>2, <2>3, <2>4, <2>5
          DEF user
<1>6. ASSUME NEW t \in Threads, Submit(t) PROVE queue' \in [Streams -> Seq(Work)]
  <2>1. at[t] \in Streams /\ "use" \in Work
    BY <1>p DEF Work
  <2> QED BY <1>6, <2>1, <1>1, <1>q DEF Submit
<1>7. ASSUME NEW t \in Threads, Reset(t) \/ Enqueue(t) PROVE TypeOK'
  <2>1. queue' \in [Streams -> Seq(Work)]
    <3>1. Submit(t) \/ UNCHANGED queue
      BY <1>7 DEF Reset, Enqueue
    <3> QED BY <3>1, <1>6, <1>q
  <2>2. pc' \in [Threads -> Steps]
    BY <1>7, <1>2 DEF Reset, Enqueue, Steps
  <2>3. call' \in [Threads -> Calls]
    <3>1. \/ UNCHANGED call
          \/ call' = [call EXCEPT ![t] = [call[t] EXCEPT !.failed = TRUE]]
          \/ call' = [call EXCEPT ![t] = [call[t] EXCEPT !.wrote = TRUE]]
          \/ call' = [call EXCEPT ![t] = [call[t] EXCEPT !.wrote = TRUE,
                                                         !.failed = TRUE]]
      BY <1>7 DEF Reset, Enqueue
    <3>2. call[t] \in Calls
      BY <1>c
    <3> QED BY <3>1, <3>2, <1>c, CallFacts, CallUpdate, Zenon
  <2>4. UNCHANGED <<uploaded, user, host, at, calls>>
    BY <1>7 DEF Reset, Enqueue
  <2> QED BY <1>p, <1>n, <1>h, <1>b, <1>m, <1>f, <2>1, <2>2, <2>3, <2>4
          DEF user, host
<1>8. ASSUME NEW t \in Threads, Fence(t) PROVE TypeOK'
  <2>1. queue' \in [Streams -> Seq(Work)]
    <3>1. CASE UNCHANGED queue
      BY <3>1, <1>q
    <3>2. CASE queue' = [Superseded EXCEPT ![at[t]] = Append(@, "fence")]
      <4>1. Superseded \in [Streams -> Seq(Work)]
        BY SupersededFacts, HomeIsAStream, <1>q
      <4>2. Append(Superseded[at[t]], "fence") \in Seq(Work)
        BY <1>p, <4>1, AppendFacts DEF Work
      <4> QED BY <3>2, <4>1, <4>2
    <3> QED BY <1>8, <3>1, <3>2 DEF Fence
  <2>2. pc' \in [Threads -> Steps]
    BY <1>8, <1>2 DEF Fence, Steps
  <2>3. recorded' \in BOOLEAN
    BY <1>8, <1>b DEF Fence
  <2>4. call' \in [Threads -> Calls]
    <3>1. \/ UNCHANGED call
          \/ call' = [call EXCEPT ![t] = [call[t] EXCEPT !.cleanup = TRUE]]
      BY <1>8 DEF Fence
    <3>2. call[t] \in Calls
      BY <1>c
    <3> QED BY <3>1, <3>2, <1>c, CallFacts, CallUpdate, Zenon
  <2>5. UNCHANGED <<uploaded, user, expected, tasksReady, launching, inStream,
                    at, calls>>
    BY <1>8 DEF Fence
  <2> QED BY <1>p, <1>n, <1>h, <1>b, <1>m, <1>f, <2>1, <2>2, <2>3, <2>4, <2>5
          DEF user
<1>9. ASSUME NEW t \in Threads, Advance(t) PROVE TypeOK'
  <2>1. pc' \in [Threads -> Steps]
    BY <1>9, <1>2 DEF Advance, Steps
  <2>2. version' \in Nat
    BY <1>9, <1>n DEF Advance
  <2>3. call' \in [Threads -> Calls]
    <3>1. \/ UNCHANGED call
          \/ call' = [call EXCEPT ![t] = [call[t] EXCEPT !.cleanup = TRUE]]
      BY <1>9 DEF Advance
    <3>2. call[t] \in Calls
      BY <1>c
    <3> QED BY <3>1, <3>2, <1>c, CallFacts, CallUpdate, Zenon
  <2>4. UNCHANGED <<device, capturer, share, edits, bound, host, at, calls>>
    BY <1>9 DEF Advance
  <2> QED BY <1>q, <1>p, <1>n, <1>h, <1>b, <1>m, <1>f, <2>1, <2>2, <2>3, <2>4
          DEF device, host
<1>10. ASSUME NEW t \in Threads, StepVersion(t) PROVE TypeOK'
  <2>1. pc' \in [Threads -> Steps] /\ expected' \in Nat
    BY <1>10, <1>2, <1>n DEF StepVersion, Steps
  <2>2. UNCHANGED <<device, user, tasksReady, launching, inStream, recorded,
                    at, call, calls>>
    BY <1>10 DEF StepVersion
  <2> QED BY <1>q, <1>p, <1>c, <1>n, <1>h, <1>b, <1>m, <1>f, <2>1, <2>2
          DEF device, user
<1>11. ASSUME NEW t \in Threads, Release(t) PROVE TypeOK'
  <2>1. pc' \in [Threads -> Steps]
    BY <1>11, <1>2 DEF Release, Leave, Steps
  <2>2. at' \in [Threads -> Streams] /\ launching' \in Threads \cup {NoThread}
    BY <1>11, <1>p, HomeIsAStream DEF Release, Leave
  <2>3. call' \in [Threads -> Calls]
    BY <1>11, <1>c, CallFacts DEF Release
  <2>4. inStream' \in Streams \cup {NoStream} /\ recorded' \in BOOLEAN
    BY <1>11, <1>c, <1>h, <1>b, CallFacts DEF Release
  <2>5. UNCHANGED <<device, user, expected, tasksReady, calls>>
    BY <1>11 DEF Release
  <2> QED BY <1>q, <1>n, <1>b, <1>m, <1>f, <2>1, <2>2, <2>3, <2>4, <2>5
          DEF device, user
<1>12. ASSUME NEW t \in Threads, NEW s \in Streams,
              BeginCapture(t, s) \/ EndCapture(t, s)
       PROVE  TypeOK'
  <2>1. capturer' \in [Streams -> Threads \cup {NoThread}]
    BY <1>12, <1>m DEF BeginCapture, EndCapture
  <2>2. UNCHANGED <<device, version, share, edits, bound, host, local>>
    BY <1>12 DEF BeginCapture, EndCapture
  <2> QED BY <1>q, <1>p, <1>c, <1>n, <1>h, <1>b, <1>f, <2>1, <2>2
          DEF device, host, local
<1>13. ASSUME NEW s \in Streams, Run(s) PROVE TypeOK'
  <2>1. queue' \in [Streams -> Seq(Work)]
    BY <1>13, <1>q, TailFacts DEF Run
  <2>2. uploaded' \in BOOLEAN
    BY <1>13 DEF Run
  <2>3. UNCHANGED <<user, host, local>>
    BY <1>13 DEF Run
  <2> QED BY <1>p, <1>c, <1>n, <1>h, <1>b, <1>m, <1>f, <2>1, <2>2, <2>3
          DEF user, host, local
<1>14. CASE WriteOffsets \/ Rebind
  <2>1. edits' \in 0..MaxEdits /\ version' \in Nat
    BY <1>14, <1>n, BoundsAreNatural DEF WriteOffsets, Rebind
  <2>2. bound' \in BOOLEAN
    BY <1>14, <1>b DEF WriteOffsets, Rebind
  <2>3. UNCHANGED <<device, capturer, share, host, local>>
    BY <1>14 DEF WriteOffsets, Rebind
  <2> QED BY <1>q, <1>p, <1>c, <1>n, <1>h, <1>b, <1>m, <1>f, <2>1, <2>2, <2>3
          DEF device, host, local
<1>15. CASE UNCHANGED vars
  BY <1>15 DEF vars, TypeOK
<1> QED BY <1>3, <1>4, <1>5, <1>7, <1>8, <1>9, <1>10, <1>11, <1>12,
           <1>13, <1>14, <1>15 DEF Next, Step

-------------------------------------------------------------------------------
(* The launch lock. *)

Inside == {"admit", "reset", "enqueue", "fence", "advance", "step", "release"}

\* The holder of the launch lock is the one thread past acquire(); a thread that
\* has not been admitted keeps nothing.
HolderInv ==
  \A t \in Threads :
    /\ pc[t] \in Inside <=> launching = t
    /\ pc[t] \in {"idle", "acquire", "admit"} => call[t] = NoCall

\* At first nobody holds the lock.
LEMMA HolderInit == Init => HolderInv
  BY NoThreadIsNone DEF Init, HolderInv, Inside

\* Every step keeps what the holder of the lock has.
LEMMA HolderStep == TypeOK /\ HolderInv /\ [Next]_vars => HolderInv'
<1> SUFFICES ASSUME TypeOK, HolderInv, [Next]_vars PROVE HolderInv'
  OBVIOUS
<1>p. pc \in [Threads -> Steps] /\ call \in [Threads -> Calls]
  BY DEF TypeOK, Calls
<1>1. ASSUME NEW t \in Threads, NEW s \in Streams, Check(t, s) PROVE HolderInv'
  BY <1>1, <1>p DEF Check, Goto, HolderInv, Inside, host
<1>2. ASSUME NEW t \in Threads, Acquire(t) PROVE HolderInv'
  BY <1>2, <1>p, NoThreadIsNone DEF Acquire, Goto, Leave, HolderInv, Inside
<1>3. ASSUME NEW t \in Threads, NEW from \in Inside, NEW to \in Inside \ {"admit"},
             pc[t] = from, Goto(t, to), UNCHANGED launching,
             \A u \in Threads \ {t} : call'[u] = call[u]
      PROVE  HolderInv'
  BY <1>3, <1>p DEF Goto, HolderInv, Inside
<1>4. ASSUME NEW t \in Threads,
             \/ Admit(t) \/ Reset(t) \/ Enqueue(t) \/ Fence(t) \/ Advance(t)
             \/ StepVersion(t)
      PROVE  HolderInv'
  <2>1. UNCHANGED launching
    BY <1>4 DEF Admit, Reset, Enqueue, Fence, Advance, StepVersion, host
  <2>2. \A u \in Threads \ {t} : call'[u] = call[u]
    BY <1>4, <1>p DEF Admit, Reset, Enqueue, Fence, Advance, StepVersion
  <2>3. pc[t] \in Inside /\ \E to \in Inside \ {"admit"} : Goto(t, to)
    BY <1>4 DEF Admit, Reset, Enqueue, Fence, Advance, StepVersion, Inside
  <2> QED BY <1>3, <2>1, <2>2, <2>3
<1>5. ASSUME NEW t \in Threads, Release(t) PROVE HolderInv'
  BY <1>5, <1>p, NoThreadIsNone DEF Release, Goto, Leave, HolderInv, Inside
<1>6. CASE UNCHANGED <<pc, launching, call>>
  BY <1>6 DEF HolderInv
<1>7. ASSUME \/ \E t \in Threads, s \in Streams : BeginCapture(t, s) \/ EndCapture(t, s)
             \/ \E s \in Streams : Run(s)
             \/ WriteOffsets \/ Rebind \/ UNCHANGED vars
      PROVE  UNCHANGED <<pc, launching, call>>
  BY <1>7 DEF BeginCapture, EndCapture, Run, WriteOffsets, Rebind, vars, host,
              local
<1> QED BY <1>1, <1>2, <1>4, <1>5, <1>6, <1>7 DEF Next, Step

-------------------------------------------------------------------------------
(* The upload of the task records. *)

\* While the records are not uploaded, the upload and the record of its event
\* head the queue of the stream it was made on, and a wait for that event is
\* queued before every use of the records and by every launch about to use them.
Waiting ==
  /\ ~tasksReady
  /\ Len(queue[Home]) >= 2
  /\ queue[Home][1] = "upload" /\ queue[Home][2] = "ready"
  /\ \A s \in Streams : \A i \in 1..Len(queue[s]) :
       queue[s][i] = "use" => \E j \in 1..(i - 1) : queue[s][j] = "wait"
  /\ \A t \in Threads : pc[t] \in {"reset", "enqueue"} =>
       \E j \in 1..Len(queue[at[t]]) : queue[at[t]][j] = "wait"

TasksInv == uploaded \/ Waiting

\* At first the upload of the task records is queued on the home stream alone.
LEMMA TasksInit == Init => TasksInv
<1> SUFFICES ASSUME Init PROVE Waiting
  BY DEF TasksInv
<1>1. \A s \in Streams : queue[s] = IF s = Home THEN <<"upload", "ready">> ELSE <<>>
  BY DEF Init
<1>2. \A s \in Streams : \A i \in 1..Len(queue[s]) : queue[s][i] # "use"
  BY <1>1
<1>3. /\ Len(queue[Home]) >= 2
      /\ queue[Home][1] = "upload" /\ queue[Home][2] = "ready"
  BY <1>1, HomeIsAStream
<1> QED BY <1>2, <1>3 DEF Init, Waiting

\* Every step keeps each use behind the upload of the task records.
LEMMA TasksStep == TypeOK /\ TasksInv /\ [Next]_vars => TasksInv'
<1> SUFFICES ASSUME TypeOK, TasksInv, [Next]_vars, ~uploaded' PROVE Waiting'
  BY DEF TasksInv
<1>q. queue \in [Streams -> Seq(Work)] /\ \A s \in Streams : Len(queue[s]) \in Nat
  BY DEF TypeOK
<1>p. pc \in [Threads -> Steps] /\ at \in [Threads -> Streams]
  BY DEF TypeOK
<1>u. ~uploaded
  BY DEF Next, Step, Check, Acquire, Admit, Reset, Enqueue, Fence, Advance,
         StepVersion, Release, BeginCapture, EndCapture, Run, WriteOffsets,
         Rebind, vars, device
<1>w. Waiting
  BY <1>u DEF TasksInv
<1>r. ~Done("ready")
  BY <1>q, <1>w, HomeIsAStream DEF Done, Contains, Waiting
<1>0. ASSUME UNCHANGED <<queue, tasksReady>>,
             \A t \in Threads : pc'[t] \in {"reset", "enqueue"} =>
               pc[t] \in {"reset", "enqueue"} /\ at'[t] = at[t]
      PROVE  Waiting'
  BY <1>0, <1>w DEF Waiting
<1>1. ASSUME NEW s \in Streams, NEW w \in {"wait", "use"}, Queued(s, w),
             w = "use" => \E j \in 1..Len(queue[s]) : queue[s][j] = "wait",
             UNCHANGED <<tasksReady, at>>,
             \A t \in Threads : pc'[t] \in {"reset", "enqueue"} =>
               pc[t] \in {"reset", "enqueue"} \/ (at[t] = s /\ w = "wait")
      PROVE  Waiting'
  <2> DEFINE a == Append(queue[s], w)
  <2>1. queue' = [queue EXCEPT ![s] = a]
    BY <1>1 DEF Queued
  <2>2. /\ Len(a) = Len(queue[s]) + 1 /\ a[Len(queue[s]) + 1] = w
        /\ \A i \in 1..Len(queue[s]) : a[i] = queue[s][i]
    BY <1>q, AppendFacts DEF Work
  <2> HIDE DEF a
  <2>3. \A r \in Streams : queue'[r] = IF r = s THEN a ELSE queue[r]
    BY <1>q, <2>1
  <2>4. /\ Len(queue'[Home]) >= 2
        /\ queue'[Home][1] = "upload" /\ queue'[Home][2] = "ready"
    BY <1>q, <1>w, <2>2, <2>3, HomeIsAStream DEF Waiting
  <2>5. ASSUME NEW r \in Streams, NEW i \in 1..Len(queue'[r]), queue'[r][i] = "use"
        PROVE  \E j \in 1..(i - 1) : queue'[r][j] = "wait"
    <3>1. CASE r # s
      BY <1>w, <2>3, <2>5, <3>1 DEF Waiting
    <3>2. CASE r = s /\ i <= Len(queue[s])
      <4>1. PICK j \in 1..(i - 1) : queue[s][j] = "wait"
        BY <1>q, <1>w, <2>2, <2>3, <2>5, <3>2 DEF Waiting
      <4> QED BY <1>q, <2>2, <2>3, <3>2, <4>1
    <3>3. CASE r = s /\ i = Len(queue[s]) + 1
      <4>1. PICK j \in 1..Len(queue[s]) : queue[s][j] = "wait"
        BY <1>1, <2>2, <2>3, <2>5, <3>3
      <4> QED BY <1>q, <2>2, <2>3, <3>3, <4>1
    <3> QED BY <1>q, <2>2, <2>3, <3>1, <3>2, <3>3
  <2>6. ASSUME NEW t \in Threads, pc'[t] \in {"reset", "enqueue"}
        PROVE  \E j \in 1..Len(queue'[at[t]]) : queue'[at[t]][j] = "wait"
    <3>1. CASE at[t] = s /\ w = "wait"
      BY <1>q, <2>2, <2>3, <3>1
    <3>2. CASE pc[t] \in {"reset", "enqueue"}
      <4>1. PICK j \in 1..Len(queue[at[t]]) : queue[at[t]][j] = "wait"
        BY <1>w, <3>2 DEF Waiting
      <4>2. at[t] \in Streams
        BY <1>p
      <4> QED BY <1>q, <2>2, <2>3, <4>1, <4>2
    <3> QED BY <1>1, <2>6, <3>1, <3>2
  <2> QED BY <1>1, <1>w, <2>4, <2>5, <2>6 DEF Waiting
<1>2. ASSUME NEW t \in Threads, Admit(t) PROVE Waiting'
  <2>1. UNCHANGED at /\ \A u \in Threads \ {t} : pc'[u] = pc[u]
    BY <1>2, <1>p DEF Admit, Goto
  <2>2. CASE UNCHANGED <<queue, tasksReady>> /\ pc'[t] = "release"
    BY <1>0, <2>1, <2>2
  <2>3. CASE AwaitTasks(at[t])
    <3>1. Queued(at[t], "wait") /\ UNCHANGED tasksReady
      BY <1>w, <1>r, <2>3 DEF AwaitTasks, Waiting
    <3>2. at[t] \in Streams
      BY <1>p
    <3> QED BY <1>1, <2>1, <3>1, <3>2
  <2> QED BY <1>2, <1>p, <2>2, <2>3 DEF Admit, Goto
<1>3. ASSUME NEW t \in Threads, Reset(t) \/ Enqueue(t) PROVE Waiting'
  <2>1. pc[t] \in {"reset", "enqueue"}
    BY <1>3 DEF Reset, Enqueue
  <2>2. UNCHANGED <<tasksReady, at>> /\ \A u \in Threads \ {t} : pc'[u] = pc[u]
    BY <1>3, <1>p DEF Reset, Enqueue, Goto, host
  <2>3. UNCHANGED queue \/ Queued(at[t], "use")
    BY <1>3 DEF Reset, Enqueue, Submit
  <2>4. at[t] \in Streams /\ \E j \in 1..Len(queue[at[t]]) : queue[at[t]][j] = "wait"
    BY <1>w, <1>p, <2>1 DEF Waiting
  <2>5. CASE UNCHANGED queue
    BY <1>0, <2>1, <2>2, <2>5
  <2>6. CASE Queued(at[t], "use")
    BY <1>1, <2>1, <2>2, <2>4, <2>6
  <2> QED BY <2>3, <2>5, <2>6
<1>4. ASSUME NEW t \in Threads, Fence(t) PROVE Waiting'
  <2>1. /\ UNCHANGED <<tasksReady, at>> /\ \A u \in Threads \ {t} : pc'[u] = pc[u]
        /\ pc'[t] \notin {"reset", "enqueue"}
    BY <1>4, <1>p DEF Fence, Goto
  <2>2. CASE UNCHANGED queue
    BY <1>0, <2>1, <2>2
  <2>3. CASE queue' = [Superseded EXCEPT ![at[t]] = Append(@, "fence")]
    <3> DEFINE s == at[t]
               a == Append(Superseded[s], "fence")
    <3>1. s \in Streams /\ Superseded \in [Streams -> Seq(Work)]
      BY <1>p, <1>q, SupersededFacts
    <3>2. /\ Len(a) = Len(queue[s]) + 1 /\ a[Len(queue[s]) + 1] = "fence"
          /\ \A i \in 1..Len(queue[s]) : a[i] = Superseded[s][i]
      BY <3>1, <1>q, AppendFacts, SupersededFacts DEF Work
    <3>3. \A r \in Streams : queue'[r] = IF r = s THEN a ELSE Superseded[r]
      BY <2>3, <3>1
    <3> HIDE DEF s, a
    <3>4. ASSUME NEW r \in Streams
          PROVE  /\ Len(queue'[r]) >= Len(queue[r]) /\ Len(queue'[r]) \in Nat
                 /\ \A i \in 1..Len(queue[r]) :
                      queue'[r][i] = IF queue[r][i] = "fence" THEN "past"
                                                              ELSE queue[r][i]
                 /\ \A i \in 1..Len(queue'[r]) :
                      queue'[r][i] = "use" => i \in 1..Len(queue[r])
      <4>1. /\ Len(Superseded[r]) = Len(queue[r]) /\ Len(queue[r]) \in Nat
            /\ \A i \in 1..Len(queue[r]) :
                 Superseded[r][i] = IF queue[r][i] = "fence" THEN "past"
                                                             ELSE queue[r][i]
        BY <1>q, SupersededFacts
      <4> QED BY <3>2, <3>3, <4>1
    <3>5. /\ Len(queue'[Home]) >= 2
          /\ queue'[Home][1] = "upload" /\ queue'[Home][2] = "ready"
      BY <1>q, <1>w, <3>4, HomeIsAStream DEF Waiting
    <3>6. ASSUME NEW r \in Streams, NEW i \in 1..Len(queue'[r]), queue'[r][i] = "use"
          PROVE  \E j \in 1..(i - 1) : queue'[r][j] = "wait"
      <4>1. i \in 1..Len(queue[r]) /\ queue[r][i] = "use"
        BY <3>4, <3>6
      <4>2. PICK j \in 1..(i - 1) : queue[r][j] = "wait"
        BY <1>w, <4>1 DEF Waiting
      <4> QED BY <1>q, <3>4, <4>1, <4>2
    <3>7. ASSUME NEW u \in Threads, pc'[u] \in {"reset", "enqueue"}
          PROVE  \E j \in 1..Len(queue'[at[u]]) : queue'[at[u]][j] = "wait"
      <4>1. pc[u] \in {"reset", "enqueue"} /\ at[u] \in Streams
        BY <1>p, <2>1, <3>7
      <4>2. PICK j \in 1..Len(queue[at[u]]) : queue[at[u]][j] = "wait"
        BY <1>w, <4>1 DEF Waiting
      <4> QED BY <1>q, <3>4, <4>1, <4>2
    <3> QED BY <1>w, <2>1, <3>5, <3>6, <3>7 DEF Waiting
  <2> QED BY <1>4, <2>2, <2>3 DEF Fence
<1>5. ASSUME NEW s \in Streams, Run(s) PROVE Waiting'
  <2>1. Head(queue[s]) # "upload" /\ Head(queue[s]) # "wait" /\ queue[s] # <<>>
    BY <1>5, <1>r DEF Run
  <2> DEFINE a == Tail(queue[s])
  <2>2. /\ queue[s][1] # "upload" /\ queue[s][1] # "wait"
        /\ Len(a) = Len(queue[s]) - 1
        /\ \A i \in 1..(Len(queue[s]) - 1) : a[i] = queue[s][i + 1]
    BY <1>q, <2>1, TailFacts
  <2>3. s # Home
    BY <1>w, <2>2 DEF Waiting
  <2>4. \A r \in Streams : queue'[r] = IF r = s THEN a ELSE queue[r]
    BY <1>5, <1>q DEF Run
  <2> HIDE DEF a
  <2>5. UNCHANGED <<tasksReady, at, pc>>
    BY <1>5 DEF Run, host, local
  <2>6. ASSUME NEW r \in Streams, NEW i \in 1..Len(queue'[r]), queue'[r][i] = "use"
        PROVE  \E j \in 1..(i - 1) : queue'[r][j] = "wait"
    <3>1. CASE r # s
      BY <1>w, <2>4, <2>6, <3>1 DEF Waiting
    <3>2. CASE r = s
      <4>1. i + 1 \in 1..Len(queue[s]) /\ queue[s][i + 1] = "use"
        BY <1>q, <2>2, <2>4, <2>6, <3>2
      <4>2. PICK j \in 1..i : queue[s][j] = "wait"
        BY <1>q, <1>w, <4>1 DEF Waiting
      <4>3. j - 1 \in 1..(i - 1) /\ a[j - 1] = "wait"
        BY <1>q, <2>2, <4>1, <4>2
      <4> QED BY <2>4, <3>2, <4>3
    <3> QED BY <3>1, <3>2
  <2>7. ASSUME NEW t \in Threads, pc[t] \in {"reset", "enqueue"}
        PROVE  \E j \in 1..Len(queue'[at[t]]) : queue'[at[t]][j] = "wait"
    <3>1. PICK j \in 1..Len(queue[at[t]]) : queue[at[t]][j] = "wait"
      BY <1>w, <2>7 DEF Waiting
    <3>2. at[t] \in Streams
      BY <1>p
    <3>3. CASE at[t] # s
      BY <2>4, <3>1, <3>2, <3>3
    <3>4. CASE at[t] = s
      <4>1. j - 1 \in 1..Len(a) /\ a[j - 1] = "wait"
        BY <1>q, <2>2, <3>1, <3>4
      <4> QED BY <2>4, <3>4, <4>1
    <3> QED BY <3>3, <3>4
  <2> QED BY <1>w, <2>3, <2>4, <2>5, <2>6, <2>7, HomeIsAStream DEF Waiting
<1>6. ASSUME NEW t \in Threads, NEW s \in Streams,
             Check(t, s) \/ BeginCapture(t, s) \/ EndCapture(t, s)
      PROVE  Waiting'
  BY <1>6, <1>0, <1>p DEF Check, BeginCapture, EndCapture, Goto, device, host, local
<1>7. ASSUME NEW t \in Threads,
             Acquire(t) \/ Advance(t) \/ StepVersion(t) \/ Release(t)
      PROVE  Waiting'
  BY <1>7, <1>0, <1>p
     DEF Acquire, Advance, StepVersion, Release, Goto, Leave, device, host
<1>8. CASE WriteOffsets \/ Rebind \/ UNCHANGED vars
  BY <1>8, <1>0 DEF WriteOffsets, Rebind, vars, device, host, local
<1> QED BY <1>2, <1>3, <1>4, <1>5, <1>6, <1>7, <1>8 DEF Next, Step

\* No kernel runs before the task records were uploaded.
LEMMA TasksFirst == TypeOK /\ TasksInv => TasksUploadedFirst
<1> SUFFICES ASSUME TypeOK, TasksInv, NEW s \in Streams, queue[s] # <<>>,
                    Head(queue[s]) = "use", ~uploaded
             PROVE  FALSE
  BY DEF TasksUploadedFirst
<1>1. queue[s] \in Seq(Work)
  BY DEF TypeOK
<1>2. 1 \in 1..Len(queue[s]) /\ queue[s][1] = "use"
  BY <1>1, TailFacts
<1> QED BY <1>2 DEF TasksInv, Waiting

-------------------------------------------------------------------------------
(* The versions. *)

\* At first the versions are in step.
LEMMA VersionsInit == Init => VersionsInStep
<1> SUFFICES ASSUME Init PROVE VersionsInStep
  OBVIOUS
<1>1. Stepping = {}
  BY DEF Init, Stepping
<1>2. Cardinality(Stepping) = 0
  BY <1>1, FS_EmptySet
<1> QED BY <1>2 DEF Init, VersionsInStep

\* Only the holder of the launch lock is between the two steps.
LEMMA AtMostOneStepping ==
  ASSUME TypeOK, HolderInv, NEW t \in Threads, pc[t] \in Inside
  PROVE  Stepping = IF pc[t] = "step" THEN {t} ELSE {}
  BY DEF HolderInv, Stepping, Inside

\* Every step keeps the versions in step.
LEMMA VersionsStep ==
  TypeOK /\ HolderInv /\ VersionsInStep /\ [Next]_vars => VersionsInStep'
<1> SUFFICES ASSUME TypeOK, HolderInv, VersionsInStep, [Next]_vars
             PROVE  VersionsInStep'
  OBVIOUS
<1>n. /\ version \in Nat /\ expected \in Nat /\ edits \in Nat /\ share \in {0, 1}
      /\ pc \in [Threads -> Steps]
  BY BoundsAreNatural DEF TypeOK
<1>0. ASSUME UNCHANGED <<version, expected, edits, share>>, Stepping' = Stepping
      PROVE  VersionsInStep'
  BY <1>0 DEF VersionsInStep
<1>1. ASSUME NEW t \in Threads, Advance(t) PROVE VersionsInStep'
  <2>1. Stepping = {}
    BY <1>1, AtMostOneStepping DEF Advance, Inside
  <2>2. UNCHANGED <<expected, edits, share>>
    BY <1>1 DEF Advance, host
  <2>3. CASE pc' = [pc EXCEPT ![t] = "step"] /\ version' = version + share
    <3>1. Stepping' = {t}
      BY <1>n, <2>1, <2>3 DEF Stepping
    <3>2. Cardinality(Stepping) = 0 /\ Cardinality(Stepping') = 1
      BY <2>1, <3>1, FS_EmptySet, FS_Singleton
    <3> QED BY <1>n, <2>2, <2>3, <3>2 DEF VersionsInStep
  <2>4. CASE pc' = [pc EXCEPT ![t] = "release"] /\ UNCHANGED version
    <3>1. Stepping' = Stepping
      BY <1>n, <2>1, <2>4 DEF Stepping
    <3> QED BY <1>0, <2>2, <2>4, <3>1
  <2> QED BY <1>1, <2>3, <2>4 DEF Advance, Goto
<1>2. ASSUME NEW t \in Threads, StepVersion(t) PROVE VersionsInStep'
  <2>1. Stepping = {t}
    BY <1>2, AtMostOneStepping DEF StepVersion, Inside
  <2>2. Stepping' = {}
    BY <1>2, <1>n, <2>1 DEF StepVersion, Goto, Stepping
  <2>3. Cardinality(Stepping) = 1 /\ Cardinality(Stepping') = 0
    BY <2>1, <2>2, FS_EmptySet, FS_Singleton
  <2>4. expected' = expected + share /\ UNCHANGED <<version, edits, share>>
    BY <1>2 DEF StepVersion, user
  <2> QED BY <1>n, <2>3, <2>4 DEF VersionsInStep
<1>3. CASE WriteOffsets
  <2>1. Stepping' = Stepping
    BY <1>3 DEF WriteOffsets, local, Stepping
  <2>2. /\ version' = version + 1 /\ edits' = edits + 1
        /\ UNCHANGED <<expected, share>>
    BY <1>3 DEF WriteOffsets, host
  <2>3. Cardinality(Stepping) \in Nat
    <3>1. \/ Stepping = {} \/ \E t \in Threads : Stepping = {t}
      BY AtMostOneStepping DEF Stepping, Inside
    <3> QED BY <3>1, FS_EmptySet, FS_Singleton
  <2> QED BY <1>n, <2>1, <2>2, <2>3 DEF VersionsInStep
<1>4. ASSUME NEW t \in Threads, NEW from \in Steps \ {"step"},
             NEW to \in Steps \ {"step"}, pc[t] = from, Goto(t, to)
      PROVE  Stepping' = Stepping
  BY <1>4, <1>n DEF Goto, Stepping
<1>5. ASSUME NEW t \in Threads,
             \/ Acquire(t) \/ Admit(t) \/ Reset(t) \/ Enqueue(t) \/ Fence(t)
             \/ Release(t)
      PROVE  VersionsInStep'
  <2>1. UNCHANGED <<version, expected, edits, share>>
    BY <1>5 DEF Acquire, Admit, Reset, Enqueue, Fence, Release, user, host
  <2>2. /\ pc[t] \in Steps \ {"step"}
        /\ UNCHANGED pc \/ \E to \in Steps \ {"step"} : Goto(t, to)
    BY <1>5 DEF Acquire, Admit, Reset, Enqueue, Fence, Release, Leave, Steps
  <2>3. Stepping' = Stepping
    BY <1>4, <2>2 DEF Stepping
  <2> QED BY <1>0, <2>1, <2>3
<1>6. ASSUME NEW t \in Threads, NEW s \in Streams, Check(t, s) PROVE VersionsInStep'
  <2>1. UNCHANGED <<version, expected, edits, share>>
    BY <1>6 DEF Check, user, host
  <2>2. pc[t] = "idle" /\ (UNCHANGED pc \/ Goto(t, "acquire"))
    BY <1>6 DEF Check
  <2>3. Stepping' = Stepping
    BY <1>4, <2>2 DEF Stepping, Steps
  <2> QED BY <1>0, <2>1, <2>3
<1>7. ASSUME \/ \E t \in Threads, s \in Streams : BeginCapture(t, s) \/ EndCapture(t, s)
             \/ \E s \in Streams : Run(s)
             \/ Rebind \/ UNCHANGED vars
      PROVE  VersionsInStep'
  <2>1. UNCHANGED <<version, expected, edits, share, pc>>
    BY <1>7 DEF BeginCapture, EndCapture, Run, Rebind, vars, user, host, local
  <2> QED BY <1>0, <2>1 DEF Stepping
<1> QED BY <1>1, <1>2, <1>3, <1>5, <1>6, <1>7 DEF Next, Step

-------------------------------------------------------------------------------
(* The owner of the scratch. *)

\* Every use in q is followed by the record of the fence.
Behind(q) ==
  \A i \in 1..Len(q) : q[i] = "use" =>
    \E j \in 1..Len(q) : j > i /\ q[j] = "fence"

\* Only the stream o has unfinished launches and, when fenced, the completion
\* event is recorded behind all of them.
OwnedBy(qs, o, fenced) ==
  /\ \A s \in Streams : s # o => ~Contains(qs[s], "use")
  /\ fenced => \A s \in Streams : Behind(qs[s])

\* The end of the first work of a queue leaves the rest with its owner.
LEMMA OwnedTail ==
  ASSUME NEW qs \in [Streams -> Seq(Work)], NEW o, NEW fenced \in BOOLEAN,
         NEW s \in Streams, qs[s] # <<>>, OwnedBy(qs, o, fenced)
  PROVE  OwnedBy([qs EXCEPT ![s] = Tail(@)], o, fenced)
<1> DEFINE a == Tail(qs[s])
           ps == [qs EXCEPT ![s] = a]
<1>1. /\ Len(qs[s]) \in Nat \ {0} /\ Len(a) = Len(qs[s]) - 1
      /\ \A i \in 1..(Len(qs[s]) - 1) : a[i] = qs[s][i + 1]
  BY TailFacts
<1>2. \A r \in Streams : ps[r] = IF r = s THEN a ELSE qs[r]
  OBVIOUS
<1> HIDE DEF a, ps
<1>3. ASSUME NEW i \in 1..Len(a), a[i] = "use"
      PROVE  i + 1 \in 1..Len(qs[s]) /\ qs[s][i + 1] = "use"
  BY <1>1, <1>3
<1>4. ASSUME NEW r \in Streams, r # o PROVE ~Contains(ps[r], "use")
  BY <1>2, <1>3, <1>4 DEF OwnedBy, Contains
<1>5. ASSUME fenced, NEW r \in Streams PROVE Behind(ps[r])
  <2>1. CASE r # s
    BY <1>2, <1>5, <2>1 DEF OwnedBy
  <2>2. CASE r = s
    <3> SUFFICES ASSUME NEW i \in 1..Len(a), a[i] = "use"
                 PROVE  \E j \in 1..Len(a) : j > i /\ a[j] = "fence"
      BY <1>2, <2>2 DEF Behind
    <3>1. PICK j \in 1..Len(qs[s]) : j > i + 1 /\ qs[s][j] = "fence"
      BY <1>3, <1>5 DEF OwnedBy, Behind
    <3>2. j - 1 \in 1..Len(a) /\ j - 1 > i /\ a[j - 1] = "fence"
      BY <1>1, <3>1
    <3> QED BY <3>2
  <2> QED BY <2>1, <2>2
<1> QED BY <1>4, <1>5 DEF OwnedBy, ps, a

\* More work on the stream of the owner keeps the owner.
LEMMA OwnedAppend ==
  ASSUME NEW qs \in [Streams -> Seq(Work)], NEW o, NEW fenced \in BOOLEAN,
         NEW s \in Streams, NEW w \in Work,
         OwnedBy(qs, o, fenced), w = "use" => s = o /\ ~fenced
  PROVE  OwnedBy([qs EXCEPT ![s] = Append(@, w)], o, fenced)
<1> DEFINE a == Append(qs[s], w)
           ps == [qs EXCEPT ![s] = a]
<1>1. /\ Len(qs[s]) \in Nat /\ Len(a) = Len(qs[s]) + 1 /\ a[Len(qs[s]) + 1] = w
      /\ \A i \in 1..Len(qs[s]) : a[i] = qs[s][i]
  BY AppendFacts
<1>2. \A r \in Streams : ps[r] = IF r = s THEN a ELSE qs[r]
  OBVIOUS
<1> HIDE DEF a, ps
<1>3. ASSUME NEW i \in 1..Len(a), a[i] = "use", w # "use"
      PROVE  i \in 1..Len(qs[s]) /\ qs[s][i] = "use"
  BY <1>1, <1>3
<1>4. ASSUME NEW r \in Streams, r # o PROVE ~Contains(ps[r], "use")
  BY <1>2, <1>3, <1>4 DEF OwnedBy, Contains
<1>5. ASSUME fenced, NEW r \in Streams PROVE Behind(ps[r])
  <2>1. CASE r # s
    BY <1>2, <1>5, <2>1 DEF OwnedBy
  <2>2. CASE r = s
    <3> SUFFICES ASSUME NEW i \in 1..Len(a), a[i] = "use"
                 PROVE  \E j \in 1..Len(a) : j > i /\ a[j] = "fence"
      BY <1>2, <2>2 DEF Behind
    <3>1. i \in 1..Len(qs[s]) /\ qs[s][i] = "use"
      BY <1>3, <1>5
    <3>2. PICK j \in 1..Len(qs[s]) : j > i /\ qs[s][j] = "fence"
      BY <1>5, <3>1 DEF OwnedBy, Behind
    <3> QED BY <1>1, <3>2
  <2> QED BY <2>1, <2>2
<1> QED BY <1>4, <1>5 DEF OwnedBy, ps, a

\* An event recorded behind the work of the owner fences it.
LEMMA OwnedFence ==
  ASSUME queue \in [Streams -> Seq(Work)], NEW s \in Streams,
         OwnedBy(queue, s, FALSE)
  PROVE  OwnedBy([Superseded EXCEPT ![s] = Append(@, "fence")], s, TRUE)
<1> DEFINE a == Append(Superseded[s], "fence")
           ps == [Superseded EXCEPT ![s] = a]
<1>0. Superseded \in [Streams -> Seq(Work)] /\ "fence" \in Work
  BY SupersededFacts DEF Work
<1>1. \A r \in Streams :
        /\ Len(Superseded[r]) = Len(queue[r]) /\ Len(queue[r]) \in Nat
        /\ \A i \in 1..Len(queue[r]) :
             Superseded[r][i] = "use" => queue[r][i] = "use"
  BY SupersededFacts
<1>2. /\ Len(a) = Len(queue[s]) + 1 /\ a[Len(queue[s]) + 1] = "fence"
      /\ \A i \in 1..Len(queue[s]) : a[i] = Superseded[s][i]
  BY <1>0, <1>1, AppendFacts
<1>3. \A r \in Streams : ps[r] = IF r = s THEN a ELSE Superseded[r]
  BY <1>0
<1> HIDE DEF a, ps
<1>4. ASSUME NEW r \in Streams, r # s, NEW i \in 1..Len(ps[r]) PROVE ps[r][i] # "use"
  BY <1>1, <1>3, <1>4 DEF OwnedBy, Contains
<1>5. ASSUME NEW r \in Streams PROVE Behind(ps[r])
  <2>1. CASE r # s
    BY <1>4, <2>1 DEF Behind
  <2>2. CASE r = s
    <3>1. Len(queue[s]) \in Nat
      BY <1>1
    <3>2. \A i \in 1..Len(a) : a[i] = "use" => i < Len(a)
      BY <1>2, <3>1
    <3> QED BY <1>2, <1>3, <2>2, <3>1, <3>2 DEF Behind
  <2> QED BY <2>1, <2>2
<1> QED BY <1>4, <1>5 DEF OwnedBy, Contains, ps, a

\* The scratch changes hands when no other stream has work left on it, or none before the fence.
LEMMA OwnedFree ==
  ASSUME NEW qs \in [Streams -> Seq(Work)], NEW o, NEW fenced \in BOOLEAN,
         OwnedBy(qs, o, fenced), NEW s,
         \/ o \in {NoStream, s}
         \/ fenced /\ \A r \in Streams : ~Contains(qs[r], "fence")
  PROVE  OwnedBy(qs, s, FALSE)
  BY NoStreamIsNone DEF OwnedBy, Behind, Contains

\* The owner is the stream of the last launch, or, while a launch is captured,
\* the one it found; what the captured launch overwrites it puts back, because
\* it does not fail.
ScratchInv ==
  /\ \A t \in Threads :
       /\ call[t].capturing =>
            /\ OwnedBy(queue, call[t].previous, call[t].wasRecorded)
            /\ ~call[t].failed /\ ~call[t].cleanup
            /\ pc[t] \in {"fence", "advance", "step", "release"} => call[t].wrote
       /\ pc[t] \in {"reset", "enqueue", "fence"} /\ ~call[t].capturing =>
            inStream = at[t] /\ ~recorded
  /\ (\A t \in Threads : ~call[t].capturing) => OwnedBy(queue, inStream, recorded)

\* At first nobody owns the scratch.
LEMMA ScratchInit == Init => ScratchInv
<1> SUFFICES ASSUME Init PROVE ScratchInv
  OBVIOUS
<1>1. \A t \in Threads : ~call[t].capturing /\ pc[t] = "idle"
  BY DEF Init, NoCall
<1>2. \A s \in Streams : queue[s] = IF s = Home THEN <<"upload", "ready">> ELSE <<>>
  BY DEF Init
<1>3. \A s \in Streams : ~Contains(queue[s], "use")
  BY <1>2 DEF Contains
<1>4. OwnedBy(queue, inStream, recorded)
  BY <1>3 DEF Init, OwnedBy
<1> QED BY <1>1, <1>4 DEF ScratchInv

\* A launch that is not captured uses the scratch of its own stream.
LEMMA SubmitOwned ==
  ASSUME TypeOK, HolderInv, ScratchInv, NEW t \in Threads,
         pc[t] \in {"reset", "enqueue", "fence"}, ~call[t].capturing
  PROVE  /\ OwnedBy(queue, at[t], FALSE) /\ inStream = at[t] /\ recorded = FALSE
         /\ \A u \in Threads : ~call[u].capturing
<1>1. \A u \in Threads : ~call[u].capturing
  <2> SUFFICES ASSUME NEW u \in Threads PROVE ~call[u].capturing
    OBVIOUS
  <2>1. CASE u = t
    BY <2>1
  <2>2. CASE u # t
    <3>1. pc[u] \notin Inside
      BY <2>2 DEF HolderInv, Inside
    <3>2. pc[u] \in {"idle", "acquire"}
      BY <3>1 DEF TypeOK, Steps, Inside
    <3> QED BY <3>2 DEF HolderInv, NoCall
  <2> QED BY <2>1, <2>2
<1>2. inStream = at[t] /\ recorded = FALSE
  BY DEF ScratchInv, TypeOK
<1> QED BY <1>1, <1>2 DEF ScratchInv

\* While a thread is between acquire() and release(), no other one captures a
\* launch.
LEMMA OnlyHolderCaptures ==
  ASSUME TypeOK, HolderInv, NEW t \in Threads, pc[t] \in Inside,
         NEW u \in Threads, u # t
  PROVE  pc[u] \in {"idle", "acquire"} /\ ~call[u].capturing
<1>1. pc[u] \notin Inside
  BY DEF HolderInv
<1>2. pc[u] \in {"idle", "acquire"}
  BY <1>1 DEF TypeOK, Steps, Inside
<1> QED BY <1>2 DEF HolderInv, NoCall

\* Every step keeps the scratch with its owner.
LEMMA ScratchStep ==
  ASSUME CaptureFaults = FALSE, TypeOK, HolderInv, ScratchInv, [Next]_vars
  PROVE  ScratchInv'
<1>q. queue \in [Streams -> Seq(Work)] /\ recorded \in BOOLEAN
  BY DEF TypeOK
<1>p. pc \in [Threads -> Steps] /\ at \in [Threads -> Streams]
  BY DEF TypeOK
<1>c. call \in [Threads -> Calls]
  BY DEF TypeOK, Calls
<1>0. ASSUME NEW t \in Threads, pc[t] \in Inside,
             \A u \in Threads \ {t} : call'[u] = call[u] /\ pc'[u] = pc[u],
             call'[t].capturing =>
               /\ OwnedBy(queue', call'[t].previous, call'[t].wasRecorded)
               /\ ~call'[t].failed /\ ~call'[t].cleanup
               /\ pc'[t] \in {"fence", "advance", "step", "release"} =>
                    call'[t].wrote,
             pc'[t] \in {"reset", "enqueue", "fence"} /\ ~call'[t].capturing =>
               inStream' = at'[t] /\ ~recorded',
             ~call'[t].capturing => OwnedBy(queue', inStream', recorded')
      PROVE  ScratchInv'
  <2>1. \A u \in Threads \ {t} :
          pc'[u] \in {"idle", "acquire"} /\ ~call'[u].capturing
    BY <1>0, OnlyHolderCaptures
  <2> QED BY <1>0, <2>1 DEF ScratchInv
<1>1. ASSUME NEW t \in Threads, Admit(t) PROVE ScratchInv'
  <2>0. pc[t] = "admit" /\ pc[t] \in Inside /\ at[t] \in Streams
    BY <1>1, <1>p DEF Admit, Inside
  <2>1. call[t] = NoCall /\ \A u \in Threads : ~call[u].capturing
    <3>1. call[t] = NoCall
      BY <2>0 DEF HolderInv
    <3>2. ~call[t].capturing
      BY <3>1 DEF NoCall
    <3> QED BY <2>0, <3>1, <3>2, OnlyHolderCaptures
  <2>2. OwnedBy(queue, inStream, recorded)
    BY <2>1 DEF ScratchInv
  <2>3. UNCHANGED at /\ \A u \in Threads \ {t} : call'[u] = call[u] /\ pc'[u] = pc[u]
    BY <1>1, <1>p, <1>c DEF Admit, Goto
  <2>4. CASE UNCHANGED <<queue, inStream, recorded, call>> /\ Goto(t, "release")
    BY <1>0, <1>p, <2>0, <2>1, <2>2, <2>3, <2>4 DEF Goto
  <2>5. CASE /\ Idle(at[t], capturer[at[t]] = t)
             /\ AwaitTasks(at[t]) /\ Goto(t, "reset")
             /\ call' = [call EXCEPT ![t] = [@ EXCEPT
                          !.capturing = (capturer[at[t]] = t),
                          !.previous = inStream, !.wasRecorded = recorded]]
             /\ inStream' = at[t] /\ recorded' = FALSE
    <3>1. /\ call'[t].capturing = (capturer[at[t]] = t)
          /\ call'[t].previous = inStream /\ call'[t].wasRecorded = recorded
          /\ call'[t].failed = FALSE /\ call'[t].cleanup = FALSE
      BY <1>c, <2>1, <2>5 DEF NoCall, Calls
    <3>2. ASSUME NEW o, NEW f \in BOOLEAN, OwnedBy(queue, o, f)
          PROVE  OwnedBy(queue', o, f)
      <4>1. CASE UNCHANGED queue
        BY <3>2, <4>1
      <4>2. CASE queue' = [queue EXCEPT ![at[t]] = Append(@, "wait")]
        BY <1>q, <2>0, <3>2, <4>2, OwnedAppend DEF Work
      <4> QED BY <2>5, <4>1, <4>2 DEF AwaitTasks, Queued
    <3>3. OwnedBy(queue', inStream, recorded)
      BY <1>q, <2>2, <3>2
    <3>4. ASSUME ~(capturer[at[t]] = t) PROVE OwnedBy(queue', at[t], FALSE)
      <4>1. \/ inStream \in {NoStream, at[t]}
            \/ recorded /\ \A r \in Streams : ~Contains(queue[r], "fence")
        BY <2>5, <3>4 DEF Idle, Done
      <4>2. OwnedBy(queue, at[t], FALSE)
        BY <1>q, <2>2, <4>1, OwnedFree
      <4> QED BY <3>2, <4>2
    <3>5. pc'[t] = "reset"
      BY <1>p, <2>5 DEF Goto
    <3> QED BY <1>0, <2>0, <2>3, <2>5, <3>1, <3>3, <3>4, <3>5
  <2> QED BY <1>1, <2>4, <2>5 DEF Admit
<1>2. ASSUME NEW t \in Threads, Reset(t) \/ Enqueue(t) PROVE ScratchInv'
  <2>0. /\ pc[t] \in {"reset", "enqueue"} /\ pc[t] \in Inside /\ at[t] \in Streams
        /\ UNCHANGED <<at, inStream, recorded>>
    BY <1>2, <1>p DEF Reset, Enqueue, Inside, host
  <2>1. \A u \in Threads \ {t} : call'[u] = call[u] /\ pc'[u] = pc[u]
    BY <1>2, <1>p, <1>c DEF Reset, Enqueue, Goto
  <2>2. /\ call'[t].capturing = call[t].capturing
        /\ call'[t].previous = call[t].previous
        /\ call'[t].wasRecorded = call[t].wasRecorded
        /\ call'[t].cleanup = call[t].cleanup
    BY <1>2, <1>c DEF Reset, Enqueue, Calls
  <2>3. CASE call[t].capturing
    <3>1. UNCHANGED queue
      BY <1>2, <2>3 DEF Reset, Enqueue, Submit
    <3>2. call'[t].failed = call[t].failed /\ (pc'[t] = "enqueue" \/ call'[t].wrote)
      BY <1>2, <1>c, <1>p, <2>3 DEF Reset, Enqueue, MayFail, Calls, Goto
    <3> QED BY <1>0, <2>0, <2>1, <2>2, <2>3, <3>1, <3>2 DEF ScratchInv
  <2>4. CASE ~call[t].capturing
    <3>1. /\ OwnedBy(queue, at[t], FALSE) /\ inStream = at[t] /\ recorded = FALSE
      BY <2>0, <2>4, SubmitOwned
    <3>2. UNCHANGED queue \/ queue' = [queue EXCEPT ![at[t]] = Append(@, "use")]
      BY <1>2, <2>4 DEF Reset, Enqueue, Submit, Queued
    <3>3. OwnedBy(queue', at[t], FALSE)
      <4>1. CASE UNCHANGED queue
        BY <3>1, <4>1
      <4>2. CASE queue' = [queue EXCEPT ![at[t]] = Append(@, "use")]
        <5>1. "use" \in Work
          BY DEF Work
        <5>2. OwnedBy([queue EXCEPT ![at[t]] = Append(@, "use")], at[t], FALSE)
          BY <1>q, <2>0, <3>1, <5>1, OwnedAppend
        <5> QED BY <4>2, <5>2
      <4> QED BY <3>2, <4>1, <4>2
    <3> QED BY <1>0, <2>0, <2>1, <2>2, <2>4, <3>1, <3>3
  <2> QED BY <2>3, <2>4
<1>3. ASSUME NEW t \in Threads, Fence(t) PROVE ScratchInv'
  <2>0. /\ pc[t] = "fence" /\ pc[t] \in Inside /\ at[t] \in Streams
        /\ UNCHANGED <<at, inStream>> /\ pc'[t] \in {"advance", "release"}
    BY <1>3, <1>p DEF Fence, Inside, Goto
  <2>1. \A u \in Threads \ {t} : call'[u] = call[u] /\ pc'[u] = pc[u]
    BY <1>3, <1>p, <1>c DEF Fence, Goto
  <2>2. CASE call[t].capturing
    <3>1. UNCHANGED <<queue, recorded, call>>
      BY <1>3, <2>2 DEF Fence, MayFail
    <3>2. call[t].wrote
      BY <2>0, <2>2 DEF ScratchInv
    <3> QED BY <1>0, <2>0, <2>1, <2>2, <3>1, <3>2 DEF ScratchInv
  <2>3. CASE ~call[t].capturing
    <3>1. /\ OwnedBy(queue, at[t], FALSE) /\ inStream = at[t] /\ recorded = FALSE
      BY <2>0, <2>3, SubmitOwned
    <3>2. call'[t].capturing = call[t].capturing
      BY <1>3, <1>c DEF Fence, Calls
    <3>3. \/ UNCHANGED <<queue, recorded>>
          \/ /\ queue' = [Superseded EXCEPT ![at[t]] = Append(@, "fence")]
             /\ recorded' = TRUE
      BY <1>3 DEF Fence
    <3>4. OwnedBy(queue', at[t], recorded')
      BY <1>q, <2>0, <3>1, <3>3, OwnedFence
    <3> QED BY <1>0, <2>0, <2>1, <2>3, <3>1, <3>2, <3>4
  <2> QED BY <2>2, <2>3
<1>4. ASSUME NEW t \in Threads, Advance(t) \/ StepVersion(t) PROVE ScratchInv'
  <2>0. /\ pc[t] \in {"advance", "step"} /\ pc[t] \in Inside
        /\ UNCHANGED <<queue, at, inStream, recorded>>
        /\ pc'[t] \in {"step", "release"}
    BY <1>4, <1>p DEF Advance, StepVersion, Inside, Goto, host, device
  <2>1. \A u \in Threads \ {t} : call'[u] = call[u] /\ pc'[u] = pc[u]
    BY <1>4, <1>p, <1>c DEF Advance, StepVersion, Goto
  <2>2. CASE call[t].capturing
    <3>1. UNCHANGED call
      BY <1>4, <2>2 DEF Advance, StepVersion, MayFail
    <3>2. call[t].wrote
      BY <2>0, <2>2 DEF ScratchInv
    <3> QED BY <1>0, <2>0, <2>1, <2>2, <3>1, <3>2 DEF ScratchInv
  <2>3. CASE ~call[t].capturing
    <3>1. call'[t].capturing = call[t].capturing
      BY <1>4, <1>c DEF Advance, StepVersion, Calls
    <3>2. \A u \in Threads : ~call[u].capturing
      BY <2>0, <2>3, OnlyHolderCaptures
    <3> QED BY <1>0, <2>0, <2>1, <2>3, <3>1, <3>2 DEF ScratchInv
  <2> QED BY <2>2, <2>3
<1>5. ASSUME NEW t \in Threads, Release(t) PROVE ScratchInv'
  <2>0. /\ pc[t] = "release" /\ pc[t] \in Inside /\ UNCHANGED queue
        /\ pc'[t] = "idle"
    BY <1>5, <1>p DEF Release, Leave, Inside, Goto, device
  <2>1. \A u \in Threads \ {t} : call'[u] = call[u] /\ pc'[u] = pc[u]
    BY <1>5, <1>p, <1>c DEF Release, Leave, Goto
  <2>2. ~call'[t].capturing
    BY <1>5, <1>c DEF Release, NoCall
  <2>3. OwnedBy(queue', inStream', recorded')
    <3>1. CASE call[t].capturing
      <4>1. Restores(t)
        BY <2>0, <3>1 DEF ScratchInv, Restores
      <4>2. inStream' = call[t].previous /\ recorded' = call[t].wasRecorded
        BY <1>5, <4>1 DEF Release
      <4> QED BY <2>0, <3>1, <4>2 DEF ScratchInv
    <3>2. CASE ~call[t].capturing
      <4>1. UNCHANGED <<inStream, recorded>>
        BY <1>5, <3>2 DEF Release, Restores
      <4>2. \A u \in Threads : ~call[u].capturing
        BY <2>0, <3>2, OnlyHolderCaptures
      <4> QED BY <2>0, <4>1, <4>2 DEF ScratchInv
    <3> QED BY <3>1, <3>2
  <2> QED BY <1>0, <2>0, <2>1, <2>2, <2>3
<1>6. ASSUME NEW s \in Streams, Run(s) PROVE ScratchInv'
  <2>1. /\ UNCHANGED <<pc, at, call, inStream, recorded>>
        /\ queue[s] # <<>> /\ queue' = [queue EXCEPT ![s] = Tail(@)]
    BY <1>6 DEF Run, host, local
  <2>2. ASSUME NEW o, NEW f \in BOOLEAN, OwnedBy(queue, o, f)
        PROVE  OwnedBy(queue', o, f)
    BY <1>q, <2>1, <2>2, OwnedTail
  <2>3. \A t \in Threads : call[t].wasRecorded \in BOOLEAN
    BY <1>c, CallFacts
  <2> QED BY <1>q, <2>1, <2>2, <2>3 DEF ScratchInv
<1>7. ASSUME UNCHANGED <<queue, call, inStream, recorded>>,
             \A t \in Threads : \/ pc'[t] = pc[t] /\ at'[t] = at[t]
                                \/ pc[t] \in {"idle", "acquire"}
                                   /\ pc'[t] \in {"idle", "acquire", "admit"}
      PROVE  ScratchInv'
  <2>1. \A t \in Threads : pc[t] \in {"idle", "acquire"} => ~call[t].capturing
    BY DEF HolderInv, NoCall
  <2> QED BY <1>7, <2>1 DEF ScratchInv
<1>8. ASSUME NEW t \in Threads, NEW s \in Streams,
             Check(t, s) \/ BeginCapture(t, s) \/ EndCapture(t, s) \/ Acquire(t)
      PROVE  ScratchInv'
  <2>1. UNCHANGED <<queue, call, inStream, recorded>>
    BY <1>8 DEF Check, BeginCapture, EndCapture, Acquire, device, host, local
  <2>2. \A u \in Threads : \/ pc'[u] = pc[u] /\ at'[u] = at[u]
                           \/ pc[u] \in {"idle", "acquire"}
                              /\ pc'[u] \in {"idle", "acquire", "admit"}
    BY <1>8, <1>p DEF Check, BeginCapture, EndCapture, Acquire, Goto, Leave, local
  <2> QED BY <1>7, <2>1, <2>2
<1>9. CASE WriteOffsets \/ Rebind \/ UNCHANGED vars
  BY <1>9, <1>7 DEF WriteOffsets, Rebind, vars, device, host, local
<1> QED BY <1>1, <1>2, <1>3, <1>4, <1>5, <1>6, <1>8, <1>9, HomeIsAStream
        DEF Next, Step

-------------------------------------------------------------------------------
(* The theorems. *)

\* The host state, the device queues and the calls keep their types.
THEOREM TypeCorrect == Spec => []TypeOK
<1>1. Init => TypeOK
  BY TypeInit
<1>2. TypeOK /\ [Next]_vars => TypeOK'
  BY TypeStep
<1> QED BY <1>1, <1>2, PTL DEF Spec

\* The launch lock has one holder, the one thread inside launch().
LEMMA OneHolder == Spec => []HolderInv
<1>1. Init => HolderInv
  BY HolderInit
<1>2. TypeOK /\ HolderInv /\ [Next]_vars => HolderInv'
  BY HolderStep
<1> QED BY <1>1, <1>2, TypeCorrect, PTL DEF Spec

\* No reset and no kernel runs before the task records were uploaded, on any
\* stream, whatever fails (tasks_ready, wait_for_tasks).
THEOREM TasksBeforeKernels == Spec => []TasksUploadedFirst
<1>1. Init => TasksInv
  BY TasksInit
<1>2. TypeOK /\ TasksInv /\ [Next]_vars => TasksInv'
  BY TasksStep
<1>3. TypeOK /\ TasksInv => TasksUploadedFirst
  BY TasksFirst
<1> QED BY <1>1, <1>2, <1>3, TypeCorrect, PTL DEF Spec

\* The version a launch expects is behind the offsets by the user's writes and
\* nothing else, whatever fails (wrote_output).
THEOREM NoWriteHidden == Spec => []VersionsInStep
<1>1. Init => VersionsInStep
  BY VersionsInit
<1>2. TypeOK /\ HolderInv /\ VersionsInStep /\ [Next]_vars => VersionsInStep'
  BY VersionsStep
<1> QED BY <1>1, <1>2, TypeCorrect, OneHolder, PTL DEF Spec

\* The invariant of the scratch holds in every state of every behaviour.
LEMMA ScratchInvariance ==
  ASSUME CaptureFaults = FALSE
  PROVE  Spec => [](TypeOK /\ HolderInv /\ ScratchInv)
<1>1. Init => ScratchInv
  BY ScratchInit
<1>2. TypeOK /\ HolderInv /\ ScratchInv /\ [Next]_vars => ScratchInv'
  BY ScratchStep
<1> QED BY <1>1, <1>2, TypeCorrect, OneHolder, PTL DEF Spec

\* One stream owns what is queued.
LEMMA OneOwner ==
  ASSUME TypeOK, HolderInv, ScratchInv PROVE OneStreamUsesScratch
<1>1. PICK o : OwnedBy(queue, o, FALSE)
  BY DEF ScratchInv, OwnedBy
<1> QED BY <1>1 DEF OwnedBy, OneStreamUsesScratch, Users

\* As long as no launch fails during a capture, launches that no stream orders
\* never use the scratch at once (require_idle).  The run PersistentCaptureFault
\* shows that the premise is needed.
THEOREM OneUser ==
  ASSUME CaptureFaults = FALSE
  PROVE  Spec => []OneStreamUsesScratch
<1>1. TypeOK /\ HolderInv /\ ScratchInv => OneStreamUsesScratch
  BY OneOwner
<1> QED BY <1>1, ScratchInvariance, PTL

\* The streams that use the scratch after a change of the queues.
LEMMA UsersSteps ==
  ASSUME TypeOK, HolderInv, ScratchInv, [Next]_vars
  PROVE  [Scratch!Next]_Users
<1>q. queue \in [Streams -> Seq(Work)]
  BY DEF TypeOK
<1>p. at \in [Threads -> Streams]
  BY DEF TypeOK
<1>0. CASE UNCHANGED queue
  BY <1>0 DEF Users
<1>1. ASSUME NEW s \in Streams, NEW w \in Work, Queued(s, w)
      PROVE  Users' = IF w = "use" THEN Users \cup {s} ELSE Users
  <2> DEFINE a == Append(queue[s], w)
  <2>1. /\ Len(queue[s]) \in Nat /\ Len(a) = Len(queue[s]) + 1
        /\ a[Len(queue[s]) + 1] = w
        /\ \A i \in 1..Len(queue[s]) : a[i] = queue[s][i]
    BY <1>q, AppendFacts
  <2>2. \A r \in Streams : queue'[r] = IF r = s THEN a ELSE queue[r]
    BY <1>q, <1>1 DEF Queued
  <2> HIDE DEF a
  <2>3. Contains(a, "use") <=> Contains(queue[s], "use") \/ w = "use"
    BY <2>1 DEF Contains
  <2> QED BY <2>2, <2>3 DEF Users
<1>2. ASSUME NEW t \in Threads, Reset(t) \/ Enqueue(t) PROVE [Scratch!Next]_Users
  <2>1. CASE UNCHANGED queue
    BY <1>0, <2>1
  <2>2. CASE Queued(at[t], "use") /\ ~call[t].capturing
    <3>1. at[t] \in Streams /\ "use" \in Work
      BY <1>p DEF Work
    <3>2. pc[t] \in {"reset", "enqueue", "fence"}
      BY <1>2 DEF Reset, Enqueue
    <3>3. OwnedBy(queue, at[t], FALSE)
      BY <2>2, <3>2, SubmitOwned
    <3>4. Users \subseteq {at[t]}
      BY <3>3 DEF OwnedBy, Users
    <3>5. Users' = {at[t]}
      BY <1>1, <2>2, <3>1, <3>4
    <3>6. Scratch!Queue(at[t])
      BY <3>4, <3>5 DEF Scratch!Queue
    <3> QED BY <3>1, <3>6 DEF Scratch!Next
  <2> QED BY <1>2, <2>1, <2>2 DEF Reset, Enqueue, Submit
<1>3. ASSUME NEW t \in Threads, Admit(t) PROVE [Scratch!Next]_Users
  <2>1. UNCHANGED queue \/ Queued(at[t], "wait")
    BY <1>3 DEF Admit, AwaitTasks
  <2>2. at[t] \in Streams /\ "wait" \in Work
    BY <1>p DEF Work
  <2> QED BY <1>0, <1>1, <2>1, <2>2
<1>4. ASSUME NEW t \in Threads, Fence(t) PROVE [Scratch!Next]_Users
  <2>1. CASE queue' = [Superseded EXCEPT ![at[t]] = Append(@, "fence")]
    <3> DEFINE s == at[t]
               a == Append(Superseded[s], "fence")
    <3>1. s \in Streams /\ Superseded \in [Streams -> Seq(Work)] /\ "fence" \in Work
      BY <1>p, <1>q, SupersededFacts DEF Work
    <3>2. /\ Len(Superseded[s]) \in Nat /\ Len(a) = Len(Superseded[s]) + 1
          /\ a[Len(Superseded[s]) + 1] = "fence"
          /\ \A i \in 1..Len(Superseded[s]) : a[i] = Superseded[s][i]
      BY <3>1, AppendFacts
    <3>3. \A r \in Streams : queue'[r] = IF r = s THEN a ELSE Superseded[r]
      BY <2>1, <3>1
    <3> HIDE DEF s, a
    <3>4. Contains(a, "use") <=> Contains(Superseded[s], "use")
      BY <3>2 DEF Contains
    <3>5. \A r \in Streams : Contains(Superseded[r], "use") <=> Contains(queue[r], "use")
      BY <1>q, SupersededFacts DEF Contains
    <3> QED BY <3>3, <3>4, <3>5 DEF Users
  <2> QED BY <1>0, <1>4, <2>1 DEF Fence
<1>5. ASSUME NEW s \in Streams, Run(s) PROVE [Scratch!Next]_Users
  <2> DEFINE a == Tail(queue[s])
  <2>1. /\ Len(queue[s]) \in Nat \ {0} /\ Len(a) = Len(queue[s]) - 1
        /\ \A i \in 1..(Len(queue[s]) - 1) : a[i] = queue[s][i + 1]
    BY <1>5, <1>q, TailFacts DEF Run
  <2>2. \A r \in Streams : queue'[r] = IF r = s THEN a ELSE queue[r]
    BY <1>5, <1>q DEF Run
  <2> HIDE DEF a
  <2>3. Contains(a, "use") => Contains(queue[s], "use")
    BY <2>1 DEF Contains
  <2>4. CASE s \in Users /\ ~Contains(a, "use")
    <3>1. Users' = Users \ {s}
      BY <2>2, <2>4 DEF Users
    <3> QED BY <2>4, <3>1 DEF Scratch!Next, Scratch!Drain
  <2>5. CASE s \notin Users \/ Contains(a, "use")
    <3>1. Users' = Users
      BY <2>2, <2>3, <2>5 DEF Users
    <3> QED BY <3>1
  <2> QED BY <2>4, <2>5
<1>6. ASSUME \/ \E t \in Threads, s \in Streams :
                  Check(t, s) \/ BeginCapture(t, s) \/ EndCapture(t, s)
             \/ \E t \in Threads : \/ Acquire(t) \/ Advance(t) \/ StepVersion(t)
                                   \/ Release(t)
             \/ WriteOffsets \/ Rebind \/ UNCHANGED vars
      PROVE  UNCHANGED queue
  BY <1>6 DEF Check, BeginCapture, EndCapture, Acquire, Advance, StepVersion,
              Release, WriteOffsets, Rebind, vars, device
<1> QED BY <1>0, <1>2, <1>3, <1>4, <1>5, <1>6 DEF Next, Step

\* As long as no launch fails during a capture, the prepared sum implements the
\* abstract owner of its scratch: every launch joins the stream that owns the
\* storage or takes storage nobody uses.
THEOREM ScratchImplemented ==
  ASSUME CaptureFaults = FALSE
  PROVE  Spec => ImplementsScratchOwner
<1>1. Init => Scratch!Init
  <2> SUFFICES ASSUME Init PROVE Users = {}
    BY DEF Scratch!Init
  <2>1. \A s \in Streams : queue[s] = IF s = Home THEN <<"upload", "ready">> ELSE <<>>
    BY DEF Init
  <2>2. \A s \in Streams : ~Contains(queue[s], "use")
    BY <2>1 DEF Contains
  <2> QED BY <2>2 DEF Users
<1>2. TypeOK /\ HolderInv /\ ScratchInv /\ [Next]_vars => [Scratch!Next]_Users
  BY UsersSteps
<1> QED BY <1>1, <1>2, ScratchInvariance, PTL
        DEF Spec, ImplementsScratchOwner, Scratch!Spec
===============================================================================
