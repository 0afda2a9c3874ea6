----------------------- MODULE CompilerIdentity_proofs ------------------------
(* Proofs about the identity gate of the persistent cache, for any processes, *)
(* files and versions and any number of changes of the files.                 *)
EXTENDS CompilerIdentity, TLAPS

-------------------------------------------------------------------------------
(* The inductive invariant. *)

Codes == Versions \cup {Gone}
Labels == {"off", "import", "failed", "idle", "derive", "sign", "read", "keep",
           "usable", "source", "age", "stat", "lookup", "load", "publish"}
Works == {"look", "derive", "shared", "private", "made"}
Signatures == [changed : Nat, code : Codes]

FileCodes == [Names -> Codes]
Loads == [Names -> Codes \cup {None}]
Identities == [is : {"underived", "no sources", "no compiler", "known"}, of : FileCodes]
Memos == [Libraries -> Signatures \cup {None}]

WorldType ==
    /\ clock \in Nat \ {0}
    /\ disk \in [Names -> [code : Codes, changed : Nat]]
    /\ \A f \in Names : Changed(f) <= clock
    /\ \A f \in Libraries : Code(f) = Gone => f \in removed
ProcessType ==
    /\ pc \in [Procs -> Labels] /\ work \in [Procs -> Works]
    /\ started \in [Procs -> Nat \cup {None}]
    /\ loaded \in [Procs -> Loads] /\ identity \in [Procs -> Identities]
    /\ memo \in [Procs -> Memos] /\ i \in [Procs -> Nat \ {0}]
    /\ digest \in [Procs -> FileCodes] /\ hand \in [Procs -> Signatures \cup {None}]
TypeInv == WorldType /\ ProcessType

\* The file has not changed since the process started.
Old(p, f) == started[p] # None /\ Code(f) # Gone /\ Changed(f) < started[p]

\* What the process has loaded of a file is what its identity names.
Agreed(p, f) == \/ identity[p].of[f] = Gone \/ loaded[p][f] = None
                \/ loaded[p][f] = identity[p].of[f]

\* The time at which a process started is past, and before that it has nothing.
StartInv(p) ==
    /\ started[p] # None => started[p] <= clock
    /\ pc[p] = "off" => /\ loaded[p] = [f \in Names |-> None]
                        /\ identity[p] = Underived
                        /\ memo[p] = [f \in Libraries |-> None]

Signing == {"sign", "read", "keep"}

\* What a process works on at each of its steps, and how far it has got.
WorkInv(p) ==
    /\ pc[p] \in {"off", "import", "idle", "lookup"} => work[p] = "look"
    /\ pc[p] = "load" => work[p] \in {"shared", "private"}
    /\ pc[p] = "derive" => work[p] = "derive"
    /\ pc[p] \in Signing => work[p] \in {"derive", "look", "made"}
    /\ pc[p] \in {"usable", "source", "age", "stat"} => work[p] \in {"look", "made"}
    /\ pc[p] = "publish" => work[p] = "made"
    /\ work[p] = "made" => \A f \in Names : loaded[p][f] # None
    /\ work[p] # "derive" /\ pc[p] \notin {"off", "import", "failed", "idle"}
         => identity[p].is # "underived"
    /\ identity[p].is = "underived" => identity[p] = Underived
    /\ pc[p] \in {"off", "idle", "usable", "lookup", "load", "publish"} => i[p] = 1
    /\ pc[p] = "age" => i[p] <= Len(Frontend)
    /\ pc[p] \in {"derive", "source"} => i[p] <= Len(Frontend) + 1
    /\ pc[p] = "stat" => Len(Frontend) < i[p]
    /\ pc[p] \in Signing => Len(Frontend) < i[p] /\ i[p] <= Len(Scanned) + 1
    /\ pc[p] \in {"read", "keep"} => i[p] <= Len(Scanned) /\ hand[p] \in Signatures

\* Whatever the process read of a file that is unchanged is what is there now.
SeenInv(p) ==
    \A f \in Names : Old(p, f) =>
        /\ loaded[p][f] \in {None, Code(f)}
        /\ identity[p].is = "known" => identity[p].of[f] = Code(f)
        /\ f \in Libraries /\ memo[p][f] # None => memo[p][f].code = Code(f)
        /\ pc[p] = "keep" /\ Scanned[i[p]] = f => hand[p].code = Code(f)
        /\ work[p] = "derive" /\ identity[p].is = "underived"
             => \A j \in 1..(i[p] - 1) : Scanned[j] = f => digest[p][f] = Code(f)

\* The check of the sources has found each one unchanged, or not on the disk.
Checking(p) == pc[p] \in {"source", "age"}
SourceInv(p) ==
    Checking(p) =>
        /\ identity[p].is = "known" /\ started[p] # None
        /\ \A j \in 1..(i[p] - 1) :
             \/ Agreed(p, Frontend[j]) \/ digest[p][Frontend[j]] = Gone
             \/ pc[p] = "age" /\ Frontend[j] = Frontend[i[p]]

\* Past that check, the sources agree, and so do the libraries that are checked.
Checked(p) == \/ pc[p] \in {"stat", "lookup", "publish"}
              \/ pc[p] \in Signing /\ work[p] # "derive"
CheckInv(p) ==
    Checked(p) =>
        /\ identity[p].is = "known" /\ started[p] # None
        /\ \A f \in Sources : Agreed(p, f)
        /\ \A f \in Libraries :
             \/ Agreed(p, f) \/ f \in removed
             \/ pc[p] = "stat" /\ \E j \in i[p]..Len(Scanned) : Scanned[j] = f

ProcInv(p) == StartInv(p) /\ WorkInv(p) /\ SeenInv(p) /\ SourceInv(p) /\ CheckInv(p)
\* What the processes hold is a function of the process.
HeldInv == held = [p \in Procs |-> held[p]]

IInv == TypeInv /\ (\A p \in Procs : ProcInv(p)) /\ HeldInv /\ EntryMadeByItsKey

-------------------------------------------------------------------------------
(* The files, and what a step leaves alone. *)

\* The files in the order they are looked at: the sources, then the libraries.
LEMMA ScannedFiles ==
  /\ Len(Frontend) \in Nat \ {0} /\ Len(Scanned) = Len(Frontend) + Len(Native)
  /\ Len(Native) \in Nat \ {0} /\ Head(Native) \in Libraries
  /\ \A j \in 1..Len(Frontend) : Scanned[j] = Frontend[j] /\ Frontend[j] \in Sources
  /\ \A j \in (Len(Frontend) + 1)..Len(Scanned) : Scanned[j] \in Libraries
  /\ \A f \in Sources : \E j \in 1..Len(Frontend) : Scanned[j] = f /\ Frontend[j] = f
  /\ \A f \in Libraries :
       \E j \in (Len(Frontend) + 1)..Len(Scanned) : Scanned[j] = f
<1>. /\ Frontend \in Seq(Sources) /\ Frontend # <<>>
     /\ Native \in Seq(Libraries) /\ Native # <<>>
  BY CompilerIdentityAssumption
<1>1. /\ Len(Frontend) \in Nat \ {0} /\ Len(Native) \in Nat \ {0}
      /\ Len(Scanned) = Len(Frontend) + Len(Native) /\ Head(Native) \in Libraries
  BY DEF Scanned
<1>2. \A j \in 1..Len(Frontend) : Scanned[j] = Frontend[j] /\ Frontend[j] \in Sources
  BY DEF Scanned
<1>3. \A j \in (Len(Frontend) + 1)..Len(Scanned) :
        Scanned[j] = Native[j - Len(Frontend)] /\ Scanned[j] \in Libraries
  BY <1>1 DEF Scanned
<1>4. \A f \in Sources : \E j \in 1..Len(Frontend) : Frontend[j] = f
  BY DEF Sources, ToSet
<1>5. ASSUME NEW f \in Libraries
      PROVE  \E j \in (Len(Frontend) + 1)..Len(Scanned) : Scanned[j] = f
  <2>1. PICK m \in 1..Len(Native) : Native[m] = f
    BY DEF Libraries, ToSet
  <2>2. Len(Frontend) + m \in (Len(Frontend) + 1)..Len(Scanned)
    BY <1>1
  <2>3. (Len(Frontend) + m) - Len(Frontend) = m
    BY <1>1
  <2>4. Scanned[Len(Frontend) + m] = f
    BY <1>3, <2>1, <2>2, <2>3
  <2>. QED
    BY <2>2, <2>4
<1>. QED
  BY <1>1, <1>2, <1>3, <1>4, <1>5

\* Codes and labels are told apart from None.
LEMMA NoneIsNew == None \notin Codes /\ None \notin Nat /\ Gone \in Codes /\ Gone # None
  BY CompilerIdentityAssumption DEF Codes

\* A process that does not move keeps what it has, while the files that have not
\* changed since its start are as they were.
LEMMA Unmoved ==
  ASSUME TypeInv, NEW q \in Procs, ProcInv(q), clock' \in Nat, clock <= clock',
         removed \subseteq removed',
         \A f \in Names : Old(q, f)' => Old(q, f) /\ Code(f)' = Code(f),
         pc'[q] = pc[q], started'[q] = started[q], loaded'[q] = loaded[q],
         identity'[q] = identity[q], memo'[q] = memo[q], work'[q] = work[q],
         i'[q] = i[q], digest'[q] = digest[q], hand'[q] = hand[q]
  PROVE  ProcInv(q)'
<1>1. StartInv(q)'
  <2>1. started[q] \in Nat \cup {None} /\ clock \in Nat
    BY DEF TypeInv, WorldType, ProcessType
  <2>2. started'[q] # None => started'[q] <= clock'
    BY <2>1 DEF ProcInv, StartInv
  <2>. QED
    BY <2>2 DEF ProcInv, StartInv, Underived, Nothing
<1>2. WorkInv(q)'
  BY DEF ProcInv, WorkInv, Underived, Signing
<1>3. SeenInv(q)'
  BY DEF ProcInv, SeenInv
<1>4. SourceInv(q)' /\ CheckInv(q)'
  BY DEF ProcInv, SourceInv, CheckInv, Checking, Checked, Agreed, Signing
<1>. QED
  BY <1>1, <1>2, <1>3, <1>4 DEF ProcInv

\* The types of the files on the disk.
LEMMA DiskType ==
  ASSUME TypeInv
  PROVE  /\ clock \in Nat \ {0}
         /\ \A f \in Names : Code(f) \in Codes /\ Changed(f) \in Nat /\ Changed(f) <= clock
         /\ \A f \in Libraries : Code(f) = Gone => f \in removed
  BY DEF TypeInv, WorldType, Code, Changed

USE DEF Put, world

\* What a process does: a step of a call, a launch, or the start as a child.
Moves(p) == \/ Step(p) \/ \E k \in Kernels : Launch(p, k)
            \/ \E q \in Procs : Fork(q, p)

\* The types at the end of a call or of a check.
LEMMA EndTypes ==
  ASSUME ProcessType, NEW p \in Procs, Return(p) \/ Unusable(p)
  PROVE  /\ pc' \in [Procs -> Labels] /\ work' \in [Procs -> Works]
         /\ i' \in [Procs -> Nat \ {0}] /\ digest' \in [Procs -> FileCodes]
         /\ hand' \in [Procs -> Signatures \cup {None}]
<1>1. Nothing \in FileCodes
  BY DEF Nothing, FileCodes, Codes
<1>. QED
  BY <1>1 DEF Return, Unusable, ProcessType, Labels, Works

\* The types of one file more in what a process has read, loaded or remembers.
LEMMA PointTypes ==
  ASSUME ProcessType, NEW p \in Procs, NEW f \in Names, NEW c \in Codes
  PROVE  /\ digest' = [digest EXCEPT ![p][f] = c] => digest' \in [Procs -> FileCodes]
         /\ loaded' = [loaded EXCEPT ![p][f] = c] => loaded' \in [Procs -> Loads]
<1>1. digest[p] \in FileCodes /\ [digest[p] EXCEPT ![f] = c] \in FileCodes
  BY DEF ProcessType, FileCodes
<1>2. ASSUME digest' = [digest EXCEPT ![p][f] = c]
      PROVE  digest' \in [Procs -> FileCodes]
  BY <1>1, <1>2 DEF ProcessType
<1>3. ASSUME loaded' = [loaded EXCEPT ![p][f] = c]
      PROVE  loaded' \in [Procs -> Loads]
  BY <1>3 DEF ProcessType, Loads, Codes
<1>. QED
  BY <1>2, <1>3

\* Every step of a process keeps the types.
LEMMA TypeStep ==
  ASSUME TypeInv, NEW p \in Procs, WorkInv(p), Moves(p)
  PROVE  ProcessType'
<1>t. ProcessType
  BY DEF TypeInv
<1>d. /\ clock \in Nat \ {0} /\ clock - 1 \in Nat
      /\ \A f \in Names : Code(f) \in Codes /\ Changed(f) \in Nat
  BY DiskType
<1>n. \A j \in 1..Len(Scanned) : Scanned[j] \in Names
  BY ScannedFiles DEF Names
<1>s. \A j \in 1..Len(Frontend) : Frontend[j] \in Names
  BY ScannedFiles DEF Names
<1>l. Len(Frontend) \in Nat \ {0} /\ Len(Scanned) \in Nat \ {0}
  BY ScannedFiles
<1>f. Nothing \in FileCodes
  BY DEF Nothing, FileCodes, Codes
<1>1. ASSUME Start(p)
      PROVE  ProcessType'
  BY <1>1, <1>t, <1>d DEF Start, ProcessType, Labels
<1>2. ASSUME Import(p)
      PROVE  ProcessType'
  <2>1. CASE pc' = Put(pc, p, "idle") /\ i' = Put(i, p, 1) /\ UNCHANGED loaded
    BY <1>2, <2>1, <1>t DEF Import, ProcessType, Labels
  <2>2. ASSUME NEW j \in i[p]..Len(Frontend), i' = Put(i, p, j + 1),
               loaded' = [loaded EXCEPT ![p][Frontend[j]] = Code(Frontend[j])],
               pc' = Put(pc, p, IF Code(Frontend[j]) = Gone THEN "failed" ELSE "import")
        PROVE  ProcessType'
    <3>1. j \in 1..Len(Frontend)
      BY <1>t, <1>l DEF ProcessType
    <3>2. loaded' \in [Procs -> Loads]
      BY <2>2, <3>1, <1>s, <1>t, <1>d, PointTypes
    <3>3. pc' \in [Procs -> Labels] /\ i' \in [Procs -> Nat \ {0}]
      BY <2>2, <3>1, <1>t DEF ProcessType, Labels
    <3>. QED
      BY <1>2, <3>2, <3>3, <1>t DEF Import, ProcessType
  <2>. QED
    BY <1>2, <2>1, <2>2 DEF Import
<1>3. ASSUME Derive(p)
      PROVE  ProcessType'
  <2>1. digest' \in [Procs -> FileCodes]
    <3>1. CASE UNCHANGED digest
      BY <3>1, <1>t DEF ProcessType
    <3>2. CASE /\ i[p] <= Len(Frontend)
               /\ digest' = [digest EXCEPT ![p][Frontend[i[p]]] = Code(Frontend[i[p]])]
      <4>1. i[p] \in 1..Len(Frontend)
        BY <3>2, <1>t, <1>l DEF ProcessType
      <4>. QED
        BY <3>2, <4>1, <1>s, <1>t, <1>d, PointTypes
    <3>. QED
      BY <1>3, <3>1, <3>2 DEF Derive
  <2>2. identity' \in [Procs -> Identities]
    <3>1. identity' = identity \/ identity' = [identity EXCEPT ![p].is = "no sources"]
      BY <1>3 DEF Derive
    <3>2. identity[p] \in Identities
      BY <1>t DEF ProcessType
    <3>3. [identity[p] EXCEPT !.is = "no sources"] \in Identities
      BY <3>2 DEF Identities
    <3>. QED
      BY <3>1, <3>3, <1>t DEF ProcessType
  <2>. QED
    <3>1. /\ pc' = pc \/ pc' = Put(pc, p, "sign")
          /\ \/ i' = i \/ i' = [i EXCEPT ![p] = @ + 1]
             \/ i' = Put(i, p, Len(Frontend) + 1)
      BY <1>3 DEF Derive
    <3>2. UNCHANGED <<work, started, loaded, memo, hand>>
      BY <1>3 DEF Derive
    <3>3. Len(Frontend) + 1 \in Nat \ {0} /\ i[p] + 1 \in Nat \ {0}
      BY <1>t, <1>l DEF ProcessType
    <3>4. i' \in [Procs -> Nat \ {0}]
      BY <3>1, <3>3, <1>t DEF ProcessType
    <3>5. pc' \in [Procs -> Labels]
      BY <3>1, <1>t DEF ProcessType, Labels
    <3>. QED
      BY <2>1, <2>2, <3>2, <3>4, <3>5, <1>t DEF ProcessType
<1>4. ASSUME Sign(p)
      PROVE  ProcessType'
  <2> DEFINE f == Scanned[i[p]]
  <2>1. i[p] \in 1..Len(Scanned) /\ pc[p] \in Signing
    BY <1>4, <1>t, <1>l DEF Sign, ProcessType, Signing
  <2>2. f \in Libraries /\ f \in Names
    BY <2>1, <1>l, <1>t, ScannedFiles DEF WorkInv, Names, ProcessType
  <2>3. memo[p][f] \in Signatures \cup {None} /\ Changed(f) \in Nat
    BY <2>2, <1>t, <1>d DEF ProcessType, Memos
  <2>4. CASE /\ memo[p][f] # None
             /\ digest' = [digest EXCEPT ![p][f] = memo[p][f].code]
             /\ UNCHANGED <<pc, hand>>
    <3>1. memo[p][f].code \in Codes
      BY <2>3, <2>4 DEF Signatures
    <3>2. digest' \in [Procs -> FileCodes]
      BY <2>2, <2>4, <3>1, <1>t, PointTypes
    <3>3. i' \in [Procs -> Nat \ {0}]
      BY <1>4, <1>t DEF Sign, ProcessType
    <3>. QED
      BY <1>4, <2>4, <3>2, <3>3, <1>t DEF Sign, ProcessType
  <2>5. CASE hand' = Put(hand, p, [changed |-> Changed(f), code |-> Gone])
    <3>1. [changed |-> Changed(f), code |-> Gone] \in Signatures
      BY <2>3, NoneIsNew DEF Signatures
    <3>2. hand' \in [Procs -> Signatures \cup {None}]
      BY <2>5, <3>1, <1>t DEF ProcessType
    <3>3. /\ pc' \in [Procs -> Labels] /\ i' \in [Procs -> Nat \ {0}]
          /\ digest' \in [Procs -> FileCodes]
      <4>1. CASE UNCHANGED <<i, digest>> /\ pc' = Put(pc, p, "read")
        BY <4>1, <1>t DEF ProcessType, Labels
      <4>2. CASE UNCHANGED <<pc, hand>>
        BY <1>4, <2>4, <4>2, <1>t DEF Sign, ProcessType
      <4>. QED
        BY <1>4, <4>1, <4>2 DEF Sign
    <3>. QED
      BY <1>4, <3>2, <3>3, <1>t DEF Sign, ProcessType
  <2>. QED
    BY <1>4, <2>4, <2>5 DEF Sign
<1>5. ASSUME Read(p)
      PROVE  ProcessType'
  <2>1. hand[p] \in Signatures /\ i[p] \in 1..Len(Scanned)
    BY <1>5, <1>t, <1>l DEF Read, WorkInv, Signing, ProcessType
  <2>2. [hand[p] EXCEPT !.code = Code(Scanned[i[p]])] \in Signatures
    BY <2>1, <1>n, <1>d DEF Signatures
  <2>3. hand' = Put(hand, p, [hand[p] EXCEPT !.code = Code(Scanned[i[p]])])
    BY <1>5 DEF Read
  <2>4. hand' \in [Procs -> Signatures \cup {None}]
    BY <2>2, <2>3, <1>t DEF ProcessType
  <2>. QED
    BY <1>5, <2>4, <1>t DEF Read, ProcessType, Labels
<1>6. ASSUME Keep(p)
      PROVE  ProcessType'
  <2> DEFINE f == Scanned[i[p]]
  <2>1. hand[p] \in Signatures /\ i[p] \in 1..Len(Scanned) /\ ~(i[p] <= Len(Frontend))
    BY <1>6, <1>t, <1>l DEF Keep, WorkInv, Signing, ProcessType
  <2>2. f \in Libraries /\ f \in Names
    BY <2>1, <1>l, ScannedFiles DEF Names
  <2>3. hand[p].code \in Codes
    BY <2>1 DEF Signatures
  <2>4. digest' \in [Procs -> FileCodes]
    <3>1. digest' = [digest EXCEPT ![p][f] = hand[p].code]
      BY <1>6 DEF Keep
    <3>. QED
      BY <2>2, <2>3, <3>1, <1>t, PointTypes
  <2>5. memo' \in [Procs -> Memos]
    <3>1. memo' = [memo EXCEPT ![p][f] = hand[p]] \/ memo' = memo
      BY <1>6 DEF Keep
    <3>2. [memo[p] EXCEPT ![f] = hand[p]] \in Memos
      BY <2>1, <2>2, <1>t DEF ProcessType, Memos
    <3>. QED
      BY <3>1, <3>2, <1>t DEF ProcessType
  <2>6. i' \in [Procs -> Nat \ {0}] /\ pc' \in [Procs -> Labels]
    BY <1>6, <1>t DEF Keep, ProcessType, Labels
  <2>. QED
    BY <1>6, <2>4, <2>5, <2>6, <1>t DEF Keep, ProcessType
<1>7. ASSUME Signed(p)
      PROVE  ProcessType'
  <2>1. [is |-> Status(p), of |-> digest[p]] \in Identities
    BY <1>t DEF Status, ProcessType, Identities
  <2>2. identity' \in [Procs -> Identities]
    <3>1. identity' = identity
          \/ identity' = Put(identity, p, [is |-> Status(p), of |-> digest[p]])
      BY <1>7 DEF Signed
    <3>. QED
      BY <2>1, <3>1, <1>t DEF ProcessType
  <2>. QED
    <3>1. /\ UNCHANGED <<started, loaded, memo>>
          /\ \/ Unusable(p)
             \/ /\ i' = Put(i, p, 1) /\ digest' = Put(digest, p, Nothing) /\ UNCHANGED hand
                /\ \E label \in {"usable", "lookup", "publish"} : pc' = Put(pc, p, label)
                /\ work' \in {work, Put(work, p, "look")}
      BY <1>7 DEF Signed, GiveUp, Continue
    <3>. QED
      BY <2>2, <3>1, <1>t, <1>f, EndTypes DEF ProcessType, Labels, Works
<1>8. ASSUME Usable(p)
      PROVE  ProcessType'
  <2>1. /\ UNCHANGED <<started, loaded, identity, memo>>
        /\ Unusable(p) \/ (Continue(p, "source") /\ UNCHANGED <<i, digest>>)
    BY <1>8 DEF Usable, GiveUp
  <2>. QED
    BY <2>1, <1>t, EndTypes DEF Continue, ProcessType, Labels
<1>9. ASSUME CheckSource(p)
      PROVE  ProcessType'
  <2>1. digest' \in [Procs -> FileCodes]
    <3>1. CASE i[p] > Len(Frontend) \/ GiveUp(p)
      BY <1>9, <3>1, <1>t, <1>f DEF CheckSource, GiveUp, Unusable, Return, Continue,
         ProcessType
    <3>2. CASE ~(i[p] > Len(Frontend)) /\ ~GiveUp(p)
      <4>1. i[p] \in 1..Len(Frontend)
        BY <3>2, <1>t, <1>l DEF ProcessType
      <4>2. digest' = [digest EXCEPT ![p][Frontend[i[p]]] = Code(Frontend[i[p]])]
        BY <1>9, <3>2 DEF CheckSource
      <4>. QED
        BY <4>1, <4>2, <1>s, <1>t, <1>d, PointTypes
    <3>. QED
      BY <3>1, <3>2
  <2>. QED
    <3>1. /\ UNCHANGED <<started, loaded, identity, memo>>
          /\ \/ Unusable(p)
             \/ /\ \E label \in {"stat", "source", "age"} : Continue(p, label)
                /\ i' = i \/ i' = [i EXCEPT ![p] = @ + 1]
      BY <1>9 DEF CheckSource, GiveUp
    <3>. QED
      BY <2>1, <3>1, <1>t, EndTypes DEF Continue, ProcessType, Labels
<1>10. ASSUME CheckAge(p)
       PROVE  ProcessType'
  <2>1. /\ UNCHANGED <<started, loaded, identity, memo>>
        /\ \/ Unusable(p)
           \/ /\ Continue(p, "source") /\ UNCHANGED digest
              /\ i' = [i EXCEPT ![p] = @ + 1]
    BY <1>10 DEF CheckAge, GiveUp
  <2>. QED
    BY <2>1, <1>t, EndTypes DEF Continue, ProcessType, Labels
<1>11. ASSUME CheckLibrary(p)
       PROVE  ProcessType'
  <2>1. /\ UNCHANGED <<started, loaded, identity, memo>>
        /\ \/ Unusable(p)
           \/ /\ \E label \in {"stat", "sign"} : Continue(p, label)
              /\ UNCHANGED digest
              /\ \/ i' = Put(i, p, Len(Frontend) + 1)
                 \/ i' = [i EXCEPT ![p] = @ + 1]
    BY <1>11 DEF CheckLibrary, GiveUp
  <2>2. CASE Unusable(p)
    BY <2>1, <2>2, <1>t, EndTypes DEF ProcessType
  <2>3. CASE ~Unusable(p)
    <3>1. i' \in [Procs -> Nat \ {0}]
      <4>1. i' = Put(i, p, Len(Frontend) + 1) \/ i' = [i EXCEPT ![p] = @ + 1]
        BY <2>1, <2>3
      <4>2. Len(Frontend) + 1 \in Nat \ {0} /\ i[p] + 1 \in Nat \ {0}
        BY <1>t, <1>l DEF ProcessType
      <4>. QED
        BY <4>1, <4>2, <1>t DEF ProcessType
    <3>2. pc' \in [Procs -> Labels]
      BY <2>1, <2>3, <1>t DEF Continue, ProcessType, Labels
    <3>. QED
      BY <2>1, <2>3, <3>1, <3>2, <1>t DEF Continue, ProcessType
  <2>. QED
    BY <2>2, <2>3
<1>12. ASSUME Lookup(p)
       PROVE  ProcessType'
  BY <1>12, <1>t, <1>f DEF Lookup, Return, ProcessType, Labels, Works
<1>13. ASSUME Verify(p)
       PROVE  ProcessType'
  BY <1>13, <1>t, <1>f DEF Verify, Return, ProcessType, Labels, Works
<1>14. ASSUME Compile(p)
       PROVE  ProcessType'
  BY <1>14, <1>t, <1>f DEF Compile, Recheck, Return, ProcessType, Labels, Works
<1>15. ASSUME Publish(p)
       PROVE  ProcessType'
  BY <1>15, <1>t, <1>f DEF Publish, Return, ProcessType, Labels, Works
<1>16. ASSUME NEW f \in Lazy \cup Libraries, Load(p, f)
       PROVE  ProcessType'
  <2>1. f \in Names
    BY CompilerIdentityAssumption DEF Names
  <2>2. CASE Code(f) = Gone
    BY <1>16, <2>2, <1>t, <1>f DEF Load, Return, ProcessType, Labels, Works
  <2>3. CASE Code(f) # Gone
    <3>1. loaded' = [loaded EXCEPT ![p][f] = Code(f)]
      BY <1>16, <2>3 DEF Load
    <3>2. loaded' \in [Procs -> Loads]
      BY <2>1, <3>1, <1>t, <1>d, PointTypes
    <3>. QED
      BY <1>16, <2>3, <3>2, <1>t DEF Load, ProcessType
  <2>. QED
    BY <2>2, <2>3
<1>17. ASSUME NEW k \in Kernels, Launch(p, k)
       PROVE  ProcessType'
  BY <1>17, <1>t DEF Launch, ProcessType, Labels, Works
<1>18. ASSUME NEW q \in Procs, Fork(q, p)
       PROVE  ProcessType'
  BY <1>18, <1>t DEF Fork, StartOfChild, ProcessType, Labels
<1>. QED
  BY <1>1, <1>2, <1>3, <1>4, <1>5, <1>6, <1>7, <1>8, <1>9, <1>10, <1>11, <1>12,
     <1>13, <1>14, <1>15, <1>16, <1>17, <1>18 DEF Moves, Step

\* A process starts at the present time, or as its parent did.
LEMMA StartStep ==
  ASSUME TypeInv, \A r \in Procs : ProcInv(r), NEW p \in Procs, Moves(p)
  PROVE  StartInv(p)'
<1>t. /\ pc \in [Procs -> Labels] /\ work \in [Procs -> Works]
      /\ started \in [Procs -> Nat \cup {None}]
      /\ loaded \in [Procs -> Loads] /\ identity \in [Procs -> Identities]
      /\ memo \in [Procs -> Memos] /\ i \in [Procs -> Nat \ {0}]
      /\ digest \in [Procs -> FileCodes] /\ hand \in [Procs -> Signatures \cup {None}]
  BY DEF TypeInv, ProcessType
<1>i. \A r \in Procs : StartInv(r) /\ WorkInv(r)
  BY DEF ProcInv
<1>c. clock \in Nat \ {0} /\ clock - 1 \in Nat
  BY DiskType
<1>1. ASSUME Start(p)
      PROVE  StartInv(p)'
  BY <1>1, <1>t, <1>i, <1>c DEF Start, StartInv, WorkInv, Signing
<1>2. ASSUME Import(p)
      PROVE  StartInv(p)'
  BY <1>2, <1>t, <1>i, <1>c DEF Import, StartInv, WorkInv, Signing
<1>3. ASSUME Derive(p)
      PROVE  StartInv(p)'
  BY <1>3, <1>t, <1>i, <1>c DEF Derive, StartInv, WorkInv, Signing
<1>4. ASSUME Sign(p)
      PROVE  StartInv(p)'
  BY <1>4, <1>t, <1>i, <1>c DEF Sign, StartInv, WorkInv, Signing
<1>5. ASSUME Read(p)
      PROVE  StartInv(p)'
  BY <1>5, <1>t, <1>i, <1>c DEF Read, StartInv, WorkInv, Signing
<1>6. ASSUME Keep(p)
      PROVE  StartInv(p)'
  BY <1>6, <1>t, <1>i, <1>c DEF Keep, StartInv, WorkInv, Signing
<1>7. ASSUME Signed(p)
      PROVE  StartInv(p)'
  BY <1>7, <1>t, <1>i, <1>c DEF Signed, Matches, GiveUp, Unusable, Return, Continue,
      Status, StartInv, WorkInv, Signing
<1>8. ASSUME Usable(p)
      PROVE  StartInv(p)'
  BY <1>8, <1>t, <1>i, <1>c DEF Usable, GiveUp, Unusable, Return, Continue,
      StartInv, WorkInv, Signing
<1>9. ASSUME CheckSource(p)
      PROVE  StartInv(p)'
  BY <1>9, <1>t, <1>i, <1>c DEF CheckSource, GiveUp, Unusable, Return, Continue,
      StartInv, WorkInv, Signing
<1>10. ASSUME CheckAge(p)
       PROVE  StartInv(p)'
  BY <1>10, <1>t, <1>i, <1>c DEF CheckAge, GiveUp, Unusable, Return, Continue,
      StartInv, WorkInv, Signing
<1>11. ASSUME CheckLibrary(p)
       PROVE  StartInv(p)'
  BY <1>11, <1>t, <1>i, <1>c DEF CheckLibrary, GiveUp, Unusable, Return, Continue,
      StartInv, WorkInv, Signing
<1>12. ASSUME Lookup(p)
       PROVE  StartInv(p)'
  BY <1>12, <1>t, <1>i, <1>c DEF Lookup, Return, StartInv, WorkInv, Signing
<1>13. ASSUME Verify(p)
       PROVE  StartInv(p)'
  BY <1>13, <1>t, <1>i, <1>c DEF Verify, Return, StartInv, WorkInv, Signing
<1>14. ASSUME Compile(p)
       PROVE  StartInv(p)'
  BY <1>14, <1>t, <1>i, <1>c DEF Compile, Return, Recheck, StartInv, WorkInv,
      Signing
<1>15. ASSUME Publish(p)
       PROVE  StartInv(p)'
  BY <1>15, <1>t, <1>i, <1>c DEF Publish, Return, StartInv, WorkInv, Signing
<1>16. ASSUME NEW f \in Lazy \cup Libraries, Load(p, f)
       PROVE  StartInv(p)'
  BY <1>16, <1>t, <1>i, <1>c DEF Load, Return, StartInv, WorkInv, Signing
<1>17. ASSUME NEW k \in Kernels, Launch(p, k)
       PROVE  StartInv(p)'
  BY <1>17, <1>t, <1>i, <1>c DEF Launch, StartInv, WorkInv, Signing
<1>18. ASSUME NEW q \in Procs, Fork(q, p)
       PROVE  StartInv(p)'
  BY <1>18, <1>t, <1>i, <1>c DEF Fork, StartOfChild, StartInv, WorkInv, Signing
<1>. QED
  BY <1>1, <1>2, <1>3, <1>4, <1>5, <1>6, <1>7, <1>8, <1>9, <1>10, <1>11, <1>12,
      <1>13, <1>14, <1>15, <1>16, <1>17, <1>18 DEF Moves, Step

\* What has been loaded stays loaded.
LEMMA MoreLoaded ==
  ASSUME TypeInv, NEW p \in Procs, NEW f \in Names,
         loaded' = [loaded EXCEPT ![p][f] = Code(f)]
  PROVE  \A g \in Names : loaded[p][g] # None => loaded'[p][g] # None
<1>1. loaded[p] \in Loads /\ Code(f) \in Codes
  BY DiskType DEF TypeInv, ProcessType
<1>2. loaded'[p] = [loaded[p] EXCEPT ![f] = Code(f)]
  BY DEF TypeInv, ProcessType
<1>. QED
  BY <1>1, <1>2, NoneIsNew DEF Loads

\* How a call, or the check of its identity, ends.
LEMMA EndEffect ==
  ASSUME TypeInv, NEW p \in Procs, Return(p) \/ Unusable(p)
  PROVE  /\ \/ pc'[p] = "idle" /\ work'[p] = "look"
            \/ pc'[p] = "load" /\ work'[p] = "private" /\ work[p] = "look"
         /\ i'[p] = 1
  BY DEF Return, Unusable, TypeInv, ProcessType

\* A process gets on with what it works on.
LEMMA WorkStep ==
  ASSUME TypeInv, \A r \in Procs : ProcInv(r), NEW p \in Procs, Moves(p)
  PROVE  WorkInv(p)'
<1>t. /\ pc \in [Procs -> Labels] /\ work \in [Procs -> Works]
      /\ started \in [Procs -> Nat \cup {None}]
      /\ loaded \in [Procs -> Loads] /\ identity \in [Procs -> Identities]
      /\ memo \in [Procs -> Memos] /\ i \in [Procs -> Nat \ {0}]
      /\ digest \in [Procs -> FileCodes] /\ hand \in [Procs -> Signatures \cup {None}]
  BY DEF TypeInv, ProcessType
<1>i. StartInv(p) /\ WorkInv(p)
  BY DEF ProcInv
<1>q. \A q \in Procs : StartInv(q) /\ WorkInv(q)
  BY DEF ProcInv
<1>l. /\ Len(Frontend) \in Nat \ {0} /\ Len(Scanned) = Len(Frontend) + Len(Native)
      /\ Len(Native) \in Nat \ {0}
  BY ScannedFiles
<1>n. \A j \in 1..Len(Scanned) : Scanned[j] \in Names
  BY ScannedFiles DEF Names
<1>1. ASSUME Start(p)
      PROVE  WorkInv(p)'
  BY <1>1, <1>t, <1>i, <1>q, <1>l DEF Start, StartInv, WorkInv, Signing
<1>2. ASSUME Import(p)
      PROVE  WorkInv(p)'
  <2>1. /\ work'[p] = work[p] /\ identity'[p] = identity[p] /\ pc[p] = "import"
        /\ pc'[p] \in {"idle", "import", "failed"} /\ (pc'[p] = "idle" => i'[p] = 1)
    BY <1>2, <1>t DEF Import
  <2>2. loaded' = loaded \/ \E j \in i[p]..Len(Frontend) :
                             loaded' = [loaded EXCEPT ![p][Frontend[j]] = Code(Frontend[j])]
    BY <1>2 DEF Import
  <2>3. \A j \in i[p]..Len(Frontend) : Frontend[j] \in Names
    BY <1>t, <1>l, ScannedFiles DEF Names
  <2>4. \A f \in Names : loaded[p][f] # None => loaded'[p][f] # None
    BY <2>2, <2>3, MoreLoaded
  <2>. QED
    BY <2>1, <2>4, <1>i DEF WorkInv, Signing
<1>3. ASSUME Derive(p)
      PROVE  WorkInv(p)'
  <2>1. /\ work'[p] = work[p] /\ loaded' = loaded /\ pc[p] = "derive"
        /\ \/ identity'[p] = identity[p]
           \/ identity'[p] = [identity[p] EXCEPT !.is = "no sources"]
    BY <1>3, <1>t DEF Derive
  <2>2. \/ pc'[p] = "derive" /\ i[p] <= Len(Frontend) /\ i'[p] = i[p] + 1
        \/ pc'[p] = "sign" /\ i'[p] = Len(Frontend) + 1
        \/ pc'[p] = "sign" /\ i'[p] = i[p] /\ ~(i[p] <= Len(Frontend))
    BY <1>3, <1>t DEF Derive
  <2>3. identity'[p] = identity[p] \/ identity'[p].is = "no sources"
    BY <2>1, <1>t DEF Identities
  <2>4. i'[p] <= Len(Frontend) + 1 /\ (pc'[p] = "sign" => i'[p] = Len(Frontend) + 1)
    <3>1. i[p] <= Len(Frontend) + 1 /\ i[p] \in Nat /\ Len(Frontend) \in Nat
      BY <2>1, <1>t, <1>i, <1>l DEF WorkInv
    <3>2. CASE pc'[p] = "derive"
      BY <2>2, <3>1, <3>2
    <3>3. CASE pc'[p] # "derive"
      BY <2>2, <3>1, <3>3
    <3>. QED
      BY <3>2, <3>3
  <2>5. /\ pc'[p] \in {"derive", "sign"}
        /\ pc'[p] = "sign" => Len(Frontend) < i'[p] /\ i'[p] <= Len(Scanned) + 1
    BY <2>2, <2>4, <1>l
  <2>. QED
    BY <2>1, <2>3, <2>4, <2>5, <1>i DEF WorkInv, Signing
<1>4. ASSUME Sign(p)
      PROVE  WorkInv(p)'
  <2>1. /\ work'[p] = work[p] /\ loaded' = loaded /\ pc[p] = "sign"
        /\ identity'[p] = identity[p] /\ i[p] <= Len(Scanned)
        /\ \/ pc'[p] = "sign" /\ i'[p] = i[p] + 1
           \/ /\ pc'[p] = "read" /\ i'[p] = i[p]
              /\ hand'[p] = [changed |-> Changed(Scanned[i[p]]), code |-> Gone]
    BY <1>4, <1>t DEF Sign
  <2>2. i[p] \in 1..Len(Scanned)
    BY <2>1, <1>t, <1>l
  <2>3. Changed(Scanned[i[p]]) \in Nat
    BY <2>2, <1>n, DiskType
  <2>4. pc'[p] = "read" => hand'[p] \in Signatures
    BY <2>1, <2>3, NoneIsNew DEF Signatures
  <2>. QED
    BY <2>1, <2>4, <1>t, <1>i, <1>l DEF WorkInv, Signing
<1>5. ASSUME Read(p)
      PROVE  WorkInv(p)'
  <2>1. /\ work'[p] = work[p] /\ loaded' = loaded /\ pc[p] = "read" /\ pc'[p] = "keep"
        /\ identity'[p] = identity[p] /\ i'[p] = i[p]
        /\ hand'[p] = [hand[p] EXCEPT !.code = Code(Scanned[i[p]])]
    BY <1>5, <1>t DEF Read
  <2>2. i[p] \in 1..Len(Scanned) /\ hand[p] \in Signatures
    BY <2>1, <1>t, <1>l, <1>i DEF WorkInv, Signing
  <2>3. hand'[p] \in Signatures
    BY <2>1, <2>2, <1>n, DiskType DEF Signatures
  <2>. QED
    BY <2>1, <2>3, <1>i DEF WorkInv, Signing
<1>6. ASSUME Keep(p)
      PROVE  WorkInv(p)'
  <2>1. /\ work'[p] = work[p] /\ loaded' = loaded /\ pc[p] = "keep" /\ pc'[p] = "sign"
        /\ identity'[p] = identity[p] /\ i'[p] = i[p] + 1
    BY <1>6, <1>t DEF Keep
  <2>. QED
    BY <2>1, <1>t, <1>i, <1>l DEF WorkInv, Signing
<1>7. ASSUME Signed(p)
      PROVE  WorkInv(p)'
  <2>1. CASE work[p] = "derive"
    <3>1. /\ loaded' = loaded /\ pc'[p] = "usable" /\ work'[p] = "look" /\ i'[p] = 1
          /\ identity'[p] = [is |-> Status(p), of |-> digest[p]]
      BY <1>7, <2>1, <1>t DEF Signed
    <3>2. identity'[p].is = Status(p)
      BY <3>1
    <3>3. Status(p) # "underived"
      BY Zenon DEF Status
    <3>. QED
      BY <3>1, <3>2, <3>3 DEF WorkInv, Signing
  <2>2. CASE work[p] # "derive"
    <3>1. /\ UNCHANGED <<loaded, identity>> /\ pc[p] = "sign"
          /\ \/ Unusable(p)
             \/ /\ work'[p] = work[p] /\ i'[p] = 1
                /\ pc'[p] = IF work[p] = "look" THEN "lookup" ELSE "publish"
      BY <1>7, <2>2, <1>t DEF Signed, GiveUp, Continue
    <3>. QED
      BY <2>2, <3>1, <1>t, <1>i, <1>l, EndEffect DEF WorkInv, Signing
  <2>. QED
    BY <2>1, <2>2
<1>8. ASSUME Usable(p)
      PROVE  WorkInv(p)'
  <2>1. /\ UNCHANGED <<loaded, identity>> /\ pc[p] = "usable"
        /\ \/ Return(p) \/ Unusable(p)
           \/ work'[p] = work[p] /\ pc'[p] = "source" /\ i'[p] = i[p]
    BY <1>8, <1>t DEF Usable, GiveUp, Continue
  <2>. QED
    BY <2>1, <1>t, <1>i, <1>l, EndEffect DEF WorkInv, Signing
<1>9. ASSUME CheckSource(p)
      PROVE  WorkInv(p)'
  BY <1>9, <1>t, <1>i, <1>q, <1>l DEF CheckSource, GiveUp, Unusable, Return,
      Continue, StartInv, WorkInv, Signing
<1>10. ASSUME CheckAge(p)
       PROVE  WorkInv(p)'
  <2>1. /\ UNCHANGED <<loaded, identity>> /\ pc[p] = "age"
        /\ \/ Return(p) \/ Unusable(p)
           \/ work'[p] = work[p] /\ pc'[p] = "source" /\ i'[p] = i[p] + 1
    BY <1>10, <1>t DEF CheckAge, GiveUp, Continue
  <2>. QED
    BY <2>1, <1>t, <1>i, <1>l, EndEffect DEF WorkInv, Signing
<1>11. ASSUME CheckLibrary(p)
       PROVE  WorkInv(p)'
  BY <1>11, <1>t, <1>i, <1>q, <1>l DEF CheckLibrary, GiveUp, Unusable, Return,
      Continue, StartInv, WorkInv, Signing
<1>12. ASSUME Lookup(p)
       PROVE  WorkInv(p)'
  <2>1. /\ UNCHANGED <<loaded, identity>> /\ pc[p] = "lookup"
        /\ \/ Return(p) \/ Unusable(p)
           \/ work'[p] = "shared" /\ pc'[p] = "load" /\ i'[p] = i[p]
    BY <1>12, <1>t DEF Lookup
  <2>. QED
    BY <2>1, <1>t, <1>i, <1>l, EndEffect DEF WorkInv, Signing
<1>13. ASSUME Verify(p)
       PROVE  WorkInv(p)'
  BY <1>13, <1>t, <1>i, <1>q, <1>l DEF Verify, Return, StartInv, WorkInv, Signing
<1>14. ASSUME Compile(p)
       PROVE  WorkInv(p)'
  <2>1. /\ UNCHANGED <<loaded, identity>> /\ pc[p] = "load"
        /\ \A f \in Names : loaded[p][f] # None
        /\ \/ Return(p)
           \/ work'[p] = "made" /\ pc'[p] = "usable" /\ i'[p] = i[p] /\ work[p] = "shared"
    BY <1>14, <1>t DEF Compile, Recheck
  <2>. QED
    BY <2>1, <1>t, <1>i, <1>l, EndEffect DEF WorkInv, Signing
<1>15. ASSUME Publish(p)
       PROVE  WorkInv(p)'
  BY <1>15, <1>t, <1>i, <1>q, <1>l DEF Publish, Return, StartInv, WorkInv, Signing
<1>16. ASSUME NEW f \in Lazy \cup Libraries, Load(p, f)
       PROVE  WorkInv(p)'
  <2>1. f \in Names
    BY CompilerIdentityAssumption DEF Names
  <2>2. CASE Code(f) = Gone
    <3>1. UNCHANGED <<loaded, identity>> /\ Return(p)
      BY <1>16, <2>2 DEF Load
    <3>2. pc'[p] = "idle" /\ work'[p] = "look" /\ i'[p] = 1
      BY <3>1, <1>t DEF Return
    <3>. QED
      BY <3>1, <3>2, <1>i DEF WorkInv, Signing
  <2>3. CASE Code(f) # Gone
    <3>1. /\ UNCHANGED <<pc, work, i, hand, identity>>
          /\ loaded' = [loaded EXCEPT ![p][f] = Code(f)]
      BY <1>16, <2>3 DEF Load
    <3>2. \A g \in Names : loaded[p][g] # None => loaded'[p][g] # None
      BY <2>1, <3>1, MoreLoaded
    <3>. QED
      BY <3>1, <3>2, <1>i DEF WorkInv
  <2>. QED
    BY <2>2, <2>3
<1>17. ASSUME NEW k \in Kernels, Launch(p, k)
       PROVE  WorkInv(p)'
  <2>1. /\ UNCHANGED <<loaded, identity>> /\ pc[p] = "idle" /\ i'[p] = i[p]
        /\ \/ identity[p] = Underived /\ pc'[p] = "derive" /\ work'[p] = "derive"
           \/ identity[p] # Underived /\ pc'[p] = "usable" /\ work'[p] = work[p]
    BY <1>17, <1>t DEF Launch
  <2>. QED
    BY <2>1, <1>t, <1>i, <1>l DEF WorkInv, Signing, Underived
<1>18. ASSUME NEW q \in Procs, Fork(q, p)
       PROVE  WorkInv(p)'
  BY <1>18, <1>t, <1>i, <1>q, <1>l DEF Fork, StartOfChild, StartInv, WorkInv,
      Signing
<1>. QED
  BY <1>1, <1>2, <1>3, <1>4, <1>5, <1>6, <1>7, <1>8, <1>9, <1>10, <1>11, <1>12,
      <1>13, <1>14, <1>15, <1>16, <1>17, <1>18 DEF Moves, Step

\* A file that passes the check of its age is what the process loaded and named.
LEMMA OldAgrees ==
  ASSUME TypeInv, NEW p \in Procs, SeenInv(p), identity[p].is = "known",
         started[p] # None, NEW f \in Names, Code(f) # Gone, ~TooNew(p, f)
  PROVE  Agreed(p, f)
<1>1. started[p] \in Nat /\ Changed(f) \in Nat
  BY DiskType DEF TypeInv, ProcessType
<1>2. Old(p, f)
  BY <1>1 DEF Old, TooNew
<1>. QED
  BY <1>2 DEF SeenInv, Agreed

\* The check of the sources passes those that agree.
LEMMA SourceStep ==
  ASSUME TypeInv, \A r \in Procs : ProcInv(r), NEW p \in Procs, Moves(p)
  PROVE  SourceInv(p)'
<1>t. /\ pc \in [Procs -> Labels] /\ work \in [Procs -> Works]
      /\ started \in [Procs -> Nat \cup {None}]
      /\ loaded \in [Procs -> Loads] /\ identity \in [Procs -> Identities]
      /\ memo \in [Procs -> Memos] /\ i \in [Procs -> Nat \ {0}]
      /\ digest \in [Procs -> FileCodes] /\ hand \in [Procs -> Signatures \cup {None}]
  BY DEF TypeInv, ProcessType
<1>i. /\ WorkInv(p) /\ SeenInv(p) /\ SourceInv(p) /\ CheckInv(p)
      /\ \A q \in Procs : WorkInv(q) /\ SourceInv(q) /\ CheckInv(q)
  BY DEF ProcInv
<1>l. /\ Len(Frontend) \in Nat \ {0} /\ Len(Scanned) = Len(Frontend) + Len(Native)
      /\ Len(Native) \in Nat \ {0}
      /\ \A j \in 1..Len(Frontend) : Scanned[j] = Frontend[j] /\ Frontend[j] \in Sources
      /\ \A j \in (Len(Frontend) + 1)..Len(Scanned) : Scanned[j] \in Libraries
      /\ \A f \in Sources : \E j \in 1..Len(Frontend) : Frontend[j] = f
      /\ \A f \in Libraries :
           \E j \in (Len(Frontend) + 1)..Len(Scanned) : Scanned[j] = f
  BY ScannedFiles
<1>1. ASSUME Start(p)
      PROVE  SourceInv(p)'
  BY <1>1, <1>t, <1>i, <1>l DEF Start, SourceInv, Checking, WorkInv, Signing, Agreed
<1>2. ASSUME Import(p)
      PROVE  SourceInv(p)'
  BY <1>2, <1>t, <1>i, <1>l DEF Import, SourceInv, Checking, WorkInv, Signing,
      Agreed
<1>3. ASSUME Derive(p)
      PROVE  SourceInv(p)'
  <2>1. pc'[p] \in {"derive", "sign"}
    BY <1>3, <1>t DEF Derive
  <2>. QED
    BY <2>1 DEF SourceInv, Checking
<1>4. ASSUME Sign(p)
      PROVE  SourceInv(p)'
  BY <1>4, <1>t, <1>i, <1>l DEF Sign, SourceInv, Checking, WorkInv, Signing, Agreed
<1>5. ASSUME Read(p)
      PROVE  SourceInv(p)'
  BY <1>5, <1>t, <1>i, <1>l DEF Read, SourceInv, Checking, WorkInv, Signing, Agreed
<1>6. ASSUME Keep(p)
      PROVE  SourceInv(p)'
  BY <1>6, <1>t, <1>i, <1>l DEF Keep, SourceInv, Checking, WorkInv, Signing, Agreed
<1>7. ASSUME Signed(p)
      PROVE  SourceInv(p)'
  <2>1. pc'[p] \in {"usable", "lookup", "publish", "idle", "load"}
    BY <1>7, <1>t, EndEffect DEF Signed, GiveUp, Continue
  <2>. QED
    BY <2>1 DEF SourceInv, Checking
<1>8. ASSUME Usable(p)
      PROVE  SourceInv(p)'
  <2>1. /\ UNCHANGED <<identity, started>> /\ pc[p] = "usable"
        /\ \/ Return(p) \/ Unusable(p)
           \/ /\ pc'[p] = "source" /\ i'[p] = i[p] /\ started[p] # None
              /\ identity[p].is \notin {"no compiler", "no sources"}
    BY <1>8, <1>t DEF Usable, GiveUp, Continue
  <2>2. identity[p].is = "known" \/ identity[p].is \in {"no compiler", "no sources"}
    BY <2>1, <1>t, <1>i DEF WorkInv, Identities
  <2>3. i[p] = 1
    BY <2>1, <1>i DEF WorkInv
  <2>4. CASE pc'[p] \in {"source", "age"}
    <3>1. pc'[p] = "source" /\ i'[p] = 1 /\ started'[p] # None /\ identity'[p].is = "known"
      BY <2>1, <2>2, <2>3, <2>4, EndEffect
    <3>2. 1..(i'[p] - 1) = {}
      BY <3>1
    <3>. QED
      BY <3>1, <3>2 DEF SourceInv
  <2>5. CASE pc'[p] \notin {"source", "age"}
    BY <2>5 DEF SourceInv, Checking
  <2>. QED
    BY <2>4, <2>5
<1>9. ASSUME CheckSource(p)
      PROVE  SourceInv(p)'
  <2>1. /\ UNCHANGED <<identity, started, loaded>> /\ pc[p] = "source"
        /\ \/ Unusable(p) \/ pc'[p] = "stat"
           \/ /\ i[p] <= Len(Frontend)
              /\ digest'[p] = [digest[p] EXCEPT ![Frontend[i[p]]] = Code(Frontend[i[p]])]
              /\ \/ Code(Frontend[i[p]]) = Gone /\ i'[p] = i[p] + 1 /\ pc'[p] = "source"
                 \/ i'[p] = i[p] /\ pc'[p] = "age"
    BY <1>9, <1>t, <1>l DEF CheckSource, GiveUp, Continue
  <2>2. CASE Unusable(p) \/ pc'[p] = "stat"
    BY <2>2, EndEffect DEF SourceInv, Checking
  <2>3. CASE ~Unusable(p) /\ pc'[p] # "stat"
    <3> DEFINE f == Frontend[i[p]]
    <3>1. i[p] \in 1..Len(Frontend)
      BY <2>1, <2>3, <1>t, <1>l
    <3>2. f \in Names /\ \A j \in 1..(i[p] - 1) : Frontend[j] \in Names
      BY <3>1, <1>l DEF Names
    <3>3. digest'[p][f] = Code(f) /\ \A g \in Names : g # f => digest'[p][g] = digest[p][g]
      BY <2>1, <2>3, <3>2, <1>t DEF FileCodes
    <3>4. identity[p].is = "known" /\ started[p] # None
      BY <2>1, <1>i DEF SourceInv, Checking
    <3>5. \A j \in 1..(i[p] - 1) : Agreed(p, Frontend[j]) \/ digest[p][Frontend[j]] = Gone
      BY <2>1, <1>i DEF SourceInv, Checking
    <3>6. \A j \in 1..(i'[p] - 1) :
            \/ Agreed(p, Frontend[j]) \/ digest'[p][Frontend[j]] = Gone
            \/ pc'[p] = "age" /\ Frontend[j] = Frontend[i'[p]]
      <4>1. CASE i'[p] = i[p] + 1 /\ Code(f) = Gone
        <5>1. \A j \in 1..(i'[p] - 1) : j = i[p] \/ j \in 1..(i[p] - 1)
          BY <4>1, <3>1
        <5>. QED
          BY <4>1, <5>1, <3>2, <3>3, <3>5
      <4>2. CASE i'[p] = i[p] /\ pc'[p] = "age"
        BY <4>2, <3>2, <3>3, <3>5
      <4>. QED
        BY <2>1, <2>3, <4>1, <4>2
    <3>. QED
      BY <2>1, <3>4, <3>6 DEF SourceInv, Agreed
  <2>. QED
    BY <2>2, <2>3
<1>10. ASSUME CheckAge(p)
       PROVE  SourceInv(p)'
  <2> DEFINE f == Frontend[i[p]]
  <2>1. /\ UNCHANGED <<identity, started, loaded>> /\ pc[p] = "age"
        /\ \/ Unusable(p)
           \/ /\ Code(f) # Gone /\ ~TooNew(p, f) /\ digest'[p] = digest[p]
              /\ i'[p] = i[p] + 1 /\ pc'[p] = "source"
    BY <1>10, <1>t DEF CheckAge, GiveUp, Continue
  <2>2. CASE Unusable(p)
    BY <2>2, EndEffect DEF SourceInv, Checking
  <2>3. CASE ~Unusable(p)
    <3>1. i[p] \in 1..Len(Frontend)
      BY <2>1, <1>t, <1>i, <1>l DEF WorkInv
    <3>2. identity[p].is = "known" /\ started[p] # None
      BY <2>1, <1>i DEF SourceInv, Checking
    <3>3. f \in Names
      BY <3>1, <1>l DEF Names
    <3>4. Agreed(p, f)
      BY <2>1, <2>3, <3>2, <3>3, <1>i, OldAgrees
    <3>5. \A j \in 1..(i[p] - 1) : Agreed(p, Frontend[j]) \/ digest[p][Frontend[j]] = Gone
      BY <2>1, <3>4, <1>i DEF SourceInv, Checking
    <3>6. \A j \in 1..(i'[p] - 1) : j = i[p] \/ j \in 1..(i[p] - 1)
      BY <2>1, <2>3, <3>1
    <3>. QED
      BY <2>1, <2>3, <3>2, <3>4, <3>5, <3>6 DEF SourceInv, Agreed
  <2>. QED
    BY <2>2, <2>3
<1>11. ASSUME CheckLibrary(p)
       PROVE  SourceInv(p)'
  BY <1>11, <1>t, <1>i, <1>l DEF CheckLibrary, GiveUp, Unusable, Return, Continue,
      SourceInv, Checking, WorkInv, Signing, Agreed
<1>12. ASSUME Lookup(p)
       PROVE  SourceInv(p)'
  BY <1>12, <1>t, <1>i, <1>l DEF Lookup, Return, SourceInv, Checking, WorkInv,
      Signing, Agreed
<1>13. ASSUME Verify(p)
       PROVE  SourceInv(p)'
  BY <1>13, <1>t, <1>i, <1>l DEF Verify, Return, SourceInv, Checking, WorkInv,
      Signing, Agreed
<1>14. ASSUME Compile(p)
       PROVE  SourceInv(p)'
  BY <1>14, <1>t, <1>i, <1>l DEF Compile, Return, Recheck, SourceInv, Checking,
      WorkInv, Signing, Agreed
<1>15. ASSUME Publish(p)
       PROVE  SourceInv(p)'
  BY <1>15, <1>t, <1>i, <1>l DEF Publish, Return, SourceInv, Checking, WorkInv,
      Signing, Agreed
<1>16. ASSUME NEW f \in Lazy \cup Libraries, Load(p, f)
       PROVE  SourceInv(p)'
  BY <1>16, <1>t, <1>i, <1>l DEF Load, Return, SourceInv, Checking, WorkInv,
      Signing, Agreed
<1>17. ASSUME NEW k \in Kernels, Launch(p, k)
       PROVE  SourceInv(p)'
  BY <1>17, <1>t, <1>i, <1>l DEF Launch, SourceInv, Checking, WorkInv, Signing,
      Agreed
<1>18. ASSUME NEW q \in Procs, Fork(q, p)
       PROVE  SourceInv(p)'
  BY <1>18, <1>t, <1>i, <1>l DEF Fork, StartOfChild, SourceInv, Checking, WorkInv,
      Signing, Agreed
<1>. QED
  BY <1>1, <1>2, <1>3, <1>4, <1>5, <1>6, <1>7, <1>8, <1>9, <1>10, <1>11, <1>12,
      <1>13, <1>14, <1>15, <1>16, <1>17, <1>18 DEF Moves, Step

\* What passes the checks agrees with the identity.
LEMMA CheckStep ==
  ASSUME TypeInv, \A r \in Procs : ProcInv(r), NEW p \in Procs, Moves(p)
  PROVE  CheckInv(p)'
<1>t. /\ pc \in [Procs -> Labels] /\ work \in [Procs -> Works]
      /\ started \in [Procs -> Nat \cup {None}]
      /\ loaded \in [Procs -> Loads] /\ identity \in [Procs -> Identities]
      /\ memo \in [Procs -> Memos] /\ i \in [Procs -> Nat \ {0}]
      /\ digest \in [Procs -> FileCodes] /\ hand \in [Procs -> Signatures \cup {None}]
  BY DEF TypeInv, ProcessType
<1>i. /\ WorkInv(p) /\ SeenInv(p) /\ SourceInv(p) /\ CheckInv(p)
      /\ \A q \in Procs : WorkInv(q) /\ SourceInv(q) /\ CheckInv(q)
  BY DEF ProcInv
<1>l. /\ Len(Frontend) \in Nat \ {0} /\ Len(Scanned) = Len(Frontend) + Len(Native)
      /\ Len(Native) \in Nat \ {0}
      /\ \A j \in 1..Len(Frontend) : Scanned[j] = Frontend[j] /\ Frontend[j] \in Sources
      /\ \A j \in (Len(Frontend) + 1)..Len(Scanned) : Scanned[j] \in Libraries
      /\ \A f \in Sources : \E j \in 1..Len(Frontend) : Frontend[j] = f
      /\ \A f \in Libraries :
           \E j \in (Len(Frontend) + 1)..Len(Scanned) : Scanned[j] = f
  BY ScannedFiles
<1>1. ASSUME Start(p)
      PROVE  CheckInv(p)'
  BY <1>1, <1>t, <1>i, <1>l DEF Start, CheckInv, Checked, Checking, WorkInv,
      Signing, Agreed
<1>2. ASSUME Import(p)
      PROVE  CheckInv(p)'
  BY <1>2, <1>t, <1>i, <1>l DEF Import, CheckInv, Checked, Checking, WorkInv,
      Signing, Agreed
<1>3. ASSUME Derive(p)
      PROVE  CheckInv(p)'
  <2>1. pc'[p] \in {"derive", "sign"} /\ work'[p] = "derive"
    BY <1>3, <1>t, <1>i DEF Derive, WorkInv
  <2>. QED
    BY <2>1 DEF CheckInv, Checked, Signing
<1>4. ASSUME Sign(p)
      PROVE  CheckInv(p)'
  BY <1>4, <1>t, <1>i, <1>l DEF Sign, CheckInv, Checked, Checking, WorkInv, Signing,
      Agreed
<1>5. ASSUME Read(p)
      PROVE  CheckInv(p)'
  BY <1>5, <1>t, <1>i, <1>l DEF Read, CheckInv, Checked, Checking, WorkInv, Signing,
      Agreed
<1>6. ASSUME Keep(p)
      PROVE  CheckInv(p)'
  BY <1>6, <1>t, <1>i, <1>l DEF Keep, CheckInv, Checked, Checking, WorkInv, Signing,
      Agreed
<1>7. ASSUME Signed(p)
      PROVE  CheckInv(p)'
  <2>1. CASE work[p] = "derive" \/ Unusable(p)
    <3>1. pc'[p] \in {"usable", "idle", "load"}
      BY <1>7, <2>1, <1>t, EndEffect DEF Signed
    <3>. QED
      BY <3>1 DEF CheckInv, Checked, Signing
  <2>2. CASE work[p] # "derive" /\ ~Unusable(p)
    <3>1. /\ UNCHANGED <<identity, started, loaded, removed>> /\ pc[p] = "sign"
          /\ pc'[p] \in {"lookup", "publish"}
      BY <1>7, <2>2, <1>t DEF Signed, GiveUp, Continue
    <3>. QED
      BY <2>2, <3>1, <1>i DEF CheckInv, Checked, Signing, Agreed
  <2>. QED
    BY <2>1, <2>2
<1>8. ASSUME Usable(p)
      PROVE  CheckInv(p)'
  <2>1. pc'[p] \in {"source", "idle", "load"}
    BY <1>8, <1>t, EndEffect DEF Usable, GiveUp, Continue
  <2>. QED
    BY <2>1 DEF CheckInv, Checked, Signing
<1>9. ASSUME CheckSource(p)
      PROVE  CheckInv(p)'
  <2>1. \/ pc'[p] \in {"source", "age", "idle", "load"}
        \/ /\ pc'[p] = "stat" /\ i'[p] = i[p] /\ i[p] > Len(Frontend)
           /\ \A f \in Sources : digest[p][f] = identity[p].of[f]
    BY <1>9, <1>t, EndEffect DEF CheckSource, GiveUp, Continue
  <2>2. CASE pc'[p] \in {"source", "age", "idle", "load"}
    BY <2>2 DEF CheckInv, Checked, Signing
  <2>3. CASE pc'[p] = "stat"
    <3>1. pc[p] = "source" /\ UNCHANGED <<identity, started, loaded, removed>>
      BY <1>9 DEF CheckSource
    <3>2. i[p] = Len(Frontend) + 1
      BY <2>1, <2>3, <3>1, <1>t, <1>i, <1>l DEF WorkInv
    <3>3. /\ identity[p].is = "known" /\ started[p] # None
          /\ \A j \in 1..Len(Frontend) :
               Agreed(p, Frontend[j]) \/ digest[p][Frontend[j]] = Gone
      BY <3>1, <3>2, <1>i, <1>l DEF SourceInv, Checking
    <3>4. \A f \in Sources : Agreed(p, f)
      BY <2>1, <2>3, <3>3, <1>l DEF Agreed
    <3>. QED
      BY <2>1, <2>3, <3>1, <3>2, <3>3, <3>4, <1>l DEF CheckInv, Agreed
  <2>. QED
    BY <2>1, <2>2, <2>3
<1>10. ASSUME CheckAge(p)
       PROVE  CheckInv(p)'
  BY <1>10, <1>t, <1>i, <1>l DEF CheckAge, GiveUp, Unusable, Return, Continue,
      CheckInv, Checked, Checking, WorkInv, Signing, Agreed
<1>11. ASSUME CheckLibrary(p)
       PROVE  CheckInv(p)'
  <2>1. /\ UNCHANGED <<identity, started, loaded, removed>> /\ pc[p] = "stat"
        /\ \/ Unusable(p)
           \/ pc'[p] = "sign" /\ i[p] > Len(Scanned)
           \/ /\ pc'[p] = "stat" /\ i[p] <= Len(Scanned) /\ i'[p] = i[p] + 1
              /\ Code(Scanned[i[p]]) = Gone \/ ~TooNew(p, Scanned[i[p]])
    BY <1>11, <1>t, <1>l DEF CheckLibrary, GiveUp, Continue
  <2>2. /\ identity[p].is = "known" /\ started[p] # None
        /\ \A f \in Sources : Agreed(p, f)
        /\ \A f \in Libraries : \/ Agreed(p, f) \/ f \in removed
                                \/ \E j \in i[p]..Len(Scanned) : Scanned[j] = f
    BY <2>1, <1>i DEF CheckInv, Checked
  <2>3. CASE Unusable(p)
    BY <2>3, EndEffect DEF CheckInv, Checked, Signing
  <2>4. CASE pc'[p] = "sign" /\ i[p] > Len(Scanned)
    <3>1. \A f \in Libraries : Agreed(p, f) \/ f \in removed
      BY <2>2, <2>4, <1>t, <1>l
    <3>. QED
      BY <2>1, <2>2, <3>1 DEF CheckInv, Agreed
  <2>5. CASE /\ pc'[p] = "stat" /\ i[p] <= Len(Scanned) /\ i'[p] = i[p] + 1
             /\ Code(Scanned[i[p]]) = Gone \/ ~TooNew(p, Scanned[i[p]])
    <3>1. Scanned[i[p]] \in Libraries
      BY <2>1, <2>5, <1>t, <1>i, <1>l DEF WorkInv
    <3>2. Agreed(p, Scanned[i[p]]) \/ Scanned[i[p]] \in removed
      BY <2>2, <2>5, <3>1, <1>i, OldAgrees, DiskType DEF Names
    <3>3. \A j \in i[p]..Len(Scanned) : j = i[p] \/ j \in i'[p]..Len(Scanned)
      BY <2>5, <1>t, <1>l
    <3>4. \A f \in Libraries : \/ Agreed(p, f) \/ f \in removed
                               \/ \E j \in i'[p]..Len(Scanned) : Scanned[j] = f
      BY <2>2, <3>2, <3>3
    <3>. QED
      BY <2>1, <2>2, <2>5, <3>4 DEF CheckInv, Agreed
  <2>. QED
    BY <2>1, <2>3, <2>4, <2>5
<1>12. ASSUME Lookup(p)
       PROVE  CheckInv(p)'
  BY <1>12, <1>t, <1>i, <1>l DEF Lookup, Return, CheckInv, Checked, Checking,
      WorkInv, Signing, Agreed
<1>13. ASSUME Verify(p)
       PROVE  CheckInv(p)'
  BY <1>13, <1>t, <1>i, <1>l DEF Verify, Return, CheckInv, Checked, Checking,
      WorkInv, Signing, Agreed
<1>14. ASSUME Compile(p)
       PROVE  CheckInv(p)'
  BY <1>14, <1>t, <1>i, <1>l DEF Compile, Return, Recheck, CheckInv, Checked,
      Checking, WorkInv, Signing, Agreed
<1>15. ASSUME Publish(p)
       PROVE  CheckInv(p)'
  BY <1>15, <1>t, <1>i, <1>l DEF Publish, Return, CheckInv, Checked, Checking,
      WorkInv, Signing, Agreed
<1>16. ASSUME NEW f \in Lazy \cup Libraries, Load(p, f)
       PROVE  CheckInv(p)'
  BY <1>16, <1>t, <1>i, <1>l DEF Load, Return, CheckInv, Checked, Checking, WorkInv,
      Signing, Agreed
<1>17. ASSUME NEW k \in Kernels, Launch(p, k)
       PROVE  CheckInv(p)'
  BY <1>17, <1>t, <1>i, <1>l DEF Launch, CheckInv, Checked, Checking, WorkInv,
      Signing, Agreed
<1>18. ASSUME NEW q \in Procs, Fork(q, p)
       PROVE  CheckInv(p)'
  BY <1>18, <1>t, <1>i, <1>l DEF Fork, StartOfChild, CheckInv, Checked, Checking,
      WorkInv, Signing, Agreed
<1>. QED
  BY <1>1, <1>2, <1>3, <1>4, <1>5, <1>6, <1>7, <1>8, <1>9, <1>10, <1>11, <1>12,
      <1>13, <1>14, <1>15, <1>16, <1>17, <1>18 DEF Moves, Step

\* One more file is loaded: it is the one that is there now.
LEMMA LoadedSeen ==
  ASSUME TypeInv, NEW p \in Procs, SeenInv(p), NEW g \in Names,
         loaded' = [loaded EXCEPT ![p][g] = Code(g)]
  PROVE  \A f \in Names : Old(p, f) => loaded'[p][f] \in {None, Code(f)}
<1>1. loaded[p] \in Loads /\ loaded'[p] = [loaded[p] EXCEPT ![g] = Code(g)]
  BY DEF TypeInv, ProcessType
<1>2. \A f \in Names : loaded'[p][f] = IF f = g THEN Code(g) ELSE loaded[p][f]
  BY <1>1 DEF Loads
<1>. QED
  BY <1>2 DEF SeenInv

\* One more file is read: a digest has the code of each file that it has come to.
LEMMA DigestSeen ==
  ASSUME TypeInv, NEW p \in Procs, SeenInv(p), work[p] = "derive",
         identity[p].is = "underived", i[p] \in 1..Len(Scanned), i'[p] = i[p] + 1,
         NEW c \in Codes, Old(p, Scanned[i[p]]) => c = Code(Scanned[i[p]]),
         digest' = [digest EXCEPT ![p][Scanned[i[p]]] = c]
  PROVE  \A f \in Names : Old(p, f) =>
           \A j \in 1..(i'[p] - 1) : Scanned[j] = f => digest'[p][f] = Code(f)
<1> DEFINE g == Scanned[i[p]]
<1>0. g \in Names /\ i[p] \in Nat \ {0}
  BY ScannedFiles DEF Names
<1>1. digest[p] \in FileCodes /\ digest'[p] = [digest[p] EXCEPT ![g] = c]
  BY DEF TypeInv, ProcessType
<1>2. \A f \in Names : digest'[p][f] = IF f = g THEN c ELSE digest[p][f]
  BY <1>0, <1>1 DEF FileCodes
<1>3. \A j \in 1..(i'[p] - 1) : j = i[p] \/ j \in 1..(i[p] - 1)
  BY <1>0
<1>. QED
  BY <1>2, <1>3 DEF SeenInv

\* What is read of an unchanged file is what it holds.
LEMMA SeenStep ==
  ASSUME TypeInv, \A r \in Procs : ProcInv(r), NEW p \in Procs, Moves(p)
  PROVE  SeenInv(p)'
<1>t. /\ pc \in [Procs -> Labels] /\ work \in [Procs -> Works]
      /\ started \in [Procs -> Nat \cup {None}]
      /\ loaded \in [Procs -> Loads] /\ identity \in [Procs -> Identities]
      /\ memo \in [Procs -> Memos] /\ i \in [Procs -> Nat \ {0}]
      /\ digest \in [Procs -> FileCodes] /\ hand \in [Procs -> Signatures \cup {None}]
  BY DEF TypeInv, ProcessType
<1>i. \A q \in Procs : StartInv(q) /\ WorkInv(q) /\ SeenInv(q)
  BY DEF ProcInv
<1>l. /\ Len(Frontend) \in Nat \ {0} /\ Len(Scanned) = Len(Frontend) + Len(Native)
      /\ Len(Native) \in Nat \ {0}
      /\ \A j \in 1..Len(Frontend) : Scanned[j] = Frontend[j]
      /\ \A j \in 1..Len(Scanned) : Scanned[j] \in Names
      /\ \A j \in (Len(Frontend) + 1)..Len(Scanned) : Scanned[j] \in Libraries
      /\ \A f \in Names : \E j \in 1..Len(Scanned) : Scanned[j] = f
  BY ScannedFiles DEF Names
<1>o. UNCHANGED disk => \A f \in Names : Code(f)' = Code(f) /\ Changed(f)' = Changed(f)
  BY DEF Code, Changed
<1>1. ASSUME Start(p)
      PROVE  SeenInv(p)'
  <2>1. UNCHANGED <<loaded, identity, memo, work>> /\ pc[p] = "off" /\ pc'[p] = "import"
    BY <1>1, <1>t DEF Start
  <2>2. /\ loaded[p] = [f \in Names |-> None] /\ memo[p] = [f \in Libraries |-> None]
        /\ identity[p].is = "underived" /\ work[p] = "look"
    BY <2>1, <1>i DEF StartInv, WorkInv, Underived
  <2>. QED
    BY <2>1, <2>2 DEF SeenInv
<1>2. ASSUME Import(p)
      PROVE  SeenInv(p)'
  <2>1. /\ UNCHANGED <<identity, memo, work, started, disk, digest>> /\ pc[p] = "import"
        /\ pc'[p] \in {"idle", "import", "failed"}
        /\ \/ UNCHANGED loaded
           \/ \E j \in i[p]..Len(Frontend) :
                loaded' = [loaded EXCEPT ![p][Frontend[j]] = Code(Frontend[j])]
    BY <1>2, <1>t DEF Import
  <2>2. \A j \in i[p]..Len(Frontend) : Frontend[j] \in Names
    BY <1>t, <1>l
  <2>3. \A f \in Names : Old(p, f) => loaded'[p][f] \in {None, Code(f)}
    BY <2>1, <2>2, <1>i, LoadedSeen DEF SeenInv
  <2>4. work[p] = "look"
    BY <2>1, <1>i DEF WorkInv
  <2>. QED
    BY <2>1, <2>3, <2>4, <1>i, <1>o DEF SeenInv, Old
<1>3. ASSUME Derive(p)
      PROVE  SeenInv(p)'
  <2>1. /\ UNCHANGED <<loaded, memo, work, started, disk>> /\ pc[p] = "derive"
        /\ pc'[p] \in {"derive", "sign"}
    BY <1>3, <1>t DEF Derive
  <2>2. \/ UNCHANGED <<identity, i, digest>>
        \/ identity'[p] = [identity[p] EXCEPT !.is = "no sources"]
        \/ /\ i[p] <= Len(Frontend) /\ i'[p] = i[p] + 1 /\ UNCHANGED identity
           /\ digest' = [digest EXCEPT ![p][Frontend[i[p]]] = Code(Frontend[i[p]])]
    <3>1. \/ UNCHANGED <<identity, i, digest>>
          \/ identity' = [identity EXCEPT ![p].is = "no sources"]
          \/ /\ i[p] <= Len(Frontend) /\ UNCHANGED identity
             /\ i' = [i EXCEPT ![p] = i[p] + 1]
             /\ digest' = [digest EXCEPT ![p][Frontend[i[p]]] = Code(Frontend[i[p]])]
      BY <1>3 DEF Derive
    <3>2. i' = [i EXCEPT ![p] = i[p] + 1] => i'[p] = i[p] + 1
      BY <1>t
    <3>3. identity' = [identity EXCEPT ![p].is = "no sources"] =>
            identity'[p] = [identity[p] EXCEPT !.is = "no sources"]
      BY <1>t
    <3>. QED
      BY <3>1, <3>2, <3>3
  <2>3. CASE UNCHANGED <<identity, i, digest>>
    BY <2>1, <2>3, <1>i, <1>o DEF SeenInv, Old
  <2>4. CASE identity'[p] = [identity[p] EXCEPT !.is = "no sources"]
    <3>1. identity'[p].is = "no sources"
      BY <2>4, <1>t DEF Identities
    <3>. QED
      BY <2>1, <3>1, <1>i, <1>o DEF SeenInv, Old
  <2>5. CASE /\ i[p] <= Len(Frontend) /\ i'[p] = i[p] + 1 /\ UNCHANGED identity
             /\ digest' = [digest EXCEPT ![p][Frontend[i[p]]] = Code(Frontend[i[p]])]
    <3>1. i[p] \in 1..Len(Scanned) /\ Scanned[i[p]] = Frontend[i[p]] /\ work[p] = "derive"
      BY <2>1, <2>5, <1>t, <1>i, <1>l DEF WorkInv
    <3>2. Code(Scanned[i[p]]) \in Codes
      BY <3>1, <1>l, DiskType
    <3>3. identity[p].is = "underived" =>
            \A f \in Names : Old(p, f) =>
              \A j \in 1..(i'[p] - 1) : Scanned[j] = f => digest'[p][f] = Code(f)
      BY <2>5, <3>1, <3>2, <1>i, DigestSeen
    <3>. QED
      BY <2>1, <2>5, <3>3, <1>i, <1>o DEF SeenInv, Old
  <2>. QED
    BY <2>2, <2>3, <2>4, <2>5
<1>4. ASSUME Sign(p)
      PROVE  SeenInv(p)'
  <2> DEFINE g == Scanned[i[p]]
  <2>1. UNCHANGED <<loaded, memo, work, started, disk, identity>> /\ pc[p] = "sign"
    BY <1>4 DEF Sign
  <2>2. \/ pc'[p] = "read" /\ UNCHANGED <<i, digest>>
        \/ /\ pc'[p] = "sign" /\ i'[p] = i[p] + 1 /\ memo[p][g] # None
           /\ digest' = [digest EXCEPT ![p][g] = memo[p][g].code]
    BY <1>4, <1>t DEF Sign
  <2>3. i[p] \in 1..Len(Scanned) /\ g \in Libraries /\ g \in Names
    BY <1>4, <2>1, <1>t, <1>i, <1>l DEF Sign, WorkInv, Signing
  <2>4. CASE pc'[p] = "read" /\ UNCHANGED <<i, digest>>
    BY <2>1, <2>4, <1>i, <1>o DEF SeenInv, Old
  <2>5. CASE /\ pc'[p] = "sign" /\ i'[p] = i[p] + 1 /\ memo[p][g] # None
             /\ digest' = [digest EXCEPT ![p][g] = memo[p][g].code]
    <3>1. memo[p][g].code \in Codes /\ (Old(p, g) => memo[p][g].code = Code(g))
      BY <2>3, <2>5, <1>t, <1>i DEF Memos, Signatures, SeenInv
    <3>2. work[p] = "derive" /\ identity[p].is = "underived" =>
            \A f \in Names : Old(p, f) =>
              \A j \in 1..(i'[p] - 1) : Scanned[j] = f => digest'[p][f] = Code(f)
      BY <2>3, <2>5, <3>1, <1>i, DigestSeen
    <3>. QED
      BY <2>1, <2>5, <3>2, <1>i, <1>o DEF SeenInv, Old
  <2>. QED
    BY <2>2, <2>4, <2>5
<1>5. ASSUME Read(p)
      PROVE  SeenInv(p)'
  <2>1. /\ UNCHANGED <<loaded, memo, work, started, disk, identity, i, digest>>
        /\ pc[p] = "read" /\ hand'[p] = [hand[p] EXCEPT !.code = Code(Scanned[i[p]])]
    BY <1>5, <1>t DEF Read
  <2>2. hand[p] \in Signatures
    BY <2>1, <1>i DEF WorkInv
  <2>3. hand'[p].code = Code(Scanned[i[p]])
    BY <2>1, <2>2 DEF Signatures
  <2>. QED
    BY <2>1, <2>3, <1>i, <1>o DEF SeenInv, Old
<1>6. ASSUME Keep(p)
      PROVE  SeenInv(p)'
  <2> DEFINE g == Scanned[i[p]]
  <2>1. /\ UNCHANGED <<loaded, work, started, disk, identity>>
        /\ pc[p] = "keep" /\ pc'[p] = "sign" /\ i'[p] = i[p] + 1
        /\ digest' = [digest EXCEPT ![p][g] = hand[p].code]
        /\ UNCHANGED memo \/ memo' = [memo EXCEPT ![p][g] = hand[p]]
    BY <1>6, <1>t DEF Keep
  <2>2. i[p] \in 1..Len(Scanned) /\ g \in Libraries /\ g \in Names /\ hand[p] \in Signatures
    BY <2>1, <1>t, <1>i, <1>l DEF WorkInv, Signing
  <2>3. hand[p].code \in Codes /\ (Old(p, g) => hand[p].code = Code(g))
    BY <2>1, <2>2, <1>i DEF Signatures, SeenInv
  <2>4. work[p] = "derive" /\ identity[p].is = "underived" =>
          \A f \in Names : Old(p, f) =>
            \A j \in 1..(i'[p] - 1) : Scanned[j] = f => digest'[p][f] = Code(f)
    BY <2>1, <2>2, <2>3, <1>i, DigestSeen
  <2>5. \A f \in Libraries : memo'[p][f] = memo[p][f] \/ (f = g /\ memo'[p][f] = hand[p])
    BY <2>1, <2>2, <1>t DEF Memos
  <2>6. \A f \in Libraries : Old(p, f) /\ memo'[p][f] # None => memo'[p][f].code = Code(f)
    BY <2>3, <2>5, <1>i DEF SeenInv, Names
  <2>. QED
    BY <2>1, <2>4, <2>6, <1>i, <1>o DEF SeenInv, Old
<1>7. ASSUME Signed(p)
      PROVE  SeenInv(p)'
  <2>1. UNCHANGED <<loaded, memo, started, disk>> /\ pc[p] = "sign" /\ i[p] > Len(Scanned)
    BY <1>7 DEF Signed
  <2>2. CASE work[p] = "derive"
    <3>1. /\ identity'[p] = [is |-> Status(p), of |-> digest[p]]
          /\ pc'[p] = "usable" /\ work'[p] = "look"
      BY <1>7, <2>2, <1>t DEF Signed
    <3>2. identity'[p].is = "known" => identity[p].is = "underived"
      <4>1. identity'[p].is = Status(p)
        BY <3>1
      <4>2. Status(p) = "known" => identity[p].is = "underived"
        BY Zenon DEF Status
      <4>. QED
        BY <4>1, <4>2
    <3>3. \A f \in Names : \E j \in 1..(i[p] - 1) : Scanned[j] = f
      BY <2>1, <1>t, <1>l
    <3>4. \A f \in Names :
            Old(p, f) /\ identity'[p].is = "known" => identity'[p].of[f] = Code(f)
      BY <2>2, <3>1, <3>2, <3>3, <1>i DEF SeenInv
    <3>. QED
      BY <2>1, <3>1, <3>4, <1>i, <1>o DEF SeenInv, Old
  <2>3. CASE work[p] # "derive"
    <3>1. UNCHANGED identity /\ pc'[p] \in {"lookup", "publish", "idle", "load"}
      BY <1>7, <2>3, <1>t, EndEffect DEF Signed, GiveUp, Continue
    <3>2. work'[p] # "derive"
      BY <1>7, <2>3, <1>t, EndEffect DEF Signed, GiveUp, Continue
    <3>. QED
      BY <2>1, <3>1, <3>2, <1>i, <1>o DEF SeenInv, Old
  <2>. QED
    BY <2>2, <2>3
<1>8. ASSUME Usable(p)
      PROVE  SeenInv(p)'
  <2>1. /\ UNCHANGED <<loaded, memo, started, disk, identity>> /\ pc[p] = "usable"
        /\ \/ pc'[p] = "source" /\ UNCHANGED <<i, digest, work>>
           \/ Return(p) \/ Unusable(p)
    BY <1>8, <1>t DEF Usable, GiveUp, Continue
  <2>2. work[p] # "derive" /\ work'[p] # "derive" /\ pc'[p] # "keep"
    BY <2>1, <1>i, EndEffect DEF WorkInv
  <2>. QED
    BY <2>1, <2>2, <1>i, <1>o DEF SeenInv, Old
<1>9. ASSUME CheckSource(p)
      PROVE  SeenInv(p)'
  BY <1>9, <1>t, <1>i, <1>l DEF CheckSource, GiveUp, Unusable, Return, Continue,
      SeenInv, Old, Code, Changed, WorkInv, Signing, StartInv
<1>10. ASSUME CheckAge(p)
       PROVE  SeenInv(p)'
  BY <1>10, <1>t, <1>i, <1>l DEF CheckAge, GiveUp, Unusable, Return, Continue,
      SeenInv, Old, Code, Changed, WorkInv, Signing, StartInv
<1>11. ASSUME CheckLibrary(p)
       PROVE  SeenInv(p)'
  BY <1>11, <1>t, <1>i, <1>l DEF CheckLibrary, GiveUp, Unusable, Return, Continue,
      SeenInv, Old, Code, Changed, WorkInv, Signing, StartInv
<1>12. ASSUME Lookup(p)
       PROVE  SeenInv(p)'
  BY <1>12, <1>t, <1>i, <1>l DEF Lookup, Return, SeenInv, Old, Code, Changed,
      WorkInv, Signing, StartInv
<1>13. ASSUME Verify(p)
       PROVE  SeenInv(p)'
  BY <1>13, <1>t, <1>i, <1>l DEF Verify, Return, SeenInv, Old, Code, Changed,
      WorkInv, Signing, StartInv
<1>14. ASSUME Compile(p)
       PROVE  SeenInv(p)'
  BY <1>14, <1>t, <1>i, <1>l DEF Compile, Return, Recheck, SeenInv, Old, Code,
      Changed, WorkInv, Signing, StartInv
<1>15. ASSUME Publish(p)
       PROVE  SeenInv(p)'
  BY <1>15, <1>t, <1>i, <1>l DEF Publish, Return, SeenInv, Old, Code, Changed,
      WorkInv, Signing, StartInv
<1>16. ASSUME NEW f \in Lazy \cup Libraries, Load(p, f)
       PROVE  SeenInv(p)'
  <2>1. f \in Names
    BY CompilerIdentityAssumption DEF Names
  <2>2. CASE Code(f) = Gone
    <3>1. UNCHANGED <<loaded, identity, memo, started, disk>> /\ Return(p)
      BY <1>16, <2>2 DEF Load
    <3>2. pc'[p] = "idle" /\ work'[p] = "look"
      BY <3>1, <1>t DEF Return
    <3>. QED
      BY <3>1, <3>2, <1>i, <1>o DEF SeenInv, Old
  <2>3. CASE Code(f) # Gone
    <3>1. /\ UNCHANGED <<pc, work, i, hand, identity, memo, started, disk, digest>>
          /\ loaded' = [loaded EXCEPT ![p][f] = Code(f)]
      BY <1>16, <2>3 DEF Load
    <3>2. \A g \in Names : Old(p, g) => loaded'[p][g] \in {None, Code(g)}
      BY <2>1, <3>1, <1>i, LoadedSeen
    <3>. QED
      BY <3>1, <3>2, <1>i, <1>o DEF SeenInv, Old
  <2>. QED
    BY <2>2, <2>3
<1>17. ASSUME NEW k \in Kernels, Launch(p, k)
       PROVE  SeenInv(p)'
  BY <1>17, <1>t, <1>i, <1>l DEF Launch, SeenInv, Old, Code, Changed, WorkInv,
      Signing, StartInv
<1>18. ASSUME NEW q \in Procs, Fork(q, p)
       PROVE  SeenInv(p)'
  BY <1>18, <1>t, <1>i, <1>l DEF Fork, StartOfChild, SeenInv, Old, Code, Changed,
      WorkInv, Signing, StartInv
<1>. QED
  BY <1>1, <1>2, <1>3, <1>4, <1>5, <1>6, <1>7, <1>8, <1>9, <1>10, <1>11, <1>12,
      <1>13, <1>14, <1>15, <1>16, <1>17, <1>18 DEF Moves, Step

-------------------------------------------------------------------------------
(* The whole step. *)

\* Whatever a process does, or happens to the files, what each holds is known.
LEMMA HeldStep ==
  ASSUME HeldInv, [Next]_vars
  PROVE  HeldInv'
<1>1. \/ held' = held
      \/ \E p \in Procs : \E v : held' = [held EXCEPT ![p] = v]
  <2>1. ASSUME NEW p \in Procs, Step(p)
        PROVE  held' = held \/ \E v : held' = [held EXCEPT ![p] = v]
    BY <2>1
       DEF Step, Start, Import, Derive, Sign, Read, Keep, Signed, Usable, CheckSource,
           CheckAge, CheckLibrary, Lookup, Verify, Compile, Publish, Load
  <2>2. ASSUME NEW p \in Procs, NEW k \in Kernels, Launch(p, k)
        PROVE  held' = held
    BY <2>2 DEF Launch
  <2>3. ASSUME NEW p \in Procs, NEW q \in Procs, Fork(p, q)
        PROVE  held' = [held EXCEPT ![q] = held[p]]
    BY <2>3 DEF Fork
  <2>4. ASSUME Tick \/ \E f \in Names : Delete(f) \/ \E v \in Versions : Install(f, v)
        PROVE  held' = held
    BY <2>4 DEF Tick, Delete, Install
  <2>. QED
    BY <2>1, <2>2, <2>3, <2>4 DEF Next, vars
<1>. QED
  BY <1>1 DEF HeldInv

\* A step of a process leaves the files, the clock and the other processes alone.
LEMMA OthersRest ==
  ASSUME TypeInv, NEW p \in Procs, Moves(p)
  PROVE  /\ UNCHANGED <<clock, disk, updates, removed>>
         /\ \A q \in Procs : q # p =>
              /\ pc'[q] = pc[q] /\ started'[q] = started[q] /\ loaded'[q] = loaded[q]
              /\ identity'[q] = identity[q] /\ memo'[q] = memo[q]
              /\ work'[q] = work[q] /\ i'[q] = i[q] /\ digest'[q] = digest[q]
              /\ hand'[q] = hand[q]
<1> DEFINE Rest == /\ UNCHANGED <<clock, disk, updates, removed>>
                   /\ \A q \in Procs : q # p =>
                        /\ pc'[q] = pc[q] /\ started'[q] = started[q]
                        /\ loaded'[q] = loaded[q] /\ identity'[q] = identity[q]
                        /\ memo'[q] = memo[q] /\ work'[q] = work[q] /\ i'[q] = i[q]
                        /\ digest'[q] = digest[q] /\ hand'[q] = hand[q]
<1>t. ProcessType
  BY DEF TypeInv
<1>1. CASE Start(p) \/ Import(p) \/ Derive(p)
  BY <1>1, <1>t DEF Start, Import, Derive, ProcessType
<1>2. CASE Sign(p) \/ Read(p) \/ Keep(p)
  BY <1>2, <1>t DEF Sign, Read, Keep, ProcessType
<1>3. CASE Signed(p)
  <2>1. /\ UNCHANGED <<clock, disk, updates, removed, started, loaded, memo>>
        /\ \/ identity' = identity
           \/ identity' = Put(identity, p, [is |-> Status(p), of |-> digest[p]])
    BY <1>3 DEF Signed
  <2>2. \/ Return(p) \/ Unusable(p)
        \/ \E l \in Labels : /\ Continue(p, l)
                             /\ i' = Put(i, p, 1) /\ digest' = Put(digest, p, Nothing)
        \/ /\ i' = Put(i, p, 1) /\ digest' = Put(digest, p, Nothing)
           /\ pc' = Put(pc, p, "usable") /\ work' = Put(work, p, "look")
           /\ UNCHANGED hand
    BY <1>3 DEF Signed, GiveUp, Labels
  <2>3. \A q \in Procs : q # p =>
          /\ pc'[q] = pc[q] /\ work'[q] = work[q] /\ i'[q] = i[q]
          /\ digest'[q] = digest[q] /\ hand'[q] = hand[q]
    BY <2>2, <1>t DEF Return, Unusable, Continue, ProcessType
  <2>4. \A q \in Procs : q # p => identity'[q] = identity[q]
    BY <2>1, <1>t DEF ProcessType
  <2>. QED
    BY <2>1, <2>3, <2>4
<1>10. CASE Usable(p)
  <2>1. UNCHANGED <<clock, disk, updates, removed, started, loaded, identity, memo>>
    BY <1>10 DEF Usable
  <2>2. \/ Return(p) \/ Unusable(p)
        \/ Continue(p, "source") /\ UNCHANGED <<i, digest>>
    BY <1>10 DEF Usable, GiveUp
  <2>3. \A q \in Procs : q # p =>
          /\ pc'[q] = pc[q] /\ work'[q] = work[q] /\ i'[q] = i[q]
          /\ digest'[q] = digest[q] /\ hand'[q] = hand[q]
    BY <2>2, <1>t DEF Return, Unusable, Continue, ProcessType
  <2>. QED
    BY <2>1, <2>3
<1>4. CASE CheckSource(p) \/ CheckAge(p) \/ CheckLibrary(p)
  BY <1>4, <1>t
     DEF CheckSource, CheckAge, CheckLibrary, GiveUp, Unusable, Return, Continue,
         ProcessType
<1>5. CASE Lookup(p) \/ Verify(p)
  BY <1>5, <1>t DEF Lookup, Verify, Return, ProcessType
<1>6. CASE Compile(p) \/ Publish(p)
  BY <1>6, <1>t DEF Compile, Publish, Return, ProcessType
<1>7. ASSUME NEW f \in Lazy \cup Libraries, Load(p, f)
      PROVE  Rest
  BY <1>7, <1>t DEF Load, Return, ProcessType
<1>8. ASSUME NEW k \in Kernels, Launch(p, k)
      PROVE  Rest
  BY <1>8, <1>t DEF Launch, ProcessType
<1>9. ASSUME NEW q \in Procs, Fork(q, p)
      PROVE  Rest
  BY <1>9, <1>t DEF Fork, ProcessType
<1>. QED
  BY <1>1, <1>2, <1>3, <1>4, <1>5, <1>6, <1>7, <1>8, <1>9, <1>10 DEF Moves, Step

\* What is published was made by the code that its key names.
LEMMA PublishedFits ==
  ASSUME TypeInv, NEW p \in Procs, ProcInv(p), EntryMadeByItsKey, Moves(p)
  PROVE  EntryMadeByItsKey'
<1>1. removed' = removed
  BY OthersRest
<1>2. CASE UNCHANGED cache
  BY <1>1, <1>2 DEF EntryMadeByItsKey
<1>3. CASE Publish(p)
  <2>1. \A f \in Names : identity[p].of[f] \in {Gone, loaded[p][f]} \/ f \in removed
    <3>1. pc[p] = "publish" /\ CheckInv(p) /\ WorkInv(p)
      BY <1>3 DEF Publish, ProcInv
    <3>2. \A f \in Names : Agreed(p, f) \/ f \in removed
      BY <3>1 DEF CheckInv, Checked, Names
    <3>3. \A f \in Names : loaded[p][f] # None
      BY <3>1 DEF WorkInv
    <3>. QED
      BY <3>2, <3>3 DEF Agreed
  <2>2. \A e \in cache' : e \in cache \/ (e.key = identity[p].of /\ e.by = loaded[p])
    BY <1>3 DEF Publish
  <2>. QED
    BY <1>1, <2>1, <2>2 DEF EntryMadeByItsKey
<1>4. ASSUME ~Publish(p)
      PROVE  UNCHANGED cache
  BY <1>4
     DEF Moves, Step, Start, Import, Derive, Sign, Read, Keep, Signed, Usable,
         CheckSource, CheckAge, CheckLibrary, Lookup, Verify, Compile, Load, Launch,
         Fork
<1>. QED
  BY <1>2, <1>3, <1>4

\* A step of a process keeps the invariant.
LEMMA MoveStep ==
  ASSUME IInv, NEW p \in Procs, Moves(p)
  PROVE  TypeInv' /\ (\A r \in Procs : ProcInv(r)') /\ EntryMadeByItsKey'
<1>i. TypeInv /\ (\A r \in Procs : ProcInv(r)) /\ EntryMadeByItsKey
  BY DEF IInv
<1>r. UNCHANGED <<clock, disk, removed>>
  BY <1>i, OthersRest
<1>1. ProcessType'
  BY <1>i, TypeStep DEF ProcInv
<1>2. WorldType'
  BY <1>i, <1>r DEF TypeInv, WorldType, Code, Changed
<1>3. ProcInv(p)'
  BY <1>i, StartStep, WorkStep, SeenStep, SourceStep, CheckStep DEF ProcInv
<1>4. ASSUME NEW q \in Procs, q # p
      PROVE  ProcInv(q)'
  <2>1. /\ pc'[q] = pc[q] /\ started'[q] = started[q] /\ loaded'[q] = loaded[q]
        /\ identity'[q] = identity[q] /\ memo'[q] = memo[q] /\ work'[q] = work[q]
        /\ i'[q] = i[q] /\ digest'[q] = digest[q] /\ hand'[q] = hand[q]
    BY <1>4, <1>i, OthersRest
  <2>2. \A f \in Names : Old(q, f)' => Old(q, f) /\ Code(f)' = Code(f)
    BY <1>r, <2>1 DEF Old, Code, Changed
  <2>3. clock' \in Nat /\ clock <= clock' /\ removed \subseteq removed'
    BY <1>i, <1>r DEF TypeInv, WorldType
  <2>. QED
    BY <1>i, <2>1, <2>2, <2>3, Unmoved
<1>5. EntryMadeByItsKey'
  BY <1>i, PublishedFits
<1>. QED
  BY <1>1, <1>2, <1>3, <1>4, <1>5 DEF TypeInv

\* The files are changed, or time passes.
Happens == Tick \/ \E f \in Names : Delete(f) \/ \E v \in Versions : Install(f, v)

\* A change of the files, or of the time, keeps the invariant: it can only make a
\* file younger, or take it away.
LEMMA WorldStep ==
  ASSUME IInv, Happens
  PROVE  TypeInv' /\ (\A r \in Procs : ProcInv(r)') /\ EntryMadeByItsKey'
<1>i. TypeInv /\ (\A r \in Procs : ProcInv(r)) /\ EntryMadeByItsKey
  BY DEF IInv
<1>d. /\ clock \in Nat \ {0} /\ disk \in [Names -> [code : Codes, changed : Nat]]
      /\ \A f \in Names : Changed(f) <= clock
      /\ \A f \in Libraries : Code(f) = Gone => f \in removed
  BY <1>i DEF TypeInv, WorldType
<1>u. UNCHANGED <<cache, pc, started, loaded, identity, memo, work, i, digest, hand>>
  BY DEF Happens, Tick, Delete, Install
<1>s. \A q \in Procs : /\ started[q] \in Nat \cup {None}
                       /\ started[q] # None => started[q] <= clock
  BY <1>i DEF TypeInv, ProcessType, ProcInv, StartInv
<1>1. ASSUME clock' \in Nat \ {0}, clock <= clock',
             disk' \in [Names -> [code : Codes, changed : Nat]],
             \A f \in Names : Changed(f)' <= clock',
             \A f \in Libraries : Code(f)' = Gone => f \in removed',
             \A f \in Names : \/ Code(f)' = Code(f) /\ Changed(f)' = Changed(f)
                              \/ Code(f)' = Gone \/ Changed(f)' >= clock
      PROVE  /\ WorldType'
             /\ \A q \in Procs, f \in Names :
                  Old(q, f)' => Old(q, f) /\ Code(f)' = Code(f)
  <2>1. WorldType'
    BY <1>1 DEF WorldType
  <2>2. ASSUME NEW q \in Procs, NEW f \in Names, Old(q, f)'
        PROVE  Old(q, f) /\ Code(f)' = Code(f)
    <3>1. started'[q] = started[q] /\ started[q] # None /\ started[q] \in Nat
          /\ started[q] <= clock /\ Code(f)' # Gone /\ Changed(f)' < started[q]
      BY <2>2, <1>u, <1>s DEF Old
    <3>2. Changed(f)' \in Nat
      BY <1>1 DEF Changed
    <3>3. Code(f)' = Code(f) /\ Changed(f)' = Changed(f)
      BY <3>1, <3>2, <1>1, <1>d
    <3>. QED
      BY <3>1, <3>3 DEF Old
  <2>. QED
    BY <2>1, <2>2
<1>2. ASSUME NEW g \in Names, NEW c \in Codes, NEW t \in Nat,
             disk' = [disk EXCEPT ![g] = [code |-> c, changed |-> t]],
             clock' = clock, removed \subseteq removed', t <= clock,
             g \in Libraries /\ c = Gone => g \in removed', c = Gone \/ t = clock
      PROVE  /\ WorldType'
             /\ \A q \in Procs, f \in Names :
                  Old(q, f)' => Old(q, f) /\ Code(f)' = Code(f)
  <2>1. \A f \in Names : /\ f # g => Code(f)' = Code(f) /\ Changed(f)' = Changed(f)
                         /\ f = g => Code(f)' = c /\ Changed(f)' = t
    BY <1>2, <1>d DEF Code, Changed
  <2>2. disk' \in [Names -> [code : Codes, changed : Nat]]
    BY <1>2, <1>d
  <2>3. \A f \in Names : /\ Changed(f)' <= clock'
                         /\ \/ Code(f)' = Code(f) /\ Changed(f)' = Changed(f)
                            \/ Code(f)' = Gone \/ Changed(f)' >= clock
    BY <1>2, <1>d, <2>1
  <2>4. \A f \in Libraries : Code(f)' = Gone => f \in removed'
    BY <1>2, <1>d, <2>1 DEF Names
  <2>5. clock' \in Nat \ {0} /\ clock <= clock'
    BY <1>2, <1>d
  <2>. QED
    BY <1>1, <2>2, <2>3, <2>4, <2>5
<1>3. ASSUME NEW f \in Names, NEW v \in Versions, Install(f, v)
      PROVE  /\ WorldType' /\ UNCHANGED <<clock, removed>>
             /\ \A q \in Procs, g \in Names :
                  Old(q, g)' => Old(q, g) /\ Code(g)' = Code(g)
  <2>1. v \in Codes /\ v # Gone /\ clock \in Nat /\ clock <= clock
    BY CompilerIdentityAssumption, <1>d DEF Codes
  <2>2. /\ disk' = [disk EXCEPT ![f] = [code |-> v, changed |-> clock]]
        /\ UNCHANGED <<clock, removed>>
    BY <1>3 DEF Install
  <2>. QED
    BY <1>2, <2>1, <2>2
<1>4. ASSUME NEW f \in Names, Delete(f)
      PROVE  /\ WorldType' /\ UNCHANGED clock /\ removed \subseteq removed'
             /\ \A q \in Procs, g \in Names :
                  Old(q, g)' => Old(q, g) /\ Code(g)' = Code(g)
  <2>1. Gone \in Codes /\ 0 \in Nat /\ 0 <= clock
    BY NoneIsNew, <1>d
  <2>2. /\ disk' = [disk EXCEPT ![f] = [code |-> Gone, changed |-> 0]]
        /\ UNCHANGED clock /\ removed \subseteq removed'
        /\ f \in Libraries => f \in removed'
    BY <1>4 DEF Delete
  <2>. QED
    BY <1>2, <2>1, <2>2
<1>5. /\ WorldType' /\ clock' \in Nat /\ clock <= clock' /\ removed \subseteq removed'
      /\ \A q \in Procs, f \in Names : Old(q, f)' => Old(q, f) /\ Code(f)' = Code(f)
  <2>1. CASE Tick
    <3>1. UNCHANGED <<disk, removed>> /\ clock' = clock + 1
      BY <2>1 DEF Tick
    <3>2. \A f \in Names : /\ Code(f)' = Code(f) /\ Changed(f)' = Changed(f)
                           /\ Changed(f) \in Nat
      BY <3>1, <1>d DEF Code, Changed
    <3>3. /\ clock' \in Nat \ {0} /\ clock <= clock'
          /\ \A f \in Names : Changed(f)' <= clock'
      BY <1>d, <3>1, <3>2
    <3>4. \A f \in Libraries : Code(f)' = Gone => f \in removed'
      BY <1>d, <3>1, <3>2 DEF Names
    <3>. QED
      BY <1>1, <1>d, <3>1, <3>2, <3>3, <3>4
  <2>. QED
    BY <1>3, <1>4, <1>d, <2>1 DEF Happens
<1>6. ProcessType'
  BY <1>i, <1>u DEF TypeInv, ProcessType
<1>7. ASSUME NEW q \in Procs
      PROVE  ProcInv(q)'
  BY <1>i, <1>5, <1>u, Unmoved
<1>8. EntryMadeByItsKey'
  BY <1>i, <1>5, <1>u DEF EntryMadeByItsKey
<1>. QED
  BY <1>5, <1>6, <1>7, <1>8 DEF TypeInv

\* A step is one of a process, or of what surrounds the processes.
LEMMA NextIs ==
  ASSUME Next
  PROVE  (\E p \in Procs : Moves(p)) \/ Happens
BY DEF Next, Moves, Happens

\* Every step keeps the invariant.
LEMMA NextStep ==
  ASSUME IInv, [Next]_vars
  PROVE  IInv'
<1>1. CASE Next
  BY <1>1, NextIs, HeldStep, MoveStep, WorldStep DEF IInv
<1>2. CASE UNCHANGED vars
  BY <1>2
     DEF vars, IInv, TypeInv, WorldType, ProcessType, Code, Changed, ProcInv, StartInv,
         WorkInv, SeenInv, SourceInv, CheckInv, Checking, Checked, Agreed, Old,
         Signing, Underived, Nothing, HeldInv, EntryMadeByItsKey
<1>. QED
  BY <1>1, <1>2

\* It holds at the start.
LEMMA InitIs ==
  ASSUME Init
  PROVE  IInv
<1>1. /\ Nothing \in FileCodes
      /\ [f \in Names |-> None] \in Loads /\ [f \in Libraries |-> None] \in Memos
  BY DEF Nothing, FileCodes, Codes, Loads, Memos
<1>2. Underived \in Identities /\ Underived.is = "underived"
  BY <1>1 DEF Underived, Identities
<1>3. ProcessType
  BY <1>1, <1>2 DEF Init, ProcessType, Labels, Works
<1>4. PICK v \in Versions : disk = [f \in Names |-> [code |-> v, changed |-> 0]]
  BY DEF Init
<1>5. v \in Codes /\ v # Gone
  BY CompilerIdentityAssumption DEF Codes
<1>6. WorldType
  BY <1>4, <1>5 DEF Init, WorldType, Code, Changed, Names
<1>7. ASSUME NEW p \in Procs
      PROVE  ProcInv(p)
  <2>1. /\ pc[p] = "off" /\ work[p] = "look" /\ started[p] = None /\ i[p] = 1
        /\ loaded[p] = [f \in Names |-> None] /\ identity[p] = Underived
        /\ memo[p] = [f \in Libraries |-> None]
    BY DEF Init
  <2>. QED
    BY <2>1, <1>2
       DEF ProcInv, StartInv, WorkInv, SeenInv, SourceInv, CheckInv, Checking,
           Checked, Old, Signing
<1>8. EntryMadeByItsKey
  BY DEF Init, Earlier, EntryMadeByItsKey
<1>9. HeldInv
  BY DEF Init, HeldInv
<1>. QED
  BY <1>3, <1>6, <1>7, <1>8, <1>9 DEF IInv, TypeInv

-------------------------------------------------------------------------------
(* What follows. *)

\* The invariant holds in every behaviour, whatever the processes and the files,
\* and however often the files are changed.
THEOREM Invariance == Spec => []IInv
<1>1. Init => IInv
  BY InitIs
<1>2. IInv /\ [Next]_vars => IInv'
  BY NextStep
<1>. QED
  BY <1>1, <1>2, PTL DEF Spec

\* A published entry was made by the code its key names (_store_on_disk after the
\* second _cache_usable), whatever installers do to the files in the meantime.
THEOREM KeyNamesItsCode == Spec => []EntryMadeByItsKey
<1>1. IInv => EntryMadeByItsKey
  BY DEF IInv
<1>. QED
  BY <1>1, Invariance, PTL

\* An artifact that comes from an entry was made by the code that is loaded.
LEMMA EntryFits ==
  ASSUME IInv, NEW p \in Procs, pc[p] \in {"lookup", "publish"}, NEW e \in Entries(p),
         NEW f \in Names
  PROVE  loaded[p][f] = None \/ identity[p].of[f] = Gone
         \/ e.by[f] = loaded[p][f] \/ f \in removed
<1>1. Agreed(p, f) \/ f \in removed
  BY DEF IInv, ProcInv, CheckInv, Checked, Names
<1>2. identity[p].of[f] \in {Gone, e.by[f]} \/ f \in removed
  BY DEF IInv, EntryMadeByItsKey, Entries
<1>. QED
  BY <1>1, <1>2 DEF Agreed

\* What a process newly holds from the disk is of an entry of its own key.
LEMMA HeldFromDisk ==
  ASSUME HeldInv, Next, NEW p \in Procs, NEW a \in held'[p] \ held[p],
         a.from = "disk", pc[p] # "off"
  PROVE  pc[p] \in {"lookup", "publish"} /\ \E e \in Entries(p) : a.by = e.by
<1> DEFINE Found == pc[p] \in {"lookup", "publish"} /\ \E e \in Entries(p) : a.by = e.by
<1>1. \A q \in Procs : \A v : held' = [held EXCEPT ![q] = v] => q = p /\ held'[p] = v
  BY DEF HeldInv
<1>2. held' # held
  OBVIOUS
<1>3. ASSUME NEW q \in Procs, Lookup(q)
      PROVE  Found
  <2>1. PICK e \in Entries(q) :
          held' = [held EXCEPT ![q] = @ \cup {Artifact(q, e.by, "disk")}]
    BY <1>2, <1>3 DEF Lookup
  <2>2. q = p /\ held'[p] = held[p] \cup {Artifact(p, e.by, "disk")}
    BY <1>1, <2>1
  <2>3. a = Artifact(p, e.by, "disk")
    BY <2>2
  <2>. QED
    BY <1>3, <2>1, <2>2, <2>3 DEF Lookup, Artifact
<1>4. ASSUME NEW q \in Procs, Publish(q)
      PROVE  Found
  <2>1. PICK e \in Entries(q) :
          held' = [held EXCEPT ![q] = (@ \ {Artifact(q, loaded[q], "compile")})
                                         \cup {Artifact(q, e.by, "disk")}]
    BY <1>2, <1>4 DEF Publish
  <2>2. q = p /\ held'[p] = (held[p] \ {Artifact(p, loaded[p], "compile")})
                              \cup {Artifact(p, e.by, "disk")}
    BY <1>1, <2>1
  <2>3. a = Artifact(p, e.by, "disk")
    BY <2>2
  <2>. QED
    BY <1>4, <2>1, <2>2, <2>3 DEF Publish, Artifact
<1>5. ASSUME NEW q \in Procs, Compile(q)
      PROVE  FALSE
  <2>1. held' = [held EXCEPT ![q] = @ \cup {Artifact(q, loaded[q], "compile")}]
    BY <1>5 DEF Compile
  <2>2. q = p /\ held'[p] = held[p] \cup {Artifact(p, loaded[p], "compile")}
    BY <1>1, <2>1
  <2>. QED
    BY <2>2 DEF Artifact
<1>6. ASSUME NEW q \in Procs, NEW r \in Procs, Fork(q, r)
      PROVE  FALSE
  BY <1>1, <1>6 DEF Fork
<1>7. ASSUME NEW q \in Procs, Step(q), ~Lookup(q), ~Publish(q), ~Compile(q)
      PROVE  FALSE
  BY <1>2, <1>7
     DEF Step, Start, Import, Derive, Sign, Read, Keep, Signed, Usable, CheckSource,
         CheckAge, CheckLibrary, Verify, Load
<1>8. ~Happens /\ \A q \in Procs, k \in Kernels : ~Launch(q, k)
  BY <1>2 DEF Happens, Tick, Delete, Install, Launch
<1>9. PICK q \in Procs : Moves(q)
  BY <1>8, NextIs
<1>. QED
  BY <1>3, <1>4, <1>5, <1>6, <1>7, <1>8, <1>9 DEF Moves

\* A process that takes an artifact of the disk cache (the lookup, and the loser of
\* a publish in _store_on_disk) has loaded no other code than made it.
THEOREM ServedRunsItsOwn == Spec => ServedByOwnCode
<1>1. IInv /\ [Next]_vars =>
        (\A p \in Procs : \A a \in held'[p] \ held[p] :
           a.from = "disk" /\ loaded[p] = loaded'[p] /\ pc[p] # "off"
           => \A f \in Names :
                loaded[p][f] = None \/ identity[p].of[f] = Gone
                \/ a.by[f] = loaded[p][f] \/ f \in removed)
  <2> SUFFICES ASSUME IInv, [Next]_vars, NEW p \in Procs, NEW a \in held'[p] \ held[p],
                      a.from = "disk", pc[p] # "off", NEW f \in Names
               PROVE  loaded[p][f] = None \/ identity[p].of[f] = Gone
                      \/ a.by[f] = loaded[p][f] \/ f \in removed
    OBVIOUS
  <2>1. Next
    BY DEF vars
  <2>2. HeldInv
    BY DEF IInv
  <2>3. /\ pc[p] \in {"lookup", "publish"}
        /\ \E e \in Entries(p) : a.by = e.by
    BY <2>1, <2>2, HeldFromDisk
  <2>. QED
    BY <2>3, EntryFits
<1>. QED
  BY <1>1, Invariance, PTL DEF Spec, ServedByOwnCode

====
