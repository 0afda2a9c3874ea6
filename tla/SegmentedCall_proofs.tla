------------------------- MODULE SegmentedCall_proofs -------------------------
(* Proofs about segmented calls for any offsets, any batches, any number of   *)
(* launches of a prepared reduction and any number of steps that raise.  The  *)
(* last part: its accesses are in bounds, also when the offsets are           *)
(* overwritten on the device while the kernels run.                           *)
EXTENDS SegmentedCall, SegmentPlan_proofs, SequenceTheorems

-------------------------------------------------------------------------------
(* The inductive invariant. *)

Kernels == Writers \cup {"partial"}
Phases == {"fused", "partial", "merge"}
Tensors == {"values", "values2", "offsets", "offsets32", "output", "records",
            "ids", "scratch", "tasks"}
Modes == {"front", "shapes", "plan", "body", "finally", "prepared", "recorded",
          "ended", "dropped"}
Paths == Public \cup {"direct", "prepared", "tasks", "fixed"}

BodySteps ==
    ({"compile", "lease", "enqueue", "end"} \X Kernels)
    \cup ({"upload", "alloc", "retain"} \X Tensors) \cup ({"advance"} \X Nat)
CleanupSteps ==
    ({"release"} \X Kernels) \cup ({"retain"} \X Tensors) \cup ({"advance"} \X Nat)

\* Steps with an operation.
Has(steps, op) == \E i \in DOMAIN steps : steps[i][1] = op

CallType ==
    /\ mode \in Modes /\ policy \in {"none", "warp", "cta", "mixed"}
    /\ job.path \in Paths /\ job.raw \in Seq(Int)
    /\ DOMAIN job = {"path", "raw", "wide", "features", "recording", "kind",
                      "inference", "small", "tasks", "share", "defects"}
    /\ held \subseteq Kernels /\ attempted \subseteq Kernels
    /\ mode = "body" => todo \in Seq(BodySteps)
    /\ mode = "finally" => todo \in Seq(CleanupSteps)
    /\ queue \in Seq(Kernels \cup {"wait"}) /\ launches \in Nat
StoreType ==
    /\ memory \in [copied : BOOLEAN, uploads : SUBSET Tensors,
                   recorded : SUBSET Tensors, reused : SUBSET Tensors]
    /\ counter \in [output : Nat, offsets : Nat, expected : Nat, writes : Nat]
    /\ job.share \in {0, 1} /\ IsFiniteSet(log.lost)
    /\ DOMAIN log = {"errors", "body", "cleanup", "raised", "lost", "faults"}
    /\ mode \in {"body", "finally"} => log.errors \in Seq(BodySteps \cup CleanupSteps)

\* Which calls are in which mode.
PathInv ==
    /\ mode = "front" => job.path \in Public
    /\ policy # "none" => job.path = "prepared" /\ mode \in {"body", "finally"}
    /\ mode = "prepared" => job.path = "prepared"
    /\ mode = "recorded" \/ job.recording => job.path \in Public

\* The inputs that a launch retains whatever it uploads.
Inputs ==
    CASE policy \in {"warp", "cta"} -> {"values", "offsets"}
      [] policy = "none" /\ job.path = "fixed" -> {"values", "values2"}
      [] policy = "none" /\ job.path = "tasks" -> {"values", "offsets", "tasks"}
      [] OTHER -> {"values"} \cup IF job.wide THEN {} ELSE {"offsets"}

\* The steps of a body that is no launch of a prepared reduction.
Allowed ==
    {s \in BodySteps :
        /\ s[1] \notin {"retain", "end"}
        /\ s[1] = "enqueue" => /\ job.path # "prepared"
                               /\ s[2] = "fixed" <=> job.path = "fixed"
        /\ s[1] = "advance" => job.path = "prepared"}

\* From step i on: a retention of x, or the end of a phase, with nothing but
\* retentions before it.
Leads(steps, i, x) ==
    \E m \in DOMAIN steps :
        /\ m >= i /\ steps[m] = <<"retain", x>>
        /\ \A j \in i..(m - 1) : steps[j][1] = "retain"
Ends(steps, i) ==
    \E m \in DOMAIN steps :
        /\ m >= i /\ steps[m][1] = "end"
        /\ \A j \in i..(m - 1) : steps[j][1] = "retain"

\* The steps of mixed(): an enqueue is followed by the retention of what its
\* kernel touches, and that by the end of the phase.
PhaseShape(steps) ==
    \A i \in DOMAIN steps :
        /\ steps[i][1] \in {"enqueue", "retain", "end"}
        /\ steps[i][1] = "enqueue" =>
             /\ steps[i][2] \in Phases
             /\ \A x \in ToSet(PhaseTensors(steps[i][2])) : Leads(steps, i + 1, x)
        /\ steps[i][1] \in {"enqueue", "retain"} => Ends(steps, i + 1)

\* An upload of a reduction comes after the last compilation.
CompileFirst(steps) ==
    \A i, j \in DOMAIN steps : i < j /\ steps[j][1] = "compile" => steps[i][1] = "compile"

\* The steps that are left of a body, by the kind of the launch.
BodyInv ==
    mode = "body" =>
      /\ policy = "none" =>
           /\ todo \in Seq(Allowed)
           /\ \A i \in DOMAIN todo : todo[i][1] = "advance" => i = 1 /\ held = {}
           /\ job.path = "prepared" => attempted = {}
           /\ job.path = "fixed" =>
                \/ /\ todo \in {FixedBody, Tail(FixedBody)}
                   /\ held = {} /\ attempted = {}
                \/ todo = Tail(Tail(FixedBody)) /\ attempted = {}
                \/ todo = <<>> /\ attempted = {"fixed"}
           /\ job.path = "reduce" =>
                /\ CompileFirst(todo)
                /\ Has(todo, "compile") => memory.uploads = {} /\ held = {}
      /\ policy \in {"warp", "cta"} =>
           /\ todo \in {<<>>, <<<<"enqueue", policy>>>>} /\ attempted \subseteq {policy}
      /\ policy = "mixed" => PhaseShape(todo) /\ attempted \subseteq Phases

\* Leases whose release did not raise.
Owed == {k \in held : <<"release", k>> \notin log.lost}
LeaseInv ==
    /\ mode \notin {"body", "finally", "prepared"} => Owed = {}
    /\ mode = "finally" /\ policy = "none" =>
         \/ \A k \in Owed : <<"release", k>> \in ToSet(todo)
         \/ job.path = "prepared" /\ todo = <<>> /\ log.errors = <<>>

\* What queued work touches was recorded, or will be before anything raises.
Pending(x) ==
    CASE mode = "finally" -> <<"retain", x>> \in ToSet(todo)
      [] mode = "body" /\ policy = "mixed" -> Leads(todo, 1, x)
      [] mode = "body" /\ policy # "mixed" ->
           /\ attempted # {}
           /\ x \in Inputs \/ (x = "output" /\ Wrote(attempted))
      [] OTHER -> FALSE
MemoryInv ==
    /\ \A k \in ToSet(queue) : \A x \in Touches(k) \cap Foreign :
         x \in memory.recorded \/ <<"retain", x>> \in log.lost \/ Pending(x)
    /\ memory.reused # {} => mode = "dropped" /\ memory.reused \cap memory.recorded = {}
    /\ memory.reused \subseteq Foreign

\* The writes that are counted, lost, or about to be counted.
LostAdvances == {x \in log.lost : x[1] = "advance"}
Due ==
    CASE mode = "body" -> IF attempted \cap Writers = {} THEN 0 ELSE 1
      [] mode = "finally" -> IF Has(todo, "advance") THEN 1 ELSE 0
      [] OTHER -> 0
CountInv ==
    /\ counter.output + Cardinality(LostAdvances) + Due = counter.writes
    /\ \A x \in LostAdvances : x = <<"advance", x[2]>> /\ x[2] \in 0..launches
    /\ mode = "body" => <<"advance", launches>> \notin log.lost
    /\ mode = "finally" =>
         \A i \in DOMAIN todo : todo[i][1] = "advance" =>
            /\ todo[i] = <<"advance", launches>> /\ todo[i] \notin log.lost
            /\ \A j \in DOMAIN todo : todo[j][1] = "advance" => j = i

\* The errors of a launch, and what they keep it from.
FirstError == IF log.errors = <<>> THEN NoError ELSE Head(log.errors)
ErrorInv ==
    /\ mode \in {"front", "shapes", "plan", "recorded"} =>
         /\ log.errors = <<>> /\ log.lost = {}
         /\ log.body = NoError /\ log.cleanup = NoError /\ log.raised = NoError
    /\ mode = "body" =>
         /\ log.body = NoError /\ log.cleanup = FirstError
         /\ policy = "none" => log.errors = <<>> /\ log.lost = {}
         /\ log.errors # <<>> => policy = "mixed" /\ Ends(todo, 1)
    /\ mode = "finally" =>
         /\ Raised = FirstError
         /\ log.errors = <<>> => log.body = NoError /\ log.cleanup = NoError
         /\ policy = "none" /\ log.errors = <<>> => log.lost = {}
    /\ FirstErrorRaised

RefusalInv ==
    /\ mode = "front" => ~memory.copied
    /\ mode # "front" /\ job.path \in Public /\ "capture" \in job.defects =>
         mode \in {"ended", "dropped"} /\ ~memory.copied
    /\ mode \in {"front", "plan"} => memory.uploads = {}
    /\ RefusalTouchesNothing

IInv ==
    /\ CallType /\ StoreType /\ PathInv /\ BodyInv /\ LeaseInv /\ MemoryInv
    /\ CountInv /\ ErrorInv /\ RefusalInv
-------------------------------------------------------------------------------
(* Steps of a script. *)

\* What is left of a script after its first step.
LEMMA Rest ==
  ASSUME NEW S, NEW t \in Seq(S), t # <<>>
  PROVE  /\ Tail(t) \in Seq(S) /\ Head(t) = t[1] /\ Head(t) \in S
         /\ DOMAIN t = 1..Len(t) /\ Len(t) \in Nat /\ Len(t) >= 1
         /\ DOMAIN Tail(t) = 1..(Len(t) - 1)
         /\ \A i \in 1..(Len(t) - 1) : Tail(t)[i] = t[i + 1]
         /\ \A i \in DOMAIN Tail(t) : i + 1 \in DOMAIN t /\ Tail(t)[i] = t[i + 1]
         /\ ToSet(t) = {Head(t)} \cup ToSet(Tail(t))
<1>1. /\ Tail(t) \in Seq(S) /\ Head(t) = t[1] /\ Head(t) \in S
      /\ DOMAIN t = 1..Len(t) /\ Len(t) \in Nat /\ Len(t) >= 1
      /\ DOMAIN Tail(t) = 1..(Len(t) - 1)
      /\ \A i \in 1..(Len(t) - 1) : Tail(t)[i] = t[i + 1]
  OBVIOUS
<1>2. ASSUME NEW x \in ToSet(t), x # Head(t)
      PROVE  x \in ToSet(Tail(t))
  <2>1. PICK i \in 1..Len(t) : x = t[i]
    BY <1>1 DEF ToSet
  <2>2. i - 1 \in DOMAIN Tail(t) /\ Tail(t)[i - 1] = x
    BY <1>1, <1>2, <2>1
  <2>. QED
    BY <2>2 DEF ToSet
<1>3. Head(t) \in ToSet(t)
  BY <1>1 DEF ToSet
<1>4. ASSUME NEW x \in ToSet(Tail(t))
      PROVE  x \in ToSet(t)
  <2>1. PICK i \in 1..(Len(t) - 1) : x = Tail(t)[i]
    BY <1>1 DEF ToSet
  <2>2. i + 1 \in DOMAIN t /\ t[i + 1] = x
    BY <1>1, <2>1
  <2>. QED
    BY <2>2 DEF ToSet
<1>. QED
  BY <1>1, <1>2, <1>3, <1>4

\* Two scripts after one another.
LEMMA Joined ==
  ASSUME NEW S, NEW s \in Seq(S), NEW t \in Seq(S)
  PROVE  /\ s \o t \in Seq(S) /\ Len(s \o t) = Len(s) + Len(t) /\ Len(s) \in Nat /\ Len(t) \in Nat
         /\ DOMAIN (s \o t) = 1..(Len(s) + Len(t))
         /\ \A i \in 1..Len(s) : (s \o t)[i] = s[i]
         /\ \A i \in 1..Len(t) : (s \o t)[Len(s) + i] = t[i]
         /\ \A i \in 1..(Len(s) + Len(t)) : i > Len(s) => (s \o t)[i] = t[i - Len(s)]
         /\ DOMAIN s = 1..Len(s) /\ DOMAIN t = 1..Len(t)
         /\ ToSet(s \o t) = ToSet(s) \cup ToSet(t)
<1>1. /\ s \o t \in Seq(S) /\ Len(s \o t) = Len(s) + Len(t) /\ Len(s) \in Nat /\ Len(t) \in Nat
      /\ DOMAIN (s \o t) = 1..(Len(s) + Len(t))
      /\ \A i \in 1..Len(s) : (s \o t)[i] = s[i]
      /\ \A i \in 1..Len(t) : (s \o t)[Len(s) + i] = t[i]
      /\ \A i \in 1..(Len(s) + Len(t)) : i > Len(s) => (s \o t)[i] = t[i - Len(s)]
      /\ DOMAIN s = 1..Len(s) /\ DOMAIN t = 1..Len(t)
  OBVIOUS
<1>2. ASSUME NEW x \in ToSet(s \o t)
      PROVE  x \in ToSet(s) \/ x \in ToSet(t)
  <2>1. PICK i \in 1..(Len(s) + Len(t)) : x = (s \o t)[i]
    BY <1>1 DEF ToSet
  <2>2. CASE i <= Len(s)
    BY <1>1, <2>1, <2>2 DEF ToSet
  <2>3. CASE i > Len(s)
    <3>1. i - Len(s) \in 1..Len(t) /\ x = t[i - Len(s)]
      BY <1>1, <2>1, <2>3
    <3>. QED
      BY <1>1, <3>1 DEF ToSet
  <2>. QED
    BY <1>1, <2>2, <2>3
<1>3. ASSUME NEW x \in ToSet(s)
      PROVE  x \in ToSet(s \o t)
  <2>1. PICK i \in 1..Len(s) : x = s[i]
    BY <1>1 DEF ToSet
  <2>. QED
    BY <1>1, <2>1 DEF ToSet
<1>4. ASSUME NEW x \in ToSet(t)
      PROVE  x \in ToSet(s \o t)
  <2>1. PICK i \in 1..Len(t) : x = t[i]
    BY <1>1 DEF ToSet
  <2>2. Len(s) + i \in DOMAIN (s \o t) /\ (s \o t)[Len(s) + i] = x
    BY <1>1, <2>1
  <2>. QED
    BY <2>2 DEF ToSet
<1>. QED
  BY <1>1, <1>2, <1>3, <1>4

\* One operation for each element of a list.
LEMMA EachOf ==
  ASSUME NEW op, NEW A, NEW s \in Seq(A)
  PROVE  /\ Each(op, s) \in Seq({op} \X A) /\ Len(Each(op, s)) = Len(s)
         /\ DOMAIN Each(op, s) = 1..Len(s)
         /\ \A i \in 1..Len(s) : Each(op, s)[i] = <<op, s[i]>>
         /\ \A x : <<op, x>> \in ToSet(Each(op, s)) <=> x \in ToSet(s)
         /\ \A x \in ToSet(Each(op, s)) : x[1] = op
<1>1. DOMAIN s = 1..Len(s) /\ Len(s) \in Nat
  OBVIOUS
<1>2. /\ Each(op, s) \in [1..Len(s) -> {op} \X A] /\ DOMAIN Each(op, s) = 1..Len(s)
      /\ \A i \in 1..Len(s) : Each(op, s)[i] = <<op, s[i]>>
  BY <1>1 DEF Each
<1>3. Each(op, s) \in Seq({op} \X A) /\ Len(Each(op, s)) = Len(s)
  BY <1>1, <1>2
<1>4. \A x : <<op, x>> \in ToSet(Each(op, s)) <=> x \in ToSet(s)
  BY <1>1, <1>2 DEF ToSet
<1>5. \A x \in ToSet(Each(op, s)) : x[1] = op
  BY <1>2 DEF ToSet
<1>. QED
  BY <1>2, <1>3, <1>4, <1>5

\* A finite set as a list.
LEMMA ListOf ==
  ASSUME NEW A, IsFiniteSet(A)
  PROVE  SetToSeq(A) \in Seq(A) /\ ToSet(SetToSeq(A)) = A
<1>1. Cardinality(A) \in Nat /\ ExistsBijection(1..Cardinality(A), A)
  BY FS_CardinalityType
<1>2. PICK f \in Bijection(1..Cardinality(A), A) : TRUE
  BY <1>1 DEF ExistsBijection
<1>3. f \in [1..Cardinality(A) -> A] /\ IsInjective(f)
  BY <1>2 DEF Bijection, Injection, IsInjective
<1> DEFINE g == SetToSeq(A)
<1>4. g \in [1..Cardinality(A) -> A] /\ IsInjective(g)
  BY <1>3 DEF SetToSeq
<1> HIDE DEF g
<1>5. g \in Seq(A)
  BY <1>1, <1>4
<1>6. g \in Injection(1..Cardinality(A), A)
  BY <1>4 DEF Injection, IsInjective
<1>7. Cardinality(1..Cardinality(A)) = Cardinality(A)
  BY <1>1, FS_Interval
<1>8. g \in Surjection(1..Cardinality(A), A)
  BY <1>6, <1>7, FS_Injection
<1>9. ToSet(g) = A
  BY <1>4, <1>8 DEF Surjection, ToSet
<1>. QED
  BY <1>5, <1>9 DEF g


\* A list with one more element.
LEMMA Appended ==
  ASSUME NEW S, NEW s \in Seq(S), NEW x \in S
  PROVE  /\ Append(s, x) \in Seq(S)
         /\ ToSet(Append(s, x)) = ToSet(s) \cup {x}
         /\ Append(s, x) # <<>>
         /\ Head(Append(s, x)) = IF s = <<>> THEN x ELSE Head(s)
<1>0. Append(s, x) \in Seq(S)
  OBVIOUS
<1>2. /\ DOMAIN Append(s, x) = 1..(Len(s) + 1) /\ Append(s, x)[Len(s) + 1] = x
      /\ \A i \in 1..Len(s) : Append(s, x)[i] = s[i]
      /\ DOMAIN s = 1..Len(s) /\ Len(s) \in Nat
  OBVIOUS
<1>1. /\ Append(s, x) # <<>> /\ Head(Append(s, x)) = IF s = <<>> THEN x ELSE Head(s)
  <2>1. Append(s, x) # <<>>
    BY <1>2
  <2>2. Head(Append(s, x)) = Append(s, x)[1]
    OBVIOUS
  <2>3. CASE s = <<>>
    <3>1. Len(s) = 0
      BY <2>3
    <3>. QED
      BY <1>2, <2>1, <2>2, <2>3, <3>1
  <2>4. CASE s # <<>>
    <3>1. 1 \in 1..Len(s) /\ Head(s) = s[1]
      BY <2>4
    <3>. QED
      BY <1>2, <2>1, <2>2, <2>4, <3>1
  <2>. QED
    BY <2>1, <2>3, <2>4
<1>3. \A i : i \in 1..(Len(s) + 1) <=> i \in 1..Len(s) \/ i = Len(s) + 1
  BY <1>2
<1>4. ToSet(Append(s, x)) = ToSet(s) \cup {x}
  BY <1>2, <1>3 DEF ToSet
<1>. QED
  BY <1>0, <1>1, <1>4

\* Retentions and ends of phases, seen from the next step.
LEMMA LeadsOn ==
  ASSUME NEW S, NEW t \in Seq(S), t # <<>>, NEW i \in Nat, i >= 1, NEW x
  PROVE  /\ Leads(t, i + 1, x) => Leads(Tail(t), i, x)
         /\ Ends(t, i + 1) => Ends(Tail(t), i)
         /\ Leads(t, 1, x) /\ Head(t) # <<"retain", x>> =>
              t[1][1] = "retain" /\ Leads(t, 2, x)
         /\ Ends(t, 1) /\ t[1][1] = "retain" => Ends(t, 2)
         /\ Ends(t, 1) => t[1][1] \in {"retain", "end"}
<1>n. Len(t) \in Nat
  BY Rest
<1>1. /\ DOMAIN t = 1..Len(t) /\ Head(t) = t[1]
      /\ DOMAIN Tail(t) = 1..(Len(t) - 1)
      /\ \A m \in 1..(Len(t) - 1) : Tail(t)[m] = t[m + 1]
  BY Rest
<1>2. ASSUME Leads(t, i + 1, x)
      PROVE  Leads(Tail(t), i, x)
  <2>1. PICK m \in 1..Len(t) : /\ m >= i + 1 /\ t[m] = <<"retain", x>>
                               /\ \A j \in (i + 1)..(m - 1) : t[j][1] = "retain"
    BY <1>1, <1>2 DEF Leads
  <2>b. m \in 1..Len(t) /\ m >= i + 1
    BY <2>1
  <2>a. m \in Int /\ m - 1 \in 1..(Len(t) - 1) /\ m - 1 >= i /\ (m - 1) + 1 = m
    BY <1>n, <2>b
  <2>2. m - 1 \in DOMAIN Tail(t) /\ m - 1 >= i /\ Tail(t)[m - 1] = t[m]
    BY <1>1, <2>a
  <2>3. ASSUME NEW j \in i..((m - 1) - 1)
        PROVE  Tail(t)[j][1] = "retain"
    <3>1. j + 1 \in (i + 1)..(m - 1) /\ j \in 1..(Len(t) - 1)
      BY <1>n, <2>a
    <3>2. Tail(t)[j] = t[j + 1] /\ t[j + 1][1] = "retain"
      BY <1>1, <2>1, <3>1
    <3>. QED
      BY <3>2
  <2>. QED
    BY <2>1, <2>2, <2>3 DEF Leads
<1>3. ASSUME Ends(t, i + 1)
      PROVE  Ends(Tail(t), i)
  <2>1. PICK m \in 1..Len(t) : /\ m >= i + 1 /\ t[m][1] = "end"
                               /\ \A j \in (i + 1)..(m - 1) : t[j][1] = "retain"
    BY <1>1, <1>3 DEF Ends
  <2>b. m \in 1..Len(t) /\ m >= i + 1
    BY <2>1
  <2>a. m \in Int /\ m - 1 \in 1..(Len(t) - 1) /\ m - 1 >= i /\ (m - 1) + 1 = m
    BY <1>n, <2>b
  <2>2. m - 1 \in DOMAIN Tail(t) /\ m - 1 >= i /\ Tail(t)[m - 1] = t[m]
    BY <1>1, <2>a
  <2>3. ASSUME NEW j \in i..((m - 1) - 1)
        PROVE  Tail(t)[j][1] = "retain"
    <3>1. j + 1 \in (i + 1)..(m - 1) /\ j \in 1..(Len(t) - 1)
      BY <1>n, <2>a
    <3>2. Tail(t)[j] = t[j + 1] /\ t[j + 1][1] = "retain"
      BY <1>1, <2>1, <3>1
    <3>. QED
      BY <3>2
  <2>. QED
    BY <2>1, <2>2, <2>3 DEF Ends
<1>4. ASSUME Leads(t, 1, x), Head(t) # <<"retain", x>>
      PROVE  t[1][1] = "retain" /\ Leads(t, 2, x)
  <2>1. PICK m \in 1..Len(t) : /\ t[m] = <<"retain", x>>
                               /\ \A j \in 1..(m - 1) : t[j][1] = "retain"
    BY <1>1, <1>4 DEF Leads
  <2>a. m # 1 /\ m \in 1..Len(t)
    BY <1>1, <1>4, <2>1
  <2>2. m >= 2 /\ 1 \in 1..(m - 1) /\ \A j \in 2..(m - 1) : j \in 1..(m - 1)
    BY <1>n, <2>a
  <2>3. t[1][1] = "retain" /\ \A j \in 2..(m - 1) : t[j][1] = "retain"
    BY <2>1, <2>2
  <2>. QED
    BY <1>1, <2>1, <2>2, <2>3 DEF Leads
<1>5. ASSUME Ends(t, 1)
      PROVE  /\ t[1][1] = "retain" => Ends(t, 2)
             /\ t[1][1] \in {"retain", "end"}
  <2>1. PICK m \in 1..Len(t) : /\ t[m][1] = "end"
                               /\ \A j \in 1..(m - 1) : t[j][1] = "retain"
    BY <1>1, <1>5 DEF Ends
  <2>2. CASE m = 1
    BY <2>1, <2>2
  <2>3. CASE m >= 2
    <3>1. 1 \in 1..(m - 1) /\ \A j \in 2..(m - 1) : j \in 1..(m - 1)
      BY <1>n, <2>3
    <3>2. t[1][1] = "retain" /\ \A j \in 2..(m - 1) : t[j][1] = "retain"
      BY <2>1, <3>1
    <3>. QED
      BY <1>1, <2>1, <2>3, <3>2 DEF Ends
  <2>4. m = 1 \/ m >= 2
    BY <1>n
  <2>. QED
    BY <2>2, <2>3, <2>4
<1>. QED
  BY <1>2, <1>3, <1>4, <1>5

\* The rest of the steps of mixed() has the same shape.
LEMMA ShapeOfRest ==
  ASSUME NEW S, NEW t \in Seq(S), t # <<>>, PhaseShape(t)
  PROVE  /\ PhaseShape(Tail(t))
         /\ t[1][1] \in {"enqueue", "retain", "end"}
         /\ t[1][1] = "enqueue" =>
              /\ t[1][2] \in Phases
              /\ \A x \in ToSet(PhaseTensors(t[1][2])) : Leads(Tail(t), 1, x)
         /\ t[1][1] \in {"enqueue", "retain"} => Ends(Tail(t), 1)
<1>1. /\ DOMAIN t = 1..Len(t) /\ Len(t) \in Nat /\ Len(t) >= 1
      /\ \A i \in DOMAIN Tail(t) : i \in Nat /\ i >= 1 /\ i + 1 \in DOMAIN t /\ Tail(t)[i] = t[i + 1]
  BY Rest
<1>2. PhaseShape(Tail(t))
  <2>1. SUFFICES ASSUME NEW i \in DOMAIN Tail(t)
                 PROVE  /\ Tail(t)[i][1] \in {"enqueue", "retain", "end"}
                        /\ Tail(t)[i][1] = "enqueue" =>
                             /\ Tail(t)[i][2] \in Phases
                             /\ \A x \in ToSet(PhaseTensors(Tail(t)[i][2])) :
                                  Leads(Tail(t), i + 1, x)
                        /\ Tail(t)[i][1] \in {"enqueue", "retain"} => Ends(Tail(t), i + 1)
    BY DEF PhaseShape
  <2>2. i + 1 \in Nat /\ i + 1 >= 1 /\ i + 1 \in DOMAIN t /\ Tail(t)[i] = t[i + 1]
    BY <1>1
  <2>3. /\ t[i + 1][1] \in {"enqueue", "retain", "end"}
        /\ t[i + 1][1] = "enqueue" =>
             /\ t[i + 1][2] \in Phases
             /\ \A x \in ToSet(PhaseTensors(t[i + 1][2])) : Leads(t, (i + 1) + 1, x)
        /\ t[i + 1][1] \in {"enqueue", "retain"} => Ends(t, (i + 1) + 1)
    BY <2>2 DEF PhaseShape
  <2>4. /\ \A x : Leads(t, (i + 1) + 1, x) => Leads(Tail(t), i + 1, x)
        /\ Ends(t, (i + 1) + 1) => Ends(Tail(t), i + 1)
    BY <2>2, LeadsOn
  <2>. QED
    BY <2>2, <2>3, <2>4
<1>3. /\ t[1][1] \in {"enqueue", "retain", "end"}
      /\ t[1][1] = "enqueue" =>
           /\ t[1][2] \in Phases
           /\ \A x \in ToSet(PhaseTensors(t[1][2])) : Leads(t, 1 + 1, x)
      /\ t[1][1] \in {"enqueue", "retain"} => Ends(t, 1 + 1)
  <2>1. 1 \in DOMAIN t
    BY <1>1
  <2>. QED
    BY <2>1 DEF PhaseShape
<1>4. /\ \A x : Leads(t, 1 + 1, x) => Leads(Tail(t), 1, x)
      /\ Ends(t, 1 + 1) => Ends(Tail(t), 1)
  <2>1. 1 \in Nat /\ 1 >= 1
    OBVIOUS
  <2>. QED
    BY <2>1, LeadsOn
<1>. QED
  BY <1>2, <1>3, <1>4

\* Phases after one another.
LEMMA ShapeJoined ==
  ASSUME NEW S, NEW s \in Seq(S), NEW t \in Seq(S), PhaseShape(s), PhaseShape(t)
  PROVE  PhaseShape(s \o t)
<1> DEFINE u == s \o t
<1>n. Len(s) \in Nat /\ Len(t) \in Nat
  BY Joined
<1>1. /\ DOMAIN u = 1..(Len(s) + Len(t))
      /\ DOMAIN s = 1..Len(s) /\ DOMAIN t = 1..Len(t)
      /\ \A i \in 1..Len(s) : u[i] = s[i]
      /\ \A i \in 1..Len(t) : u[Len(s) + i] = t[i]
  BY Joined
<1> HIDE DEF u
<1>2. ASSUME NEW i \in Nat, i >= 1, NEW x, Leads(s, i, x)
      PROVE  Leads(u, i, x)
  <2>1. PICK m \in 1..Len(s) : /\ m >= i /\ s[m] = <<"retain", x>>
                               /\ \A j \in i..(m - 1) : s[j][1] = "retain"
    BY <1>1, <1>2 DEF Leads
  <2>b. m \in 1..Len(s) /\ m >= i
    BY <2>1
  <2>a. m \in 1..(Len(s) + Len(t)) /\ \A j \in i..(m - 1) : j \in 1..Len(s)
    BY <1>n, <1>2, <2>b
  <2>2. m \in DOMAIN u /\ u[m] = s[m] /\ \A j \in i..(m - 1) : u[j] = s[j]
    BY <1>1, <2>1, <2>a
  <2>. QED
    BY <2>1, <2>2 DEF Leads
<1>3. ASSUME NEW i \in Nat, i >= 1, Ends(s, i)
      PROVE  Ends(u, i)
  <2>1. PICK m \in 1..Len(s) : /\ m >= i /\ s[m][1] = "end"
                               /\ \A j \in i..(m - 1) : s[j][1] = "retain"
    BY <1>1, <1>3 DEF Ends
  <2>b. m \in 1..Len(s) /\ m >= i
    BY <2>1
  <2>a. m \in 1..(Len(s) + Len(t)) /\ \A j \in i..(m - 1) : j \in 1..Len(s)
    BY <1>n, <1>3, <2>b
  <2>2. m \in DOMAIN u /\ u[m] = s[m] /\ \A j \in i..(m - 1) : u[j] = s[j]
    BY <1>1, <2>1, <2>a
  <2>. QED
    BY <2>1, <2>2 DEF Ends
<1>4. ASSUME NEW i \in Nat, i >= 1, NEW x, Leads(t, i, x)
      PROVE  Leads(u, Len(s) + i, x)
  <2>1. PICK m \in 1..Len(t) : /\ m >= i /\ t[m] = <<"retain", x>>
                               /\ \A j \in i..(m - 1) : t[j][1] = "retain"
    BY <1>1, <1>4 DEF Leads
  <2>b. m \in 1..Len(t) /\ m >= i
    BY <2>1
  <2>a. /\ m \in 1..Len(t) /\ m >= i /\ Len(s) + m >= Len(s) + i
        /\ Len(s) + m \in 1..(Len(s) + Len(t))
    BY <1>n, <2>b
  <2>2. Len(s) + m \in DOMAIN u /\ Len(s) + m >= Len(s) + i /\ u[Len(s) + m] = t[m]
    BY <1>1, <2>a
  <2>3. ASSUME NEW j \in (Len(s) + i)..((Len(s) + m) - 1)
        PROVE  u[j][1] = "retain"
    <3>1. j - Len(s) \in i..(m - 1) /\ j - Len(s) \in 1..Len(t) /\ j = Len(s) + (j - Len(s))
      BY <1>n, <1>4, <2>a
    <3>2. u[Len(s) + (j - Len(s))] = t[j - Len(s)] /\ t[j - Len(s)][1] = "retain"
      BY <1>1, <2>1, <3>1
    <3>. QED
      BY <3>1, <3>2
  <2>. QED
    BY <2>1, <2>2, <2>3 DEF Leads
<1>5. ASSUME NEW i \in Nat, i >= 1, Ends(t, i)
      PROVE  Ends(u, Len(s) + i)
  <2>1. PICK m \in 1..Len(t) : /\ m >= i /\ t[m][1] = "end"
                               /\ \A j \in i..(m - 1) : t[j][1] = "retain"
    BY <1>1, <1>5 DEF Ends
  <2>b. m \in 1..Len(t) /\ m >= i
    BY <2>1
  <2>a. /\ m \in 1..Len(t) /\ m >= i /\ Len(s) + m >= Len(s) + i
        /\ Len(s) + m \in 1..(Len(s) + Len(t))
    BY <1>n, <2>b
  <2>2. Len(s) + m \in DOMAIN u /\ Len(s) + m >= Len(s) + i /\ u[Len(s) + m] = t[m]
    BY <1>1, <2>a
  <2>3. ASSUME NEW j \in (Len(s) + i)..((Len(s) + m) - 1)
        PROVE  u[j][1] = "retain"
    <3>1. j - Len(s) \in i..(m - 1) /\ j - Len(s) \in 1..Len(t) /\ j = Len(s) + (j - Len(s))
      BY <1>n, <1>5, <2>a
    <3>2. u[Len(s) + (j - Len(s))] = t[j - Len(s)] /\ t[j - Len(s)][1] = "retain"
      BY <1>1, <2>1, <3>1
    <3>. QED
      BY <3>1, <3>2
  <2>. QED
    BY <2>1, <2>2, <2>3 DEF Ends
<1>6. SUFFICES ASSUME NEW i \in DOMAIN u
               PROVE  /\ u[i][1] \in {"enqueue", "retain", "end"}
                      /\ u[i][1] = "enqueue" =>
                           /\ u[i][2] \in Phases
                           /\ \A x \in ToSet(PhaseTensors(u[i][2])) : Leads(u, i + 1, x)
                      /\ u[i][1] \in {"enqueue", "retain"} => Ends(u, i + 1)
  BY DEF PhaseShape, u
<1>7. CASE i <= Len(s)
  <2>a. i \in 1..Len(s) /\ i + 1 \in Nat /\ i + 1 >= 1
    BY <1>1, <1>n, <1>7
  <2>1. i \in DOMAIN s /\ u[i] = s[i] /\ i + 1 \in Nat /\ i + 1 >= 1
    BY <1>1, <2>a
  <2>2. /\ s[i][1] \in {"enqueue", "retain", "end"}
        /\ s[i][1] = "enqueue" =>
             /\ s[i][2] \in Phases
             /\ \A x \in ToSet(PhaseTensors(s[i][2])) : Leads(s, i + 1, x)
        /\ s[i][1] \in {"enqueue", "retain"} => Ends(s, i + 1)
    BY <2>1 DEF PhaseShape
  <2>. QED
    BY <1>2, <1>3, <2>1, <2>2
<1>8. CASE i > Len(s)
  <2> DEFINE k == i - Len(s)
  <2>1. /\ k \in DOMAIN t /\ u[i] = t[k] /\ k + 1 \in Nat /\ k + 1 >= 1
        /\ i + 1 = Len(s) + (k + 1)
    <3>1. /\ k \in 1..Len(t) /\ i = Len(s) + k /\ k + 1 \in Nat /\ k + 1 >= 1
          /\ i + 1 = Len(s) + (k + 1)
      BY <1>1, <1>n, <1>8
    <3>. QED
      BY <1>1, <3>1
  <2> HIDE DEF k
  <2>2. /\ t[k][1] \in {"enqueue", "retain", "end"}
        /\ t[k][1] = "enqueue" =>
             /\ t[k][2] \in Phases
             /\ \A x \in ToSet(PhaseTensors(t[k][2])) : Leads(t, k + 1, x)
        /\ t[k][1] \in {"enqueue", "retain"} => Ends(t, k + 1)
    BY <2>1 DEF PhaseShape
  <2>. QED
    BY <1>4, <1>5, <2>1, <2>2
<1>9. i <= Len(s) \/ i > Len(s)
  BY <1>1, <1>n
<1>. QED
  BY <1>7, <1>8, <1>9

\* The tensors that a phase retains.
LEMMA FourTensors ==
  ASSUME NEW k \in Phases
  PROVE  PhaseTensors(k) \in Seq(Tensors) /\ Len(PhaseTensors(k)) = 4
<1>1. ASSUME NEW a \in Tensors, NEW b \in Tensors, NEW c \in Tensors, NEW d \in Tensors
      PROVE  <<a, b, c, d>> \in Seq(Tensors) /\ Len(<<a, b, c, d>>) = 4
  OBVIOUS
<1>2. /\ "values" \in Tensors /\ "offsets" \in Tensors /\ "output" \in Tensors
      /\ "records" \in Tensors /\ "scratch" \in Tensors
  BY DEF Tensors
<1>3. \/ PhaseTensors(k) = <<"values", "offsets", "output", "records">>
      \/ PhaseTensors(k) = <<"values", "offsets", "records", "scratch">>
      \/ PhaseTensors(k) = <<"offsets", "output", "records", "scratch">>
  BY DEF PhaseTensors, Phases
<1>. QED
  BY <1>1, <1>2, <1>3

\* One phase: an enqueue, its retentions, and the end.
LEMMA PhaseHasShape ==
  ASSUME NEW k \in Phases
  PROVE  Phase(k) \in Seq(BodySteps) /\ PhaseShape(Phase(k))
<1> DEFINE ts == PhaseTensors(k)
<1> DEFINE a == <<<<"enqueue", k>>>>
<1> DEFINE b == Each("retain", ts)
<1> DEFINE c == <<<<"end", k>>>>
<1> DEFINE u == (a \o b) \o c
<1>1. ts \in Seq(Tensors) /\ Len(ts) = 4
  BY FourTensors
<1> HIDE DEF ts
<1>2. /\ b \in Seq({"retain"} \X Tensors) /\ Len(b) = 4
      /\ \A i \in 1..4 : b[i] = <<"retain", ts[i]>>
  <2>1. b \in Seq({"retain"} \X Tensors)
    BY <1>1, EachOf
  <2>2. Len(b) = Len(ts)
    BY <1>1, EachOf
  <2>3. \A i \in 1..Len(ts) : b[i] = <<"retain", ts[i]>>
    BY <1>1 DEF Each
  <2>. QED
    BY <1>1, <2>1, <2>2, <2>3
<1>3. b \in Seq(BodySteps)
  <2>1. {"retain"} \X Tensors \subseteq BodySteps
    BY DEF BodySteps
  <2>. QED
    BY <1>2, <2>1, SeqMonotonic
<1>4. /\ a \in Seq(BodySteps) /\ Len(a) = 1 /\ a[1] = <<"enqueue", k>>
      /\ c \in Seq(BodySteps) /\ Len(c) = 1 /\ c[1] = <<"end", k>>
  <2>1. <<"enqueue", k>> \in BodySteps /\ <<"end", k>> \in BodySteps
    BY DEF BodySteps, Phases, Kernels, Writers
  <2> HIDE DEF BodySteps
  <2>. QED
    BY <2>1
<1> HIDE DEF a, b, c
<1>5. /\ a \o b \in Seq(BodySteps) /\ Len(a \o b) = 5
      /\ (a \o b)[1] = a[1]
      /\ \A i \in 2..5 : (a \o b)[i] = b[i - 1]
  <2>0. a \in Seq(BodySteps) /\ b \in Seq(BodySteps)
    BY <1>3, <1>4
  <2>1. /\ a \o b \in Seq(BodySteps) /\ DOMAIN (a \o b) = 1..(Len(a) + Len(b))
        /\ \A i \in 1..Len(a) : (a \o b)[i] = a[i]
        /\ \A i \in 1..(Len(a) + Len(b)) : i > Len(a) => (a \o b)[i] = b[i - Len(a)]
    BY <2>0, Joined
  <2>2. Len(a \o b) = 5
    <3>1. Len(a \o b) = Len(a) + Len(b)
      BY <2>0, Joined
    <3>. QED
      BY <1>2, <1>4, <3>1
  <2>3. (a \o b)[1] = a[1]
    BY <1>4, <2>1
  <2>4. ASSUME NEW i \in 2..5
        PROVE  (a \o b)[i] = b[i - 1]
    <3>1. i \in 1..(1 + 4) /\ i > 1
      OBVIOUS
    <3>. QED
      BY <1>2, <1>4, <2>1, <3>1
  <2>. QED
    BY <2>1, <2>2, <2>3, <2>4
<1>6. /\ u \in Seq(BodySteps) /\ DOMAIN u = 1..6
      /\ \A i \in 1..5 : u[i] = (a \o b)[i]
      /\ u[6] = c[1]
  <2>0. a \o b \in Seq(BodySteps) /\ c \in Seq(BodySteps)
    BY <1>4, <1>5
  <2>1. /\ u \in Seq(BodySteps) /\ DOMAIN u = 1..(Len(a \o b) + Len(c))
        /\ \A i \in 1..Len(a \o b) : u[i] = (a \o b)[i]
        /\ \A i \in 1..(Len(a \o b) + Len(c)) :
             i > Len(a \o b) => u[i] = c[i - Len(a \o b)]
    BY <2>0, Joined
  <2>2. 6 \in 1..(5 + 1) /\ 6 > 5 /\ 6 - 5 = 1
    OBVIOUS
  <2>3. u[6] = c[1]
    BY <1>4, <1>5, <2>1, <2>2
  <2>. QED
    BY <1>4, <1>5, <2>1, <2>3
<1>7. u = Phase(k)
  BY DEF Phase, a, b, c, ts
<1> HIDE DEF u
<1>8. /\ u[1] = <<"enqueue", k>> /\ u[6] = <<"end", k>>
      /\ \A i \in 2..5 : u[i] = <<"retain", ts[i - 1]>>
  <2>1. ASSUME NEW i \in 2..5
        PROVE  u[i] = <<"retain", ts[i - 1]>>
    <3>1. i \in 1..5 /\ i - 1 \in 1..4
      OBVIOUS
    <3>. QED
      BY <1>2, <1>5, <1>6, <3>1
  <2>2. 1 \in 1..5
    OBVIOUS
  <2>3. u[1] = <<"enqueue", k>>
    BY <1>4, <1>5, <1>6, <2>2
  <2>. QED
    BY <1>4, <1>6, <2>1, <2>3
<1>9. \A i \in 2..5 : u[i][1] = "retain"
  BY <1>8
<1>10. ASSUME NEW i \in 1..5
       PROVE  Ends(u, i + 1)
  <2>1. 6 \in 1..6 /\ 6 >= i + 1 /\ \A j \in (i + 1)..(6 - 1) : j \in 2..5
    OBVIOUS
  <2>2. u[6][1] = "end"
    BY <1>8
  <2>. QED
    BY <1>6, <1>9, <2>1, <2>2 DEF Ends
<1>11. ASSUME NEW x \in ToSet(ts)
       PROVE  Leads(u, 1 + 1, x)
  <2>1. PICK i \in 1..4 : x = ts[i]
    BY <1>1 DEF ToSet
  <2>2. /\ i + 1 \in 2..5 /\ i + 1 \in 1..6 /\ i + 1 >= 1 + 1 /\ (i + 1) - 1 = i
        /\ \A j \in (1 + 1)..((i + 1) - 1) : j \in 2..5
    OBVIOUS
  <2>3. u[i + 1] = <<"retain", x>>
    BY <1>8, <2>1, <2>2
  <2>4. \A j \in (1 + 1)..((i + 1) - 1) : u[j][1] = "retain"
    BY <1>9, <2>2
  <2>. QED
    BY <1>6, <2>2, <2>3, <2>4 DEF Leads
<1>12. PhaseShape(u)
  <2>1. SUFFICES ASSUME NEW i \in 1..6
                 PROVE  /\ u[i][1] \in {"enqueue", "retain", "end"}
                        /\ u[i][1] = "enqueue" =>
                             /\ u[i][2] \in Phases
                             /\ \A x \in ToSet(PhaseTensors(u[i][2])) : Leads(u, i + 1, x)
                        /\ u[i][1] \in {"enqueue", "retain"} => Ends(u, i + 1)
    BY <1>6 DEF PhaseShape
  <2>2. CASE i = 1
    <3>1. 1 \in 1..5 /\ u[i][1] = "enqueue" /\ u[i][2] = k
      BY <1>8, <2>2
    <3>2. \A x \in ToSet(PhaseTensors(u[i][2])) : Leads(u, i + 1, x)
      BY <1>11, <2>2, <3>1 DEF ts
    <3>3. Ends(u, i + 1)
      BY <1>10, <2>2, <3>1
    <3>. QED
      BY <3>1, <3>2, <3>3
  <2>3. CASE i \in 2..5
    <3>1. i \in 1..5 /\ u[i][1] = "retain"
      BY <1>9, <2>3
    <3>. QED
      BY <1>10, <3>1
  <2>4. CASE i = 6
    <3>1. u[i][1] = "end"
      BY <1>8, <2>4
    <3>. QED
      BY <3>1
  <2>5. i = 1 \/ i \in 2..5 \/ i = 6
    OBVIOUS
  <2>. QED
    BY <2>2, <2>3, <2>4, <2>5
<1>. QED
  BY <1>6, <1>7, <1>12

\* The steps of a launch of mixed().
LEMMA MixedHasShape ==
  MixedBody \in Seq(BodySteps) /\ PhaseShape(MixedBody)
<1>1. <<>> \in Seq(BodySteps) /\ PhaseShape(<<>>)
  BY DEF PhaseShape
<1> DEFINE f == IF Directs THEN Phase("fused") ELSE <<>>
<1> DEFINE s == IF Splits THEN Phase("partial") \o Phase("merge") ELSE <<>>
<1>2. f \in Seq(BodySteps) /\ PhaseShape(f)
  BY <1>1, PhaseHasShape DEF Phases
<1>3. s \in Seq(BodySteps) /\ PhaseShape(s)
  <2>1. /\ Phase("partial") \in Seq(BodySteps) /\ PhaseShape(Phase("partial"))
        /\ Phase("merge") \in Seq(BodySteps) /\ PhaseShape(Phase("merge"))
    BY PhaseHasShape DEF Phases
  <2>2. PhaseShape(Phase("partial") \o Phase("merge"))
    BY <2>1, ShapeJoined
  <2>. QED
    BY <1>1, <2>1, <2>2, Joined
<1> HIDE DEF f, s
<1>4. f \o s \in Seq(BodySteps) /\ PhaseShape(f \o s)
  BY <1>2, <1>3, ShapeJoined, Joined
<1>. QED
  BY <1>4 DEF MixedBody, f, s

-------------------------------------------------------------------------------
(* What a launch touches and what it retains. *)

\* The elements of short lists.
LEMMA Listed ==
  /\ \A a : ToSet(<<a>>) = {a}
  /\ \A a, b : ToSet(<<a, b>>) = {a, b}
  /\ \A a, b, c : ToSet(<<a, b, c>>) = {a, b, c}
<1>1. ASSUME NEW a PROVE ToSet(<<a>>) = {a}
  <2>1. DOMAIN <<a>> = {1} /\ <<a>>[1] = a
    OBVIOUS
  <2>. QED
    BY <2>1 DEF ToSet
<1>2. ASSUME NEW a, NEW b PROVE ToSet(<<a, b>>) = {a, b}
  <2>1. DOMAIN <<a, b>> = {1, 2} /\ <<a, b>>[1] = a /\ <<a, b>>[2] = b
    OBVIOUS
  <2>. QED
    BY <2>1 DEF ToSet
<1>3. ASSUME NEW a, NEW b, NEW c PROVE ToSet(<<a, b, c>>) = {a, b, c}
  <2>1. /\ DOMAIN <<a, b, c>> = {1, 2, 3}
        /\ <<a, b, c>>[1] = a /\ <<a, b, c>>[2] = b /\ <<a, b, c>>[3] = c
    OBVIOUS
  <2>. QED
    BY <2>1 DEF ToSet
<1>. QED
  BY <1>1, <1>2, <1>3

\* What a launch retains besides its output, before it and after it.
LEMMA RetainedParts ==
  ASSUME NEW o \in Seq(Tensors), policy # "mixed"
  PROVE  \E a, b \in Seq(Tensors) :
           /\ Retained(o) = (a \o o) \o b
           /\ Inputs \subseteq ToSet(a) \cup ToSet(b)
<1>t. /\ "values" \in Tensors /\ "values2" \in Tensors /\ "offsets" \in Tensors
      /\ "offsets32" \in Tensors /\ "records" \in Tensors /\ "ids" \in Tensors
      /\ "scratch" \in Tensors /\ "tasks" \in Tensors
  BY DEF Tensors
<1> HIDE DEF Tensors
<1>s. /\ \A a \in Tensors : <<a>> \in Seq(Tensors)
      /\ \A a, b \in Tensors : <<a, b>> \in Seq(Tensors)
      /\ <<>> \in Seq(Tensors)
  OBVIOUS
<1>1. CASE policy \in {"warp", "cta"}
  <2>1. Retained(o) = (<<"values", "offsets">> \o o) \o <<"ids">>
    BY <1>1 DEF Retained
  <2>2. Inputs = {"values", "offsets"}
    BY <1>1 DEF Inputs
  <2>3. <<"values", "offsets">> \in Seq(Tensors) /\ <<"ids">> \in Seq(Tensors)
    BY <1>t, <1>s
  <2>. QED
    BY <2>1, <2>2, <2>3, Listed
<1>3. CASE policy = "none" /\ job.path = "fixed"
  <2>1. Retained(o) = <<"values", "values2">> \o o
    BY <1>3 DEF Retained
  <2>2. Inputs = {"values", "values2"}
    BY <1>3 DEF Inputs
  <2>3. <<"values", "values2">> \in Seq(Tensors)
    BY <1>t, <1>s
  <2>4. <<"values", "values2">> \o o = (<<"values", "values2">> \o o) \o <<>>
    BY <2>3
  <2>. QED
    BY <1>s, <2>1, <2>2, <2>3, <2>4, Listed
<1>4. CASE policy = "none" /\ job.path = "tasks"
  <2>1. Retained(o) = (<<"values", "offsets">> \o o) \o <<"tasks">>
    BY <1>4 DEF Retained
  <2>2. Inputs = {"values", "offsets", "tasks"}
    BY <1>4 DEF Inputs
  <2>3. <<"values", "offsets">> \in Seq(Tensors) /\ <<"tasks">> \in Seq(Tensors)
    BY <1>t, <1>s
  <2> DEFINE a == <<"values", "offsets">>
  <2> DEFINE b == <<"tasks">>
  <2>4. ToSet(a) = {"values", "offsets"} /\ ToSet(b) = {"tasks"}
    BY Listed
  <2>5. Retained(o) = (a \o o) \o b /\ Inputs \subseteq ToSet(a) \cup ToSet(b)
    BY <2>1, <2>2, <2>4
  <2> HIDE DEF a, b
  <2>6. a \in Seq(Tensors) /\ b \in Seq(Tensors)
    BY <2>3 DEF a, b
  <2>. QED
    BY <2>5, <2>6
<1>5. CASE /\ policy \notin {"warp", "cta", "mixed"}
           /\ ~(policy = "none" /\ job.path \in {"fixed", "tasks"})
  <2>1. Inputs = {"values"} \cup IF job.wide THEN {} ELSE {"offsets"}
    BY <1>5 DEF Inputs
  <2>2. CASE policy = "none" /\ job.path = "reduce" /\ ~ChoosesCta /\ (Splits \/ ~Rows)
    <3> DEFINE a == IF job.wide THEN <<"values">> ELSE <<"values", "offsets">>
    <3> DEFINE b == IF Splits THEN <<"records", "scratch">> ELSE <<"records">>
    <3>1. Retained(o) = (a \o o) \o b
      BY <2>2 DEF Retained
    <3>2. a \in Seq(Tensors) /\ b \in Seq(Tensors)
      BY <1>t, <1>s
    <3>3. Inputs \subseteq ToSet(a)
      BY <2>1, Listed
    <3> HIDE DEF a, b
    <3>. QED
      BY <3>1, <3>2, <3>3
  <2>3. CASE ~(policy = "none" /\ job.path = "reduce" /\ ~ChoosesCta /\ (Splits \/ ~Rows))
    <3> DEFINE a == <<"values", KernelOffsets>>
    <3> DEFINE b == IF "ids" \in memory.uploads THEN <<"ids">> ELSE <<>>
    <3>1. Retained(o) = (a \o o) \o b
      BY <1>5, <2>3 DEF Retained
    <3>2. a \in Seq(Tensors) /\ b \in Seq(Tensors)
      BY <1>t, <1>s DEF KernelOffsets
    <3>3. Inputs \subseteq ToSet(a)
      BY <2>1, Listed DEF KernelOffsets
    <3> HIDE DEF a, b
    <3>. QED
      BY <3>1, <3>2, <3>3
  <2>. QED
    BY <2>2, <2>3
<1>. QED
  BY <1>1, <1>3, <1>4, <1>5

\* A launch retains its inputs, whatever it uploaded, and the output it wrote.
LEMMA InputsRetained ==
  ASSUME NEW o \in Seq({"output"})
  PROVE  /\ Retained(o) \in Seq(Tensors)
         /\ policy # "mixed" => Inputs \cup ToSet(o) \subseteq ToSet(Retained(o))
         /\ policy = "mixed" => Retained(o) = <<>>
<1>1. o \in Seq(Tensors) /\ <<>> \in Seq(Tensors)
  <2>1. {"output"} \subseteq Tensors
    BY DEF Tensors
  <2>. QED
    BY <2>1
<1>2. CASE policy = "mixed"
  <2>1. Retained(o) = <<>>
    BY <1>2 DEF Retained
  <2>. QED
    BY <1>1, <1>2, <2>1
<1>3. CASE policy # "mixed"
  <2>1. PICK a \in Seq(Tensors), b \in Seq(Tensors) :
          /\ Retained(o) = (a \o o) \o b
          /\ Inputs \subseteq ToSet(a) \cup ToSet(b)
    BY <1>1, <1>3, RetainedParts
  <2> DEFINE T == Tensors
  <2>2. a \in Seq(T) /\ b \in Seq(T) /\ o \in Seq(T)
    BY <1>1
  <2> HIDE DEF T
  <2> DEFINE c == a \o o
  <2>3. c \in Seq(T) /\ ToSet(c) = ToSet(a) \cup ToSet(o)
    BY <2>2, Joined
  <2>4. Retained(o) = c \o b
    BY <2>1
  <2> HIDE DEF c
  <2>5. c \o b \in Seq(T) /\ ToSet(c \o b) = ToSet(c) \cup ToSet(b)
    BY <2>2, <2>3, Joined
  <2>. QED
    BY <1>3, <2>1, <2>3, <2>4, <2>5 DEF T
<1>. QED
  BY <1>2, <1>3

\* A kernel touches the inputs of its launch, and the output if it writes it.
LEMMA TouchesInputs ==
  ASSUME NEW k \in Kernels,
         \/ policy = "none" /\ job.path # "prepared" /\ (k = "fixed" <=> job.path = "fixed")
         \/ policy \in {"warp", "cta"} /\ job.path = "prepared" /\ k = policy
  PROVE  \A x \in Touches(k) \cap Foreign : x \in Inputs \/ (x = "output" /\ k \in Writers)
<1>1. k \in {"fused", "merge", "cta", "warp", "direct", "fixed", "partial"}
  BY DEF Kernels, Writers
<1>2. CASE k = "fixed"
  BY <1>2 DEF Touches, Foreign, Inputs, Writers
<1>3. CASE k = "partial"
  BY <1>3 DEF Touches, Foreign, Inputs, Writers
<1>4. CASE k = "merge"
  BY <1>4 DEF Touches, Foreign, Inputs, Writers
<1>5. CASE k = "fused"
  BY <1>5 DEF Touches, Foreign, Inputs, Writers
<1>6. CASE k \in {"cta", "warp", "direct"}
  <2>1. /\ k \in Writers /\ k \notin {"wait", "fixed", "partial", "merge", "fused"}
    BY <1>6 DEF Writers
  <2>2. Touches(k) = {"values", "output", KernelOffsets}
                       \cup IF job.path = "tasks" THEN {"tasks"} ELSE {}
    BY <2>1 DEF Touches
  <2>. QED
    BY <1>6, <2>1, <2>2 DEF Foreign, Inputs, KernelOffsets
<1>. QED
  BY <1>1, <1>2, <1>3, <1>4, <1>5, <1>6

\* A kernel of mixed() touches what its phase retains.
LEMMA TouchesPhase ==
  ASSUME NEW k \in Phases
  PROVE  Touches(k) \cap Foreign \subseteq ToSet(PhaseTensors(k))
<1>1. \A a, b, c, d : ToSet(<<a, b, c, d>>) = {a, b, c, d}
  <2>1. SUFFICES ASSUME NEW a, NEW b, NEW c, NEW d
                 PROVE  ToSet(<<a, b, c, d>>) = {a, b, c, d}
    OBVIOUS
  <2>2. /\ DOMAIN <<a, b, c, d>> = {1, 2, 3, 4}
        /\ <<a, b, c, d>>[1] = a /\ <<a, b, c, d>>[2] = b
        /\ <<a, b, c, d>>[3] = c /\ <<a, b, c, d>>[4] = d
    OBVIOUS
  <2>. QED
    BY <2>2 DEF ToSet
<1>2. CASE k = "fused"
  <2>1. PhaseTensors(k) = <<"values", "offsets", "output", "records">>
    BY <1>2 DEF PhaseTensors
  <2>. QED
    BY <1>1, <1>2, <2>1 DEF Touches
<1>3. CASE k = "partial"
  <2>1. PhaseTensors(k) = <<"values", "offsets", "records", "scratch">>
    BY <1>3 DEF PhaseTensors
  <2>. QED
    BY <1>1, <1>3, <2>1 DEF Touches
<1>4. CASE k = "merge"
  <2>1. PhaseTensors(k) = <<"offsets", "output", "records", "scratch">>
    BY <1>4 DEF PhaseTensors
  <2>. QED
    BY <1>1, <1>4, <2>1 DEF Touches
<1>. QED
  BY <1>2, <1>3, <1>4 DEF Phases

-------------------------------------------------------------------------------
(* The cleanup of a launch. *)

\* A script that advances the output version once, for this launch.
AdvancesOnce(steps) ==
    \A i \in DOMAIN steps : steps[i][1] = "advance" =>
        /\ steps[i] = <<"advance", launches>>
        /\ \A j \in DOMAIN steps : steps[j][1] = "advance" => j = i

\* A script that is followed by one that does not advance, or the reverse.
LEMMA AdvancesJoined ==
  ASSUME NEW S, NEW s \in Seq(S), NEW t \in Seq(S),
         AdvancesOnce(s), AdvancesOnce(t), ~Has(s, "advance") \/ ~Has(t, "advance")
  PROVE  /\ AdvancesOnce(s \o t)
         /\ Has(s \o t, "advance") <=> Has(s, "advance") \/ Has(t, "advance")
<1> DEFINE u == s \o t
<1>n. Len(s) \in Nat /\ Len(t) \in Nat
  BY Joined
<1>1. /\ DOMAIN u = 1..(Len(s) + Len(t))
      /\ DOMAIN s = 1..Len(s) /\ DOMAIN t = 1..Len(t)
      /\ \A i \in 1..Len(s) : u[i] = s[i]
      /\ \A i \in 1..Len(t) : u[Len(s) + i] = t[i]
      /\ \A i \in 1..(Len(s) + Len(t)) : i > Len(s) => u[i] = t[i - Len(s)]
  BY Joined
<1> HIDE DEF u
<1>2. ASSUME NEW i \in DOMAIN u
      PROVE  \/ i \in DOMAIN s /\ u[i] = s[i]
             \/ i - Len(s) \in DOMAIN t /\ u[i] = t[i - Len(s)]
  <2>a. i \in 1..(Len(s) + Len(t))
    BY <1>1
  <2>b. i \in 1..Len(s) \/ (i > Len(s) /\ i - Len(s) \in 1..Len(t))
    BY <1>n, <2>a
  <2>. QED
    BY <1>1, <2>a, <2>b
<1>3. ASSUME Has(u, "advance")
      PROVE  Has(s, "advance") \/ Has(t, "advance")
  BY <1>2, <1>3 DEF Has
<1>4. ASSUME Has(s, "advance")
      PROVE  Has(u, "advance")
  <2>1. PICK i \in 1..Len(s) : s[i][1] = "advance"
    BY <1>1, <1>4 DEF Has
  <2>2. i \in 1..(Len(s) + Len(t))
    BY <1>n
  <2>. QED
    BY <1>1, <2>1, <2>2 DEF Has
<1>5. ASSUME Has(t, "advance")
      PROVE  Has(u, "advance")
  <2>1. PICK i \in 1..Len(t) : t[i][1] = "advance"
    BY <1>1, <1>5 DEF Has
  <2>2. Len(s) + i \in 1..(Len(s) + Len(t))
    BY <1>n
  <2>. QED
    BY <1>1, <2>1, <2>2 DEF Has
<1>6. ASSUME NEW i \in DOMAIN u, u[i][1] = "advance"
      PROVE  /\ u[i] = <<"advance", launches>>
             /\ \A j \in DOMAIN u : u[j][1] = "advance" => j = i
  <2>1. CASE i \in DOMAIN s /\ u[i] = s[i]
    <3>1. Has(s, "advance")
      BY <1>6, <2>1 DEF Has
    <3>2. ~Has(t, "advance")
      BY <3>1
    <3>3. ASSUME NEW j \in DOMAIN u, u[j][1] = "advance"
          PROVE  j \in DOMAIN s /\ u[j] = s[j]
      BY <1>2, <3>2, <3>3 DEF Has
    <3>. QED
      BY <1>6, <2>1, <3>3 DEF AdvancesOnce
  <2>2. CASE i - Len(s) \in DOMAIN t /\ u[i] = t[i - Len(s)]
    <3>1. Has(t, "advance")
      BY <1>6, <2>2 DEF Has
    <3>2. ~Has(s, "advance")
      BY <3>1
    <3>3. ASSUME NEW j \in DOMAIN u, u[j][1] = "advance"
          PROVE  j = i
      <4>1. j - Len(s) \in DOMAIN t /\ u[j] = t[j - Len(s)]
        BY <1>2, <3>2, <3>3 DEF Has
      <4>2. j - Len(s) = i - Len(s)
        BY <1>6, <2>2, <3>3, <4>1 DEF AdvancesOnce
      <4>3. i \in Int /\ j \in Int
        BY <1>1, <1>n
      <4>. QED
        BY <1>n, <4>2, <4>3
    <3>. QED
      BY <1>6, <2>2, <3>3 DEF AdvancesOnce
  <2>. QED
    BY <1>2, <2>1, <2>2
<1>7. AdvancesOnce(u)
  BY <1>6 DEF AdvancesOnce
<1>. QED
  BY <1>3, <1>4, <1>5, <1>7 DEF u

\* A list of one operation other than an advance does not advance.
LEMMA EachDoesNotAdvance ==
  ASSUME NEW op, op # "advance", NEW A, NEW s \in Seq(A)
  PROVE  AdvancesOnce(Each(op, s)) /\ ~Has(Each(op, s), "advance")
<1>1. \A i \in DOMAIN Each(op, s) : Each(op, s)[i][1] = op
  BY DEF Each
<1>. QED
  BY <1>1 DEF AdvancesOnce, Has

\* What the finally blocks of a launch do after the enqueues in tried.
LEMMA FinishSteps ==
  ASSUME held \subseteq Kernels, launches \in Nat, NEW tried,
         job.path = "fixed" => policy = "none" /\ tried \subseteq {"fixed"}
  PROVE  /\ Finish(tried) \in Seq(CleanupSteps)
         /\ policy = "none" /\ (job.path = "fixed" => tried # {}) =>
              \A k \in held : <<"release", k>> \in ToSet(Finish(tried))
         /\ tried # {} /\ policy # "mixed" =>
              \A x \in Inputs : <<"retain", x>> \in ToSet(Finish(tried))
         /\ Wrote(tried) /\ policy # "mixed" =>
              <<"retain", "output">> \in ToSet(Finish(tried))
         /\ Has(Finish(tried), "advance") <=> Wrote(tried)
         /\ AdvancesOnce(Finish(tried))
<1> DEFINE C == CleanupSteps
<1> DEFINE o == Written(tried)
<1> DEFINE a == Each("retain", Retained(o))
<1> DEFINE c == <<<<"advance", launches>>>>
<1> DEFINE d == Each("release", SetToSeq(held))
<1>0. o \in Seq({"output"}) /\ (Wrote(tried) => o = <<"output">> /\ ToSet(o) = {"output"})
  <2>1. CASE Wrote(tried)
    <3>1. o = <<"output">> /\ <<"output">> \in Seq({"output"})
      BY <2>1 DEF Written
    <3>2. ToSet(<<"output">>) = {"output"}
      BY Listed
    <3>. QED
      BY <3>1, <3>2
  <2>2. CASE ~Wrote(tried)
    <3>1. o = <<>> /\ <<>> \in Seq({"output"})
      BY <2>2 DEF Written
    <3>. QED
      BY <2>2, <3>1
  <2>. QED
    BY <2>1, <2>2
<1>1. /\ {"retain"} \X Tensors \subseteq C /\ {"release"} \X Kernels \subseteq C
      /\ <<"advance", launches>> \in C
  BY DEF CleanupSteps, Tensors
<1> HIDE DEF C, o
<1>2. /\ a \in Seq(C) /\ AdvancesOnce(a) /\ ~Has(a, "advance")
      /\ policy # "mixed" => \A x \in Inputs : <<"retain", x>> \in ToSet(a)
      /\ policy # "mixed" /\ Wrote(tried) => <<"retain", "output">> \in ToSet(a)
  <2>1. /\ Retained(o) \in Seq(Tensors)
        /\ policy # "mixed" => Inputs \cup ToSet(o) \subseteq ToSet(Retained(o))
    BY <1>0, InputsRetained
  <2>2. a \in Seq({"retain"} \X Tensors)
    BY <2>1, EachOf
  <2>3. \A x : <<"retain", x>> \in ToSet(a) <=> x \in ToSet(Retained(o))
    BY <2>1, EachOf
  <2>4. AdvancesOnce(a) /\ ~Has(a, "advance")
    BY <2>1, EachDoesNotAdvance
  <2>5. a \in Seq(C)
    BY <1>1, <2>2, SeqMonotonic
  <2>6. /\ policy # "mixed" => \A x \in Inputs : <<"retain", x>> \in ToSet(a)
        /\ policy # "mixed" /\ Wrote(tried) => <<"retain", "output">> \in ToSet(a)
    BY <1>0, <2>1, <2>3
  <2>. QED
    BY <2>4, <2>5, <2>6
<1>3. /\ d \in Seq(C) /\ AdvancesOnce(d) /\ ~Has(d, "advance")
      /\ \A k \in held : <<"release", k>> \in ToSet(d)
  <2>1. IsFiniteSet(held)
    <3>1. IsFiniteSet(Kernels)
      <4>1. Kernels = {"fused", "merge", "cta", "warp", "direct", "fixed", "partial"}
        BY DEF Kernels, Writers
      <4>2. ASSUME NEW x, NEW y
            PROVE  IsFiniteSet({x, y})
        <5>1. IsFiniteSet({x}) /\ IsFiniteSet({y})
          BY FS_Singleton
        <5>2. IsFiniteSet({x} \cup {y})
          BY <5>1, FS_Union
        <5>3. {x, y} = {x} \cup {y}
          OBVIOUS
        <5>. QED
          BY <5>2, <5>3
      <4>3. /\ IsFiniteSet({"fused", "merge"}) /\ IsFiniteSet({"cta", "warp"})
            /\ IsFiniteSet({"direct", "fixed"}) /\ IsFiniteSet({"partial"})
        BY <4>2, FS_Singleton
      <4>4. IsFiniteSet({"fused", "merge"} \cup {"cta", "warp"})
        BY <4>3, FS_Union
      <4>5. IsFiniteSet({"direct", "fixed"} \cup {"partial"})
        BY <4>3, FS_Union
      <4>6. IsFiniteSet(({"fused", "merge"} \cup {"cta", "warp"})
                          \cup ({"direct", "fixed"} \cup {"partial"}))
        BY <4>4, <4>5, FS_Union
      <4>7. Kernels = ({"fused", "merge"} \cup {"cta", "warp"})
                        \cup ({"direct", "fixed"} \cup {"partial"})
        BY <4>1
      <4>. QED
        BY <4>6, <4>7
    <3>. QED
      BY <3>1, FS_Subset
  <2>2. SetToSeq(held) \in Seq(held) /\ ToSet(SetToSeq(held)) = held
    BY <2>1, ListOf
  <2>3. d \in Seq({"release"} \X held)
    BY <2>2, EachOf
  <2>4. \A x : <<"release", x>> \in ToSet(d) <=> x \in held
    BY <2>2, EachOf
  <2>5. AdvancesOnce(d) /\ ~Has(d, "advance")
    BY <2>2, EachDoesNotAdvance
  <2>6. {"release"} \X held \subseteq C
    BY <1>1
  <2>. QED
    BY <2>3, <2>4, <2>5, <2>6, SeqMonotonic
<1>5. c \in Seq(C) /\ AdvancesOnce(c) /\ Has(c, "advance")
  <2>1. c \in Seq(C) /\ DOMAIN c = {1} /\ c[1] = <<"advance", launches>>
    BY <1>1
  <2>. QED
    BY <2>1 DEF AdvancesOnce, Has
<1>6. <<>> \in Seq(C) /\ AdvancesOnce(<<>>) /\ ~Has(<<>>, "advance")
  BY DEF AdvancesOnce, Has
<1> HIDE DEF a, c, d
<1>7. CASE job.path # "fixed"
  <2> DEFINE A == IF tried = {} THEN <<>> ELSE a
  <2> DEFINE E == IF Wrote(tried) THEN c ELSE <<>>
  <2> DEFINE D == IF policy = "none" THEN d ELSE <<>>
  <2>1. Finish(tried) = (A \o E) \o D
    BY <1>7 DEF Finish, Final, a, c, d, o
  <2>2. /\ A \in Seq(C) /\ AdvancesOnce(A) /\ ~Has(A, "advance")
        /\ E \in Seq(C) /\ AdvancesOnce(E) /\ (Has(E, "advance") <=> Wrote(tried))
        /\ D \in Seq(C) /\ AdvancesOnce(D) /\ ~Has(D, "advance")
    BY <1>2, <1>3, <1>5, <1>6
  <2>3. /\ tried # {} => A = a
        /\ policy = "none" => D = d
        /\ Wrote(tried) => tried # {}
    BY DEF Wrote
  <2> HIDE DEF A, E, D
  <2> DEFINE AE == A \o E
  <2>4. AE \in Seq(C) /\ ToSet(AE) = ToSet(A) \cup ToSet(E)
    BY <2>2, Joined
  <2>4a. /\ AdvancesOnce(AE)
         /\ Has(AE, "advance") <=> Has(A, "advance") \/ Has(E, "advance")
    BY <2>2, AdvancesJoined
  <2> HIDE DEF AE
  <2> DEFINE F == AE \o D
  <2>6. F \in Seq(C) /\ ToSet(F) = ToSet(AE) \cup ToSet(D)
    BY <2>2, <2>4, Joined
  <2>6a. /\ AdvancesOnce(F)
         /\ Has(F, "advance") <=> Has(AE, "advance") \/ Has(D, "advance")
    BY <2>2, <2>4, <2>4a, AdvancesJoined
  <2>6b. Finish(tried) = F
    BY <2>1 DEF AE
  <2> HIDE DEF F
  <2>7. /\ Finish(tried) \in Seq(C)
        /\ ToSet(Finish(tried)) = (ToSet(A) \cup ToSet(E)) \cup ToSet(D)
        /\ AdvancesOnce(Finish(tried))
        /\ Has(Finish(tried), "advance") <=> Wrote(tried)
    BY <2>2, <2>4, <2>4a, <2>6, <2>6a, <2>6b
  <2>8. /\ Finish(tried) \in Seq(CleanupSteps)
        /\ policy = "none" =>
             \A k \in held : <<"release", k>> \in ToSet(Finish(tried))
        /\ tried # {} /\ policy # "mixed" =>
             \A x \in Inputs : <<"retain", x>> \in ToSet(Finish(tried))
        /\ Wrote(tried) /\ policy # "mixed" =>
             <<"retain", "output">> \in ToSet(Finish(tried))
    BY <1>2, <1>3, <2>3, <2>7 DEF C
  <2>. QED
    BY <2>7, <2>8
<1>8. CASE job.path = "fixed" /\ tried = {}
  <2>1. Finish(tried) = <<>> /\ ~Wrote(tried)
    BY <1>8 DEF Finish, FixedFinal, Wrote
  <2>. QED
    BY <1>6, <1>8, <2>1 DEF C
<1>9. CASE job.path = "fixed" /\ tried # {}
  <2>3. Wrote(tried)
    BY <1>9 DEF Wrote, Writers
  <2>2. Finish(tried) = (d \o a) \o c
    BY <1>0, <1>9, <2>3 DEF Finish, FixedFinal, a, c, d
  <2> DEFINE f == d \o a
  <2>4. f \in Seq(C) /\ ToSet(f) = ToSet(d) \cup ToSet(a)
    BY <1>2, <1>3, Joined
  <2>4a. /\ AdvancesOnce(f)
         /\ Has(f, "advance") <=> Has(d, "advance") \/ Has(a, "advance")
    BY <1>2, <1>3, AdvancesJoined
  <2>2a. Finish(tried) = f \o c
    BY <2>2
  <2> HIDE DEF f
  <2>5. f \o c \in Seq(C) /\ ToSet(f \o c) = ToSet(f) \cup ToSet(c)
    BY <1>5, <2>4, Joined
  <2>5a. /\ AdvancesOnce(f \o c)
         /\ Has(f \o c, "advance") <=> Has(f, "advance") \/ Has(c, "advance")
    BY <1>2, <1>3, <1>5, <2>4, <2>4a, AdvancesJoined
  <2>. QED
    BY <1>2, <1>3, <1>5, <2>2a, <2>3, <2>4, <2>5, <2>5a DEF C
<1>. QED
  BY <1>7, <1>8, <1>9
-------------------------------------------------------------------------------
(* The bodies. *)

\* The steps of the bodies other than the fixed launch and the preparation.
Ordinary ==
    ({"compile", "lease", "enqueue"} \X (Kernels \ {"fixed"}))
    \cup ({"upload", "alloc"} \X Tensors)

\* Operations of two scripts after one another.
LEMMA HasJoined ==
  ASSUME NEW S, NEW s \in Seq(S), NEW t \in Seq(S), NEW op
  PROVE  Has(s \o t, op) <=> Has(s, op) \/ Has(t, op)
<1>1. \A u : Has(u, op) <=> \E x \in ToSet(u) : x[1] = op
  BY DEF Has, ToSet
<1>2. ToSet(s \o t) = ToSet(s) \cup ToSet(t)
  BY Joined
<1>. QED
  BY <1>1, <1>2

\* A list of one operation has no other.
LEMMA EachHas ==
  ASSUME NEW op, NEW A, NEW s \in Seq(A), NEW other, Has(Each(op, s), other)
  PROVE  other = op
BY DEF Has, Each

\* Scripts whose compilations come first.
LEMMA CompilesJoined ==
  ASSUME NEW S, NEW s \in Seq(S), NEW t \in Seq(S),
         CompileFirst(s), ~Has(t, "compile")
  PROVE  CompileFirst(s \o t)
<1> DEFINE u == s \o t
<1>n. Len(s) \in Nat /\ Len(t) \in Nat
  BY Joined
<1>1. /\ DOMAIN u = 1..(Len(s) + Len(t))
      /\ DOMAIN s = 1..Len(s) /\ DOMAIN t = 1..Len(t)
      /\ \A i \in 1..Len(s) : u[i] = s[i]
      /\ \A i \in 1..(Len(s) + Len(t)) : i > Len(s) => u[i] = t[i - Len(s)]
  BY Joined
<1> HIDE DEF u
<1>2. SUFFICES ASSUME NEW i \in DOMAIN u, NEW j \in DOMAIN u, i < j, u[j][1] = "compile"
               PROVE  u[i][1] = "compile"
  BY DEF CompileFirst, u
<1>3. CASE j <= Len(s)
  <2>1. i \in 1..Len(s) /\ j \in 1..Len(s)
    BY <1>1, <1>2, <1>3, <1>n
  <2>. QED
    BY <1>1, <1>2, <2>1 DEF CompileFirst
<1>4. CASE j > Len(s)
  <2>1. j - Len(s) \in 1..Len(t)
    BY <1>1, <1>2, <1>4, <1>n
  <2>2. u[j] = t[j - Len(s)]
    BY <1>1, <1>4
  <2>. QED
    BY <1>1, <1>2, <2>1, <2>2 DEF Has
<1>5. j <= Len(s) \/ j > Len(s)
  BY <1>1, <1>n
<1>. QED
  BY <1>3, <1>4, <1>5

\* Only the first step of a script advances.
AdvanceFirst(steps) == \A i \in DOMAIN steps : steps[i][1] = "advance" => i = 1

\* Scripts of which only the first advances.
LEMMA AdvanceFirstJoined ==
  ASSUME NEW S, NEW s \in Seq(S), NEW t \in Seq(S),
         AdvanceFirst(s), ~Has(t, "advance")
  PROVE  AdvanceFirst(s \o t)
<1> DEFINE u == s \o t
<1>n. Len(s) \in Nat /\ Len(t) \in Nat
  BY Joined
<1>1. /\ DOMAIN u = 1..(Len(s) + Len(t))
      /\ DOMAIN s = 1..Len(s) /\ DOMAIN t = 1..Len(t)
      /\ \A i \in 1..Len(s) : u[i] = s[i]
      /\ \A i \in 1..(Len(s) + Len(t)) : i > Len(s) => u[i] = t[i - Len(s)]
  BY Joined
<1> HIDE DEF u
<1>2. SUFFICES ASSUME NEW i \in DOMAIN u, u[i][1] = "advance"
               PROVE  i = 1
  BY DEF AdvanceFirst, u
<1>3. CASE i <= Len(s)
  <2>1. i \in 1..Len(s)
    BY <1>1, <1>3, <1>n
  <2>. QED
    BY <1>1, <1>2, <2>1 DEF AdvanceFirst
<1>4. CASE i > Len(s)
  <2>1. i - Len(s) \in 1..Len(t)
    BY <1>1, <1>2, <1>4, <1>n
  <2>2. u[i] = t[i - Len(s)]
    BY <1>1, <1>4
  <2>. QED
    BY <1>1, <1>2, <2>1, <2>2 DEF Has
<1>5. i <= Len(s) \/ i > Len(s)
  BY <1>1, <1>n
<1>. QED
  BY <1>3, <1>4, <1>5

\* The kernels of a plan, and one operation for each of them.
LEMMA PlanKernels ==
  ASSUME NEW first \in {"fused", "cta"}
  PROVE  (IF Directs THEN <<first>> ELSE <<>>) \o SplitKernels \in Seq(Kernels \ {"fixed"})
<1> DEFINE K == Kernels \ {"fixed"}
<1>1. first \in K /\ "partial" \in K /\ "merge" \in K
  BY DEF Kernels, Writers
<1> HIDE DEF K
<1>2. (IF Directs THEN <<first>> ELSE <<>>) \in Seq(K) /\ SplitKernels \in Seq(K)
  BY <1>1 DEF SplitKernels
<1>. QED
  BY <1>2, Joined DEF K

\* One operation for each kernel of a list.
LEMMA EachOrdinary ==
  ASSUME NEW op \in {"compile", "lease", "enqueue"}, NEW s \in Seq(Kernels \ {"fixed"})
  PROVE  /\ Each(op, s) \in Seq(Ordinary)
         /\ op # "compile" => ~Has(Each(op, s), "compile")
         /\ op = "compile" => CompileFirst(Each(op, s))
<1>1. Each(op, s) \in Seq({op} \X (Kernels \ {"fixed"}))
  BY EachOf
<1>2. {op} \X (Kernels \ {"fixed"}) \subseteq Ordinary
  BY DEF Ordinary
<1>3. op # "compile" => ~Has(Each(op, s), "compile")
  BY EachHas
<1>4. op = "compile" => CompileFirst(Each(op, s))
  BY DEF CompileFirst, Each
<1>. QED
  BY <1>1, <1>2, <1>3, <1>4, SeqMonotonic

\* One step, alone.
LEMMA OneStep ==
  ASSUME NEW S, NEW x \in S
  PROVE  /\ <<x>> \in Seq(S) /\ CompileFirst(<<x>>) /\ AdvanceFirst(<<x>>)
         /\ \A op : Has(<<x>>, op) <=> x[1] = op
<1>1. <<x>> \in Seq(S) /\ DOMAIN <<x>> = {1} /\ <<x>>[1] = x
  OBVIOUS
<1>. QED
  BY <1>1 DEF CompileFirst, AdvanceFirst, Has

\* No step.
LEMMA NoStep ==
  ASSUME NEW S
  PROVE  /\ <<>> \in Seq(S) /\ CompileFirst(<<>>) /\ AdvanceFirst(<<>>)
         /\ \A op : ~Has(<<>>, op)
BY DEF CompileFirst, AdvanceFirst, Has

\* The uploads of a body.
LEMMA Uploads ==
  /\ Narrowed \in Seq(Ordinary) /\ \A op : Has(Narrowed, op) => op = "upload"
  /\ Scratch \in Seq(Ordinary) /\ \A op : Has(Scratch, op) => op = "alloc"
  /\ \A x \in {"records", "ids"} :
       <<<<"upload", x>>>> \in Seq(Ordinary) /\ ~Has(<<<<"upload", x>>>>, "compile")
                                             /\ ~Has(<<<<"upload", x>>>>, "advance")
<1>1. /\ <<"upload", "offsets32">> \in Ordinary /\ <<"alloc", "scratch">> \in Ordinary
      /\ \A x \in {"records", "ids"} : <<"upload", x>> \in Ordinary
  BY DEF Ordinary, Tensors
<1> HIDE DEF Ordinary
<1>2. Narrowed \in Seq(Ordinary) /\ \A op : Has(Narrowed, op) => op = "upload"
  BY <1>1, OneStep, NoStep DEF Narrowed
<1>3. Scratch \in Seq(Ordinary) /\ \A op : Has(Scratch, op) => op = "alloc"
  BY <1>1, OneStep, NoStep DEF Scratch
<1>4. \A x \in {"records", "ids"} :
        <<<<"upload", x>>>> \in Seq(Ordinary) /\ ~Has(<<<<"upload", x>>>>, "compile")
                                              /\ ~Has(<<<<"upload", x>>>>, "advance")
  BY <1>1, OneStep
<1>. QED
  BY <1>2, <1>3, <1>4

\* The last two steps of a launch of one kernel.
LEMMA LaunchOneShape ==
  ASSUME NEW before \in Seq(Ordinary), NEW kernel \in Kernels \ {"fixed"}
  PROVE  /\ LaunchOne(before, kernel) \in Seq(Ordinary)
         /\ CompileFirst(before) => CompileFirst(LaunchOne(before, kernel))
<1> DEFINE t == <<<<"lease", kernel>>, <<"enqueue", kernel>>>>
<1>1. <<"lease", kernel>> \in Ordinary /\ <<"enqueue", kernel>> \in Ordinary
  BY DEF Ordinary
<1> HIDE DEF Ordinary
<1>2. /\ t \in Seq(Ordinary) /\ DOMAIN t = {1, 2}
      /\ t[1] = <<"lease", kernel>> /\ t[2] = <<"enqueue", kernel>>
  BY <1>1
<1>3. ~Has(t, "compile")
  BY <1>2 DEF Has
<1>4. LaunchOne(before, kernel) = before \o t
  BY DEF LaunchOne
<1> HIDE DEF t
<1>. QED
  BY <1>2, <1>3, <1>4, Joined, CompilesJoined

\* An ordinary script followed by one without a compilation.
LEMMA Continue ==
  ASSUME NEW s \in Seq(Ordinary), CompileFirst(s),
         NEW t \in Seq(Ordinary), ~Has(t, "compile")
  PROVE  s \o t \in Seq(Ordinary) /\ CompileFirst(s \o t)
BY Joined, CompilesJoined

\* _launch_planned_reduction.
LEMMA PlannedShape ==
  PlannedBody \in Seq(Ordinary) /\ CompileFirst(PlannedBody)
<1>1. CASE ChoosesCta
  <2>1. /\ <<"compile", "cta">> \in Ordinary /\ <<"upload", "ids">> \in Ordinary
        /\ "cta" \in Kernels \ {"fixed"}
    BY DEF Ordinary, Kernels, Writers, Tensors
  <2> DEFINE s == <<<<"compile", "cta">>, <<"upload", "ids">>>>
  <2>2. s \in Seq(Ordinary) /\ CompileFirst(s)
    <3> HIDE DEF Ordinary
    <3>1. /\ s \in Seq(Ordinary) /\ DOMAIN s = {1, 2}
          /\ s[1] = <<"compile", "cta">> /\ s[2] = <<"upload", "ids">>
      BY <2>1
    <3>2. ASSUME NEW i \in {1, 2}, NEW j \in {1, 2}, i < j, s[j][1] = "compile"
          PROVE  FALSE
      <4>1. j = 2
        BY <3>2
      <4>. QED
        BY <3>1, <3>2, <4>1
    <3>. QED
      BY <3>1, <3>2 DEF CompileFirst
  <2>3. PlannedBody = LaunchOne(s \o Narrowed, "cta")
    BY <1>1 DEF PlannedBody
  <2> HIDE DEF s
  <2>4. s \o Narrowed \in Seq(Ordinary) /\ CompileFirst(s \o Narrowed)
    BY <2>2, Uploads, Continue
  <2>. QED
    BY <2>1, <2>3, <2>4, LaunchOneShape
<1>2. CASE ~ChoosesCta
  <2> DEFINE K == (IF Directs THEN <<"fused">> ELSE <<>>) \o SplitKernels
  <2> DEFINE a == Each("compile", K)
  <2> DEFINE b == Each("lease", K)
  <2> DEFINE c == <<<<"upload", "records">>>>
  <2> DEFINE d == Each("enqueue", K)
  <2>1. K \in Seq(Kernels \ {"fixed"})
    BY PlanKernels
  <2>2. PlannedBody = (((a \o b) \o c) \o Scratch) \o d
    BY <1>2 DEF PlannedBody
  <2> HIDE DEF K
  <2>3. a \in Seq(Ordinary) /\ CompileFirst(a)
    BY <2>1, EachOrdinary
  <2>4. b \in Seq(Ordinary) /\ ~Has(b, "compile")
    BY <2>1, EachOrdinary
  <2>5. d \in Seq(Ordinary) /\ ~Has(d, "compile")
    BY <2>1, EachOrdinary
  <2>6. c \in Seq(Ordinary) /\ ~Has(c, "compile")
    BY Uploads
  <2> HIDE DEF a, b, c, d
  <2>7. a \o b \in Seq(Ordinary) /\ CompileFirst(a \o b)
    BY <2>3, <2>4, Continue
  <2>8. (a \o b) \o c \in Seq(Ordinary) /\ CompileFirst((a \o b) \o c)
    BY <2>6, <2>7, Continue
  <2>9. /\ ((a \o b) \o c) \o Scratch \in Seq(Ordinary)
        /\ CompileFirst(((a \o b) \o c) \o Scratch)
    BY <2>8, Uploads, Continue
  <2>. QED
    BY <2>2, <2>5, <2>9, Continue
<1>. QED
  BY <1>1, <1>2

\* _launch_planned_rows.
LEMMA RowsShape ==
  RowsBody \in Seq(Ordinary) /\ CompileFirst(RowsBody)
<1> DEFINE K == (IF Directs THEN <<"cta">> ELSE <<>>) \o SplitKernels
<1> DEFINE a == Each("compile", K)
<1> DEFINE b == Each("lease", K)
<1> DEFINE r == <<<<"upload", "records">>>>
<1> DEFINE i == <<<<"upload", "ids">>>>
<1> DEFINE c == IF Splits THEN r \o Scratch ELSE i \o Narrowed
<1> DEFINE d == Each("enqueue", K)
<1>1. K \in Seq(Kernels \ {"fixed"})
  BY PlanKernels
<1>2. RowsBody = ((a \o b) \o c) \o d
  BY DEF RowsBody
<1> HIDE DEF K
<1>3. a \in Seq(Ordinary) /\ CompileFirst(a)
  BY <1>1, EachOrdinary
<1>4. b \in Seq(Ordinary) /\ ~Has(b, "compile")
  BY <1>1, EachOrdinary
<1>5. d \in Seq(Ordinary) /\ ~Has(d, "compile")
  BY <1>1, EachOrdinary
<1>6. /\ r \in Seq(Ordinary) /\ ~Has(r, "compile")
      /\ i \in Seq(Ordinary) /\ ~Has(i, "compile")
  BY Uploads
<1>7. /\ Scratch \in Seq(Ordinary) /\ ~Has(Scratch, "compile")
      /\ Narrowed \in Seq(Ordinary) /\ ~Has(Narrowed, "compile")
  BY Uploads
<1> HIDE DEF a, b, d, r, i
<1>8. r \o Scratch \in Seq(Ordinary) /\ ~Has(r \o Scratch, "compile")
  BY <1>6, <1>7, Joined, HasJoined
<1>9. i \o Narrowed \in Seq(Ordinary) /\ ~Has(i \o Narrowed, "compile")
  BY <1>6, <1>7, Joined, HasJoined
<1>10. c \in Seq(Ordinary) /\ ~Has(c, "compile")
  BY <1>8, <1>9
<1> HIDE DEF c
<1>11. a \o b \in Seq(Ordinary) /\ CompileFirst(a \o b)
  BY <1>3, <1>4, Continue
<1>12. (a \o b) \o c \in Seq(Ordinary) /\ CompileFirst((a \o b) \o c)
  BY <1>10, <1>11, Continue
<1>. QED
  BY <1>2, <1>5, <1>12, Continue

\* The launches of one kernel.
LEMMA OneKernelShape ==
  /\ ColumnsBody \in Seq(Ordinary) /\ SoftmaxBody \in Seq(Ordinary)
  /\ DirectBody \in Seq(Ordinary) /\ TasksBody \in Seq(Ordinary)
<1>1. /\ "cta" \in Kernels \ {"fixed"} /\ "direct" \in Kernels \ {"fixed"}
      /\ <<"compile", "cta">> \in Ordinary /\ <<"compile", "direct">> \in Ordinary
  BY DEF Ordinary, Kernels, Writers
<1> HIDE DEF Ordinary
<1> DEFINE a == <<<<"compile", "cta">>>>
<1> DEFINE b == <<<<"compile", "direct">>>>
<1> DEFINE i == <<<<"upload", "ids">>>>
<1>2. a \in Seq(Ordinary) /\ CompileFirst(a) /\ b \in Seq(Ordinary) /\ CompileFirst(b)
  BY <1>1, OneStep
<1>3. i \in Seq(Ordinary) /\ ~Has(i, "compile")
  BY Uploads
<1>4. /\ ColumnsBody = IF job.path = "softmax" THEN LaunchOne((a \o Narrowed) \o i, "cta")
                                              ELSE LaunchOne(b, "direct")
      /\ SoftmaxBody = LaunchOne(Narrowed \o b, "direct")
      /\ DirectBody = LaunchOne(b, "direct") /\ TasksBody = LaunchOne(a, "cta")
  BY DEF ColumnsBody, SoftmaxBody, DirectBody, TasksBody
<1> HIDE DEF a, b, i
<1>5. Narrowed \in Seq(Ordinary) /\ ~Has(Narrowed, "compile")
  BY Uploads
<1>6. a \o Narrowed \in Seq(Ordinary) /\ CompileFirst(a \o Narrowed)
  BY <1>2, <1>5, Continue
<1>7. (a \o Narrowed) \o i \in Seq(Ordinary) /\ CompileFirst((a \o Narrowed) \o i)
  BY <1>3, <1>6, Continue
<1>8. Narrowed \o b \in Seq(Ordinary)
  BY <1>2, <1>5, Joined
<1>. QED
  BY <1>1, <1>2, <1>4, <1>7, <1>8, LaunchOneShape

\* The steps of the preparation: an advance, and then compilations, leases and
\* uploads.
Preparing == ({"compile", "lease"} \X Kernels) \cup ({"upload", "alloc"} \X Tensors)

\* _prepare_planned_reduction.
LEMMA PrepareShape ==
  /\ PrepareBody \in Seq(Preparing \cup {<<"advance", 0>>})
  /\ AdvanceFirst(PrepareBody)
<1> DEFINE S == Preparing \cup {<<"advance", 0>>}
<1> DEFINE v == <<<<"advance", 0>>>>
<1>0. /\ {"compile"} \X Kernels \subseteq S /\ {"lease"} \X Kernels \subseteq S
      /\ <<"upload", "ids">> \in S /\ <<"upload", "records">> \in S
      /\ <<"alloc", "scratch">> \in S /\ <<"advance", 0>> \in S
  BY DEF Preparing, Tensors
<1> HIDE DEF S
<1>1. v \in Seq(S) /\ AdvanceFirst(v)
  BY <1>0, OneStep
<1>2. CASE Len(host) = 1
  <2>1. PrepareBody = v
    BY <1>2 DEF PrepareBody
  <2>. QED
    BY <1>1, <2>1 DEF S
<1>3. CASE Len(host) # 1
  <2> DEFINE f == IF Directs THEN <<"fused">> ELSE <<>>
  <2> DEFINE g == IF ChoosesCta THEN <<>> ELSE SplitKernels
  <2> DEFINE K == (<<"warp", "cta">> \o f) \o g
  <2> DEFINE a == Each("compile", K)
  <2> DEFINE b == Each("lease", K)
  <2> DEFINE i == <<<<"upload", "ids">>>>
  <2> DEFINE r == <<<<"upload", "records">>>>
  <2> DEFINE c == IF ChoosesCta THEN <<>> ELSE r \o Scratch
  <2>1. PrepareBody = (((v \o a) \o b) \o i) \o c
    BY <1>3 DEF PrepareBody
  <2>2. K \in Seq(Kernels)
    <3>1. /\ "warp" \in Kernels /\ "cta" \in Kernels /\ "fused" \in Kernels
          /\ "partial" \in Kernels /\ "merge" \in Kernels
      BY DEF Kernels, Writers
    <3> HIDE DEF Kernels
    <3>2. <<"warp", "cta">> \in Seq(Kernels) /\ f \in Seq(Kernels) /\ g \in Seq(Kernels)
      BY <3>1 DEF SplitKernels
    <3> HIDE DEF f, g
    <3>3. <<"warp", "cta">> \o f \in Seq(Kernels)
      BY <3>2, Joined
    <3>. QED
      BY <3>2, <3>3, Joined
  <2> HIDE DEF K
  <2>3. a \in Seq(S) /\ ~Has(a, "advance")
    <3>1. a \in Seq({"compile"} \X Kernels)
      BY <2>2, EachOf
    <3>2. ~Has(a, "advance")
      BY <2>2, EachHas
    <3>. QED
      BY <1>0, <3>1, <3>2, SeqMonotonic
  <2>4. b \in Seq(S) /\ ~Has(b, "advance")
    <3>1. b \in Seq({"lease"} \X Kernels)
      BY <2>2, EachOf
    <3>2. ~Has(b, "advance")
      BY <2>2, EachHas
    <3>. QED
      BY <1>0, <3>1, <3>2, SeqMonotonic
  <2>5. /\ i \in Seq(S) /\ ~Has(i, "advance")
        /\ r \in Seq(S) /\ ~Has(r, "advance")
    BY <1>0, OneStep
  <2>6. Scratch \in Seq(S) /\ ~Has(Scratch, "advance")
    BY <1>0, OneStep, NoStep DEF Scratch
  <2> HIDE DEF a, b, i, r, v
  <2>7. r \o Scratch \in Seq(S) /\ ~Has(r \o Scratch, "advance")
    BY <2>5, <2>6, Joined, HasJoined
  <2>8. c \in Seq(S) /\ ~Has(c, "advance")
    BY <2>7, NoStep
  <2> HIDE DEF c
  <2>9. v \o a \in Seq(S) /\ AdvanceFirst(v \o a)
    BY <1>1, <2>3, Joined, AdvanceFirstJoined
  <2>10. (v \o a) \o b \in Seq(S) /\ AdvanceFirst((v \o a) \o b)
    BY <2>4, <2>9, Joined, AdvanceFirstJoined
  <2>11. ((v \o a) \o b) \o i \in Seq(S) /\ AdvanceFirst(((v \o a) \o b) \o i)
    BY <2>5, <2>10, Joined, AdvanceFirstJoined
  <2>12. /\ (((v \o a) \o b) \o i) \o c \in Seq(S)
         /\ AdvanceFirst((((v \o a) \o b) \o i) \o c)
    BY <2>8, <2>11, Joined, AdvanceFirstJoined
  <2>. QED
    BY <2>1, <2>12 DEF S
<1>. QED
  BY <1>2, <1>3

\* The fixed launch.
LEMMA FixedSteps ==
  /\ FixedBody = <<<<"compile", "fixed">>, <<"lease", "fixed">>, <<"enqueue", "fixed">>>>
  /\ Tail(FixedBody) = <<<<"lease", "fixed">>, <<"enqueue", "fixed">>>>
  /\ Tail(Tail(FixedBody)) = <<<<"enqueue", "fixed">>>>
  /\ Tail(Tail(Tail(FixedBody))) = <<>>
<1>1. ASSUME NEW a, NEW b, NEW c
      PROVE  /\ <<a>> \o <<b, c>> = <<a, b, c>>
             /\ Tail(<<a, b, c>>) = <<b, c>> /\ Tail(<<b, c>>) = <<c>>
             /\ Tail(<<c>>) = <<>>
  <2>1. Tail(<<a, b, c>>) = <<b, c>>
    OBVIOUS
  <2>2. Tail(<<b, c>>) = <<c>>
    OBVIOUS
  <2>3. Tail(<<c>>) = <<>>
    OBVIOUS
  <2>4. <<a>> \o <<b, c>> = <<a, b, c>>
    <3> DEFINE S == {a, b, c}
    <3> DEFINE s == <<a>>
    <3> DEFINE t == <<b, c>>
    <3> DEFINE u == <<a, b, c>>
    <3>1. /\ s \in Seq(S) /\ Len(s) = 1 /\ s[1] = a
          /\ t \in Seq(S) /\ Len(t) = 2 /\ t[1] = b /\ t[2] = c
          /\ u \in Seq(S) /\ Len(u) = 3 /\ u[1] = a /\ u[2] = b /\ u[3] = c
      OBVIOUS
    <3> HIDE DEF S, s, t, u
    <3>a. s \in Seq(S) /\ t \in Seq(S)
      BY <3>1
    <3>2. s \o t \in Seq(S) /\ Len(s \o t) = Len(s) + Len(t)
      BY <3>a, Joined
    <3>b. \A i \in 1..Len(s) : (s \o t)[i] = s[i]
      BY <3>a, Joined
    <3>c. \A i \in 1..(Len(s) + Len(t)) : i > Len(s) => (s \o t)[i] = t[i - Len(s)]
      BY <3>a, Joined
    <3>d. 2 \in 1..(1 + 2) /\ 3 \in 1..(1 + 2) /\ 2 - 1 = 1 /\ 3 - 1 = 2 /\ 2 > 1 /\ 3 > 1
      OBVIOUS
    <3>n. Len(s) = 1 /\ Len(t) = 2
      BY <3>1
    <3>e. (s \o t)[1] = s[1]
      BY <3>n, <3>b
    <3>f. (s \o t)[2] = t[1]
      BY <3>n, <3>c, <3>d
    <3>g. (s \o t)[3] = t[2]
      BY <3>n, <3>c, <3>d
    <3>3. (s \o t)[1] = a /\ (s \o t)[2] = b /\ (s \o t)[3] = c
      BY <3>1, <3>e, <3>f, <3>g
    <3>4. \A i \in 1..Len(u) : u[i] = (s \o t)[i]
      <4>1. SUFFICES ASSUME NEW i \in 1..3
                     PROVE  u[i] = (s \o t)[i]
        BY <3>1
      <4>2. i = 1 \/ i = 2 \/ i = 3
        OBVIOUS
      <4>. QED
        BY <3>1, <3>3, <4>2
    <3>5. Len(u) = Len(s \o t)
      BY <3>1, <3>2
    <3>6. u = s \o t
      BY <3>1, <3>2, <3>4, <3>5, SeqEqual
    <3>. QED
      BY <3>6 DEF s, t, u
  <2>. QED
    BY <2>1, <2>2, <2>3, <2>4
<1>2. FixedBody = <<<<"compile", "fixed">>>> \o <<<<"lease", "fixed">>, <<"enqueue", "fixed">>>>
  BY DEF FixedBody, LaunchOne
<1>3. FixedBody = <<<<"compile", "fixed">>, <<"lease", "fixed">>, <<"enqueue", "fixed">>>>
  <2> DEFINE x == <<"compile", "fixed">>
  <2> DEFINE y == <<"lease", "fixed">>
  <2> DEFINE z == <<"enqueue", "fixed">>
  <2>1. FixedBody = <<x>> \o <<y, z>>
    BY <1>2
  <2> HIDE DEF x, y, z
  <2>2. FixedBody = <<x, y, z>>
    BY <2>1, <1>1
  <2>. QED
    BY <2>2 DEF x, y, z
<1>. QED
  BY <1>1, <1>3

\* The body of a call that is no launch of a prepared reduction.
LEMMA BodyShape ==
  ASSUME job.path \in Paths
  PROVE  /\ Body \in Seq(Allowed)
         /\ \A i \in DOMAIN Body : Body[i][1] = "advance" => i = 1 /\ job.path = "prepared"
         /\ job.path = "fixed" => Body = FixedBody
         /\ job.path = "reduce" => CompileFirst(Body)
<1>1. job.path \in {"reduce", "softmax", "direct", "prepared", "tasks", "fixed"}
  BY DEF Paths, Public
<1>2. CASE job.path \in {"reduce", "softmax", "direct", "tasks"}
  <2>1. \/ Body = RowsBody \/ Body = PlannedBody
        \/ job.path # "reduce" /\ Body \in {ColumnsBody, SoftmaxBody, DirectBody, TasksBody}
    <3>1. CASE job.path = "reduce" /\ job.features = 1
      BY <3>1 DEF Body, Rows
    <3>2. CASE job.path = "reduce" /\ job.features # 1
      BY <3>2 DEF Body, Rows
    <3>3. CASE job.path = "softmax" /\ job.features = 1
      BY <3>3 DEF Body, Rows
    <3>4. CASE job.path = "softmax" /\ job.features # 1
      BY <3>4 DEF Body, Rows
    <3>5. CASE job.path = "direct" /\ job.features = 1
      BY <3>5 DEF Body, Rows
    <3>6. CASE job.path = "direct" /\ job.features # 1
      BY <3>6 DEF Body, Rows
    <3>7. CASE job.path = "tasks"
      BY <3>7 DEF Body, Rows
    <3>. QED
      BY <1>2, <3>1, <3>2, <3>3, <3>4, <3>5, <3>6, <3>7
  <2>2. Body \in Seq(Ordinary) /\ (job.path = "reduce" => CompileFirst(Body))
    BY <2>1, PlannedShape, RowsShape, OneKernelShape
  <2>3. Ordinary \subseteq Allowed
    <3>1. Ordinary \subseteq BodySteps
      BY DEF Ordinary, BodySteps
    <3>2. ASSUME NEW s \in Ordinary
          PROVE  /\ s[1] \in {"compile", "lease", "enqueue", "upload", "alloc"}
                 /\ s[1] = "enqueue" => s[2] # "fixed"
      BY DEF Ordinary
    <3>. QED
      BY <1>2, <3>1, <3>2 DEF Allowed
  <2>4. \A i \in DOMAIN Body : Body[i][1] # "advance"
    <3>1. \A s \in Ordinary : s[1] # "advance"
      BY DEF Ordinary
    <3>2. \A i \in DOMAIN Body : Body[i] \in Ordinary
      BY <2>2
    <3>. QED
      BY <3>1, <3>2
  <2>. QED
    BY <1>2, <2>2, <2>3, <2>4, SeqMonotonic
<1>3. CASE job.path = "prepared"
  <2>1. Body = PrepareBody
    BY <1>3 DEF Body, Rows
  <2>2. Preparing \cup {<<"advance", 0>>} \subseteq Allowed
    <3>1. Preparing \cup {<<"advance", 0>>} \subseteq BodySteps
      BY DEF Preparing, BodySteps
    <3>2. \A s \in Preparing \cup {<<"advance", 0>>} :
            s[1] \in {"compile", "lease", "upload", "alloc", "advance"}
      BY DEF Preparing
    <3>. QED
      BY <1>3, <3>1, <3>2 DEF Allowed
  <2>. QED
    BY <1>3, <2>1, <2>2, PrepareShape, SeqMonotonic DEF AdvanceFirst
<1>4. CASE job.path = "fixed"
  <2>1. Body = FixedBody
    BY <1>4 DEF Body, Rows
  <2>2. /\ <<"compile", "fixed">> \in Allowed /\ <<"lease", "fixed">> \in Allowed
        /\ <<"enqueue", "fixed">> \in Allowed
    BY <1>4 DEF Allowed, BodySteps, Kernels, Writers
  <2> HIDE DEF Allowed
  <2>3. /\ FixedBody \in Seq(Allowed) /\ DOMAIN FixedBody = {1, 2, 3}
        /\ FixedBody[1] = <<"compile", "fixed">> /\ FixedBody[2] = <<"lease", "fixed">>
        /\ FixedBody[3] = <<"enqueue", "fixed">>
    BY <2>2, FixedSteps
  <2>4. \A i \in DOMAIN Body : Body[i][1] # "advance"
    BY <2>1, <2>3
  <2>. QED
    BY <1>4, <2>1, <2>3, <2>4
<1>. QED
  BY <1>1, <1>2, <1>3, <1>4

-------------------------------------------------------------------------------
(* Steps outside a body and a cleanup. *)

\* Words the offsets are enumerated from.
LEMMA FrontFails ==
  ASSUME NEW d, "capture" \in d
  PROVE  FirstFailed(FrontChecks, d) # "none"
<1> DEFINE failed == {i \in DOMAIN FrontChecks : FrontChecks[i] \in d}
<1>1. /\ DOMAIN FrontChecks = 1..9
      /\ FrontChecks[1] = "kind" /\ FrontChecks[2] = "tensor" /\ FrontChecks[3] = "rank"
      /\ FrontChecks[4] = "out" /\ FrontChecks[5] = "recording"
      /\ FrontChecks[6] = "bindings" /\ FrontChecks[7] = "numpy"
      /\ FrontChecks[8] = "capture" /\ FrontChecks[9] = "dtype"
  BY DEF FrontChecks
<1>2. 8 \in failed /\ failed \subseteq 1..9
  BY <1>1
<1>3. IsFiniteSet(failed) /\ failed \subseteq Int
  <2>0. 1 \in Int /\ 9 \in Int
    OBVIOUS
  <2>1. IsFiniteSet(1..9)
    BY <2>0, FS_Interval
  <2>. QED
    BY <1>2, <2>1, FS_Subset
<1>4. FirstFailed(FrontChecks, d) = FrontChecks[Min(failed)]
  BY <1>2 DEF FirstFailed
<1>5. Min(failed) \in 1..9
  <2> HIDE DEF failed
  <2>. QED
    BY <1>2, <1>3, LeastElement
<1>6. \A i \in 1..9 : FrontChecks[i] # "none"
  <2>1. \A i \in 1..9 : i \in {1, 2, 3, 4, 5, 6, 7, 8, 9}
    OBVIOUS
  <2>. QED
    BY <1>1, <2>1
<1>. QED
  BY <1>4, <1>5, <1>6

\* Between launches and calls, leases, versions and bodies stay what they are.
LEMMA QuietStep ==
  ASSUME IInv, mode \notin {"body", "finally"}, mode' \notin {"body", "finally"},
         policy' = policy, held' \subseteq held,
         mode # "prepared" \/ mode' = "prepared" \/ held' = {},
         log'.lost = log.lost,
         counter'.output = counter.output, counter'.writes = counter.writes,
         launches' \in Nat, launches' >= launches
  PROVE  BodyInv' /\ LeaseInv' /\ CountInv'
<1>1. BodyInv'
  BY DEF BodyInv
<1>2. LeaseInv'
  <2>1. mode' # "prepared" => Owed' = {}
    <3>1. mode # "prepared" => Owed = {}
      BY DEF IInv, LeaseInv
    <3>2. Owed' \subseteq Owed
      BY DEF Owed
    <3>3. held' = {} => Owed' = {}
      BY DEF Owed
    <3>. QED
      BY <3>1, <3>2, <3>3
  <2>. QED
    BY <2>1 DEF LeaseInv
<1>3. CountInv'
  <2>1. Due = 0 /\ Due' = 0
    BY DEF Due
  <2>2. LostAdvances' = LostAdvances
    BY DEF LostAdvances
  <2>3. /\ counter.output + Cardinality(LostAdvances) + Due = counter.writes
        /\ \A x \in LostAdvances : x = <<"advance", x[2]>> /\ x[2] \in 0..launches
    BY DEF IInv, CountInv
  <2>4. launches \in Nat
    BY DEF IInv, CallType
  <2>5. \A n \in 0..launches : n \in 0..launches'
    BY <2>4
  <2>. QED
    BY <2>1, <2>2, <2>3, <2>5 DEF CountInv
<1>. QED
  BY <1>1, <1>2, <1>3

\* Memory between launches: what is queued stays covered.
LEMMA QuietMemory ==
  ASSUME IInv, mode \notin {"body", "finally"},
         ToSet(queue') \subseteq ToSet(queue),
         Foreign' = Foreign, \A k : Touches(k)' = Touches(k),
         memory'.recorded = memory.recorded, memory'.reused = memory.reused,
         mode' = mode \/ mode # "dropped", log'.lost = log.lost
  PROVE  MemoryInv'
<1>1. \A x : ~Pending(x)
  BY DEF Pending
<1>2. \A k \in ToSet(queue) : \A x \in Touches(k) \cap Foreign :
        x \in memory.recorded \/ <<"retain", x>> \in log.lost
  BY <1>1 DEF IInv, MemoryInv
<1>3. \A k \in ToSet(queue') : \A x \in Touches(k)' \cap Foreign' :
        x \in memory'.recorded \/ <<"retain", x>> \in log'.lost
  BY <1>2
<1>4. memory'.reused # {} => mode' = "dropped" /\ memory'.reused \cap memory'.recorded = {}
  BY DEF IInv, MemoryInv
<1>5. memory'.reused \subseteq Foreign'
  BY DEF IInv, MemoryInv
<1>. QED
  BY <1>3, <1>4, <1>5 DEF MemoryInv

\* What the tensors of a call are depends on its arguments alone.
LEMMA SameTensors ==
  ASSUME \/ job'.path = job.path
         \/ {job.path, job'.path} \subseteq Public,
         job'.wide = job.wide
  PROVE  Foreign' = Foreign /\ \A k : Touches(k)' = Touches(k)
<1>1. /\ job'.path = "prepared" <=> job.path = "prepared"
      /\ job'.path = "tasks" <=> job.path = "tasks"
  BY DEF Public
<1>. QED
  BY <1>1 DEF Foreign, Touches, KernelOffsets

\* A refusal before anything was taken.
LEMMA RefusedCall ==
  ASSUME IInv, mode \in {"front", "shapes", "plan", "recorded"},
         NEW error, Refuse(error, "ended"),
         UNCHANGED <<job, todo, policy, held, counter, queue, launches>>,
         attempted' = attempted \/ attempted' = {},
         memory' = memory
           \/ /\ mode = "shapes" /\ queue = <<>> /\ memory.copied \in BOOLEAN
              /\ memory' \in [copied : BOOLEAN, uploads : {{}}, recorded : {{}},
                              reused : {memory.reused}]
  PROVE  IInv'
<1>0. CallType /\ StoreType /\ PathInv /\ BodyInv /\ LeaseInv /\ MemoryInv
      /\ CountInv /\ ErrorInv /\ RefusalInv
  BY DEF IInv
<1>m. /\ mode' = "ended" /\ mode \notin {"body", "finally", "prepared", "dropped"}
      /\ policy = "none"
  BY <1>0 DEF Refuse, PathInv
<1>l. /\ log' = [log EXCEPT !.errors = <<<<"refuse", error>>>>,
                            !.raised = <<"refuse", error>>]
      /\ DOMAIN log = {"errors", "body", "cleanup", "raised", "lost", "faults"}
  <2>1. log.errors = <<>>
    BY <1>0 DEF ErrorInv
  <2>2. Append(<<>>, <<"refuse", error>>) = <<<<"refuse", error>>>>
    OBVIOUS
  <2>. QED
    BY <1>0, <2>1, <2>2 DEF Refuse, StoreType
<1>e. /\ log'.errors = <<<<"refuse", error>>>> /\ log'.raised = <<"refuse", error>>
      /\ log'.lost = log.lost /\ log'.body = log.body /\ log'.cleanup = log.cleanup
      /\ DOMAIN log' = {"errors", "body", "cleanup", "raised", "lost", "faults"}
  BY <1>l
<1>1. CallType'
  BY <1>0, <1>m DEF CallType, Modes
<1>2. StoreType'
  BY <1>0, <1>m, <1>e DEF StoreType
<1>3. PathInv'
  BY <1>0, <1>m DEF PathInv
<1>4. BodyInv' /\ LeaseInv' /\ CountInv'
  BY <1>0, <1>m, <1>e, QuietStep DEF CallType
<1>5. MemoryInv'
  <2>t. Foreign' = Foreign /\ \A k : Touches(k)' = Touches(k)
    BY SameTensors
  <2>1. CASE memory' = memory
    BY <1>m, <1>e, <2>1, <2>t, QuietMemory
  <2>2. CASE queue = <<>> /\ memory'.reused = memory.reused
    <3>1. ToSet(queue') = {}
      BY <2>2 DEF ToSet
    <3>2. memory.reused = {}
      BY <1>0, <1>m DEF MemoryInv
    <3>. QED
      BY <2>2, <3>1, <3>2 DEF MemoryInv
  <2>. QED
    BY <2>1, <2>2
<1>6. ErrorInv'
  <2>1. Head(<<<<"refuse", error>>>>) = <<"refuse", error>> /\ <<<<"refuse", error>>>> # <<>>
    OBVIOUS
  <2>. QED
    BY <1>m, <1>e, <2>1 DEF ErrorInv, FirstErrorRaised
<1>7. RefusalInv'
  <2>1. NoError[1] # "compile"
    BY DEF NoError
  <2>2. log'.body = NoError
    BY <1>0, <1>e DEF ErrorInv
  <2>3. job.path \in Public /\ "capture" \in job.defects => ~memory'.copied
    BY <1>0, <1>m DEF RefusalInv
  <2>. QED
    BY <1>m, <2>1, <2>2, <2>3 DEF RefusalInv, RefusalTouchesNothing
<1>. QED
  BY <1>1, <1>2, <1>3, <1>4, <1>5, <1>6, <1>7 DEF IInv

\* A call goes on to its next check.
LEMMA NextCheck ==
  ASSUME IInv, mode \in {"front", "shapes", "recorded"}, mode' \in {"shapes", "plan", "ended"},
         mode' = "ended" => mode # "front",
         \/ job' = job
         \/ /\ job.path = "softmax"
            /\ job' = [job EXCEPT !.path = "reduce", !.recording = FALSE],
         mode = "front" => ~(job.path \in Public /\ "capture" \in job.defects),
         UNCHANGED <<log, policy, held, attempted, counter, queue, launches>>,
         \/ memory' = memory /\ mode' # "plan"
         \/ /\ mode = "shapes" /\ queue = <<>>
            /\ memory' \in [copied : BOOLEAN, uploads : {{}}, recorded : {{}},
                            reused : {memory.reused}]
  PROVE  IInv'
<1>0. CallType /\ StoreType /\ PathInv /\ BodyInv /\ LeaseInv /\ MemoryInv
      /\ CountInv /\ ErrorInv /\ RefusalInv
  BY DEF IInv
<1>m. /\ mode \notin {"body", "finally", "prepared", "dropped"}
      /\ mode' \notin {"front", "body", "finally", "prepared", "dropped", "recorded"}
      /\ policy = "none"
  BY <1>0 DEF PathInv
<1>e. /\ log.errors = <<>> /\ log.lost = {} /\ log.body = NoError
      /\ log.cleanup = NoError /\ log.raised = NoError
  BY <1>0 DEF ErrorInv
<1>j. /\ job'.path \in Public <=> job.path \in Public
      /\ job'.path = job.path \/ (job.path = "softmax" /\ job'.path = "reduce")
      /\ DOMAIN job' = DOMAIN job /\ job'.raw = job.raw /\ job'.share = job.share
      /\ job'.wide = job.wide /\ job'.defects = job.defects
      /\ job'.recording = job.recording \/ job'.recording = FALSE
  <2>1. CASE job' = job
    BY <2>1
  <2>2. CASE (job.path = "softmax") /\ job' = [job EXCEPT !.path = "reduce", !.recording = FALSE]
    <3>1. "path" \in DOMAIN job /\ "recording" \in DOMAIN job
      BY <1>0 DEF CallType
    <3>2. /\ DOMAIN job' = DOMAIN job /\ job'.path = "reduce" /\ job'.recording = FALSE
      BY <2>2, <3>1
    <3>3. /\ job'.raw = job.raw /\ job'.share = job.share
          /\ job'.wide = job.wide /\ job'.defects = job.defects
      BY <1>0, <2>2 DEF CallType
    <3>. QED
      BY <2>2, <3>2, <3>3 DEF Public
  <2>. QED
    BY <2>1, <2>2
<1>1. CallType'
  BY <1>0, <1>m, <1>j DEF CallType, Modes, Paths, Public
<1>2. StoreType'
  BY <1>0, <1>m, <1>j DEF StoreType
<1>3. PathInv'
  <2>1. job'.recording => job'.path \in Public
    BY <1>0, <1>j DEF PathInv
  <2>. QED
    BY <1>m, <2>1 DEF PathInv
<1>4. BodyInv' /\ LeaseInv' /\ CountInv'
  BY <1>0, <1>m, QuietStep DEF CallType
<1>5. MemoryInv'
  <2>t. Foreign' = Foreign /\ \A k : Touches(k)' = Touches(k)
    BY <1>j, SameTensors DEF Public
  <2>1. CASE memory' = memory
    BY <1>m, <2>1, <2>t, QuietMemory
  <2>2. CASE queue = <<>> /\ memory'.reused = memory.reused
    <3>1. ToSet(queue') = {}
      BY <2>2 DEF ToSet
    <3>2. memory.reused = {}
      BY <1>0, <1>m DEF MemoryInv
    <3>. QED
      BY <2>2, <3>1, <3>2 DEF MemoryInv
  <2>. QED
    BY <2>1, <2>2
<1>6. ErrorInv'
  BY <1>m, <1>e DEF ErrorInv, FirstErrorRaised
<1>7. RefusalInv'
  <2>1. NoError[1] # "compile"
    BY DEF NoError
  <2>2. ~(job'.path \in Public /\ "capture" \in job'.defects)
    BY <1>0, <1>m, <1>j DEF RefusalInv
  <2>3. mode' = "plan" => memory'.uploads = {}
    OBVIOUS
  <2>. QED
    BY <1>m, <1>e, <2>1, <2>2, <2>3 DEF RefusalInv, RefusalTouchesNothing
<1>. QED
  BY <1>1, <1>2, <1>3, <1>4, <1>5, <1>6, <1>7 DEF IInv

\* FrontDoor.
LEMMA FrontDoorKeeps ==
  ASSUME IInv, FrontDoor
  PROVE  IInv'
<1>1. CASE FirstFailed(FrontChecks, job.defects) = "none"
  <2>1. "capture" \notin job.defects
    BY <1>1, FrontFails
  <2>2. /\ mode = "front" /\ mode' = "shapes"
        /\ UNCHANGED <<job, log, policy, held, attempted, memory, counter, queue, launches>>
    BY <1>1 DEF FrontDoor
  <2>. QED
    BY <2>1, <2>2, NextCheck
<1>2. CASE FirstFailed(FrontChecks, job.defects) # "none"
  BY <1>2, RefusedCall DEF FrontDoor
<1>. QED
  BY <1>1, <1>2

\* ValidateShapes.
LEMMA ValidateShapesKeeps ==
  ASSUME IInv, ValidateShapes
  PROVE  IInv'
<1>1. /\ mode = "shapes" /\ queue = <<>>
      /\ UNCHANGED <<job, todo, policy, held, attempted, counter, queue, launches>>
  BY DEF ValidateShapes
<1>2. memory' \in [copied : BOOLEAN, uploads : {{}}, recorded : {{}},
                   reused : {memory.reused}]
  <2>1. memory \in [copied : BOOLEAN, uploads : SUBSET Tensors,
                    recorded : SUBSET Tensors, reused : SUBSET Tensors]
    BY DEF IInv, StoreType
  <2>2. \E b \in BOOLEAN : memory' = [memory EXCEPT !.copied = b, !.uploads = {},
                                                    !.recorded = {}]
    BY <2>1 DEF ValidateShapes
  <2>. QED
    BY <2>1, <2>2
<1>3. \/ \E error : Refuse(error, "ended")
      \/ mode' = "plan" /\ UNCHANGED log
  <2> DEFINE tensors == FirstFailed(TensorChecks, job.defects)
  <2> DEFINE place == FirstFailed(PlaceChecks, job.defects)
  <2> DEFINE raw == IF saved.forward = <<>> THEN device.offsets ELSE Kept
  <2> DEFINE verdict == CallVerdict(raw)
  <2>1. CASE tensors # "none" \/ verdict # "valid" \/ place # "none"
    BY <2>1 DEF ValidateShapes
  <2>2. CASE ~(tensors # "none" \/ verdict # "valid" \/ place # "none")
    BY <2>2 DEF ValidateShapes
  <2>. QED
    BY <2>1, <2>2
<1>4. memory.copied \in BOOLEAN
  BY DEF IInv, StoreType
<1>5. CASE \E error : Refuse(error, "ended")
  BY <1>1, <1>2, <1>4, <1>5, RefusedCall
<1>6. CASE mode' = "plan" /\ UNCHANGED log
  <2>1. UNCHANGED <<log, policy, held, attempted, counter, queue, launches>>
    BY <1>1, <1>6
  <2>2. job' = job
    BY <1>1
  <2>. QED
    BY <1>1, <1>2, <1>6, <2>1, <2>2, NextCheck
<1>. QED
  BY <1>3, <1>5, <1>6

\* RefuseProgram.
LEMMA RefuseProgramKeeps ==
  ASSUME IInv, RefuseProgram
  PROVE  IInv'
BY RefusedCall DEF RefuseProgram

\* Backward.
LEMMA BackwardKeeps ==
  ASSUME IInv, Backward
  PROVE  IInv'
<1>1. /\ mode = "recorded"
      /\ UNCHANGED <<todo, policy, held, attempted, memory, counter, queue, launches>>
  BY DEF Backward
<1>2. \/ \E error : Refuse(error, "ended") /\ job' = job
      \/ mode' = "ended" /\ job' = job /\ log' = log
      \/ /\ job.path = "softmax" /\ mode' = "shapes" /\ log' = log
         /\ job' = [job EXCEPT !.path = "reduce", !.recording = FALSE]
  BY DEF Backward
<1>3. CASE \E error : Refuse(error, "ended") /\ job' = job
  BY <1>1, <1>3, RefusedCall
<1>4. CASE mode' = "ended" /\ job' = job /\ log' = log
  BY <1>1, <1>4, NextCheck
<1>5. CASE /\ job.path = "softmax" /\ mode' = "shapes" /\ log' = log
           /\ job' = [job EXCEPT !.path = "reduce", !.recording = FALSE]
  BY <1>1, <1>5, NextCheck
<1>. QED
  BY <1>2, <1>3, <1>4, <1>5

\* The device, or a writer of the offsets, moves between launches.
LEMMA BetweenKeeps ==
  ASSUME IInv, Between,
         UNCHANGED <<job, mode, todo, policy, held, attempted, log, memory, launches>>,
         counter' \in [output : Nat, offsets : Nat, expected : Nat, writes : Nat],
         counter'.output = counter.output, counter'.writes = counter.writes,
         queue' \in Seq(Kernels \cup {"wait"}), ToSet(queue') \subseteq ToSet(queue)
  PROVE  IInv'
<1>0. CallType /\ StoreType /\ PathInv /\ BodyInv /\ LeaseInv /\ MemoryInv
      /\ CountInv /\ ErrorInv /\ RefusalInv
  BY DEF IInv
<1>m. mode \notin {"front", "plan", "body", "finally"}
  BY DEF Between
<1>1. CallType' /\ PathInv'
  BY <1>0, <1>m DEF CallType, PathInv
<1>2. StoreType'
  BY <1>0, <1>m DEF StoreType
<1>4. BodyInv' /\ LeaseInv' /\ CountInv'
  BY <1>0, <1>m, QuietStep DEF CallType
<1>5. MemoryInv'
  <2>1. Foreign' = Foreign /\ \A k : Touches(k)' = Touches(k)
    BY SameTensors
  <2>. QED
    BY <1>m, <2>1, QuietMemory
<1>6. ErrorInv'
  BY <1>0, <1>m DEF ErrorInv, FirstErrorRaised
<1>7. RefusalInv'
  BY <1>0, <1>m DEF RefusalInv, RefusalTouchesNothing
<1>. QED
  BY <1>1, <1>2, <1>4, <1>5, <1>6, <1>7 DEF IInv

\* WriteOffsets.
LEMMA WriteOffsetsKeeps ==
  ASSUME IInv, WriteOffsets
  PROVE  IInv'
<1>1. /\ Between
      /\ UNCHANGED <<job, mode, todo, policy, held, attempted, log, memory, launches, queue>>
  BY DEF WriteOffsets
<1>2. counter \in [output : Nat, offsets : Nat, expected : Nat, writes : Nat]
  BY DEF IInv, StoreType
<1>3. \/ counter' = counter
      \/ counter' = [counter EXCEPT !.offsets = IF job.inference THEN @ ELSE @ + 1]
  BY DEF WriteOffsets
<1>4. /\ counter' \in [output : Nat, offsets : Nat, expected : Nat, writes : Nat]
      /\ counter'.output = counter.output /\ counter'.writes = counter.writes
  BY <1>2, <1>3
<1>5. queue' \in Seq(Kernels \cup {"wait"}) /\ ToSet(queue') \subseteq ToSet(queue)
  BY <1>1 DEF IInv, CallType
<1>. QED
  BY <1>1, <1>4, <1>5, BetweenKeeps

\* CompleteUpload and Rebind.
LEMMA CompleteUploadKeeps ==
  ASSUME IInv, CompleteUpload \/ Rebind
  PROVE  IInv'
<1>1. /\ Between
      /\ UNCHANGED <<job, mode, todo, policy, held, attempted, log, memory, launches>>
      /\ UNCHANGED <<queue, counter>>
  BY DEF CompleteUpload, Rebind, Between
<1>2. /\ counter' \in [output : Nat, offsets : Nat, expected : Nat, writes : Nat]
      /\ counter'.output = counter.output /\ counter'.writes = counter.writes
  BY <1>1 DEF IInv, StoreType
<1>3. queue' \in Seq(Kernels \cup {"wait"}) /\ ToSet(queue') \subseteq ToSet(queue)
  BY <1>1 DEF IInv, CallType
<1>. QED
  BY <1>1, <1>2, <1>3, BetweenKeeps

\* Run.
LEMMA RunKeeps ==
  ASSUME IInv, Run
  PROVE  IInv'
<1>1. /\ Between /\ queue # <<>> /\ queue' = Tail(queue)
      /\ UNCHANGED <<job, mode, todo, policy, held, attempted, log, memory, launches>>
      /\ UNCHANGED counter
  BY DEF Run
<1>2. /\ counter' \in [output : Nat, offsets : Nat, expected : Nat, writes : Nat]
      /\ counter'.output = counter.output /\ counter'.writes = counter.writes
  BY <1>1 DEF IInv, StoreType
<1>3. queue' \in Seq(Kernels \cup {"wait"}) /\ ToSet(queue') \subseteq ToSet(queue)
  <2>1. queue \in Seq(Kernels \cup {"wait"})
    BY DEF IInv, CallType
  <2>2. /\ Tail(queue) \in Seq(Kernels \cup {"wait"})
        /\ ToSet(queue) = {Head(queue)} \cup ToSet(Tail(queue))
    BY <1>1, <2>1, Rest
  <2>. QED
    BY <1>1, <2>2
<1>. QED
  BY <1>1, <1>2, <1>3, BetweenKeeps

\* Drop.
LEMMA DropKeeps ==
  ASSUME IInv, Drop
  PROVE  IInv'
<1>0. CallType /\ StoreType /\ PathInv /\ BodyInv /\ LeaseInv /\ MemoryInv
      /\ CountInv /\ ErrorInv /\ RefusalInv
  BY DEF IInv
<1>1. /\ mode \in {"ended", "prepared", "recorded"} /\ mode' = "dropped"
      /\ held' = IF job.path = "prepared" THEN {} ELSE held
      /\ UNCHANGED <<job, todo, policy, attempted, log, memory, counter, queue, launches>>
  BY DEF Drop
<1>m. mode = "prepared" => job.path = "prepared"
  BY <1>0 DEF PathInv
<1>2. CallType'
  BY <1>0, <1>1 DEF CallType, Modes
<1>3. StoreType'
  BY <1>0, <1>1 DEF StoreType
<1>4. PathInv'
  BY <1>0, <1>1 DEF PathInv
<1>5. BodyInv' /\ LeaseInv' /\ CountInv'
  BY <1>0, <1>1, <1>m, QuietStep DEF CallType
<1>6. MemoryInv'
  <2>1. Foreign' = Foreign /\ \A k : Touches(k)' = Touches(k)
    BY <1>1, SameTensors
  <2>. QED
    BY <1>1, <2>1, QuietMemory
<1>7. ErrorInv'
  BY <1>0, <1>1 DEF ErrorInv, FirstErrorRaised
<1>8. RefusalInv'
  <2>1. job.path \in Public /\ "capture" \in job.defects => ~memory.copied
    BY <1>0, <1>1 DEF RefusalInv
  <2>2. job.path = "reduce" /\ log.body[1] = "compile" => memory.uploads = {} /\ held = {}
    BY <1>0 DEF RefusalInv, RefusalTouchesNothing
  <2>. QED
    BY <1>1, <2>1, <2>2 DEF RefusalInv, RefusalTouchesNothing
<1>. QED
  BY <1>2, <1>3, <1>4, <1>5, <1>6, <1>7, <1>8 DEF IInv

\* Reuse.
LEMMA ReuseKeeps ==
  ASSUME IInv, NEW x \in Foreign, Reuse(x)
  PROVE  IInv'
<1>0. CallType /\ StoreType /\ PathInv /\ BodyInv /\ LeaseInv /\ MemoryInv
      /\ CountInv /\ ErrorInv /\ RefusalInv
  BY DEF IInv
<1>1. /\ mode = "dropped" /\ x \notin memory.recorded
      /\ memory' = [memory EXCEPT !.reused = {x}]
      /\ UNCHANGED <<job, mode, todo, policy, held, attempted, log, counter, queue, launches>>
  BY DEF Reuse
<1>2. /\ memory'.reused = {x} /\ memory'.recorded = memory.recorded
      /\ memory'.uploads = memory.uploads /\ memory'.copied = memory.copied
      /\ memory' \in [copied : BOOLEAN, uploads : SUBSET Tensors,
                      recorded : SUBSET Tensors, reused : SUBSET Tensors]
  <2>1. x \in Tensors
    BY DEF Foreign, Tensors
  <2>. QED
    BY <1>0, <1>1, <2>1 DEF StoreType
<1>3. CallType' /\ PathInv'
  BY <1>0, <1>1 DEF CallType, PathInv
<1>4. StoreType'
  BY <1>0, <1>1, <1>2 DEF StoreType
<1>5. BodyInv' /\ LeaseInv' /\ CountInv'
  BY <1>0, <1>1, QuietStep DEF CallType
<1>6. MemoryInv'
  <2>1. Foreign' = Foreign /\ \A k : Touches(k)' = Touches(k)
    BY <1>1, SameTensors
  <2>2. \A y : Pending(y)' = Pending(y)
    BY <1>1 DEF Pending
  <2>3. \A k \in ToSet(queue) : \A y \in Touches(k) \cap Foreign :
          y \in memory.recorded \/ <<"retain", y>> \in log.lost \/ Pending(y)
    BY <1>0 DEF MemoryInv
  <2>. QED
    BY <1>1, <1>2, <2>1, <2>2, <2>3 DEF MemoryInv
<1>7. ErrorInv'
  BY <1>0, <1>1 DEF ErrorInv, FirstErrorRaised
<1>8. RefusalInv'
  BY <1>0, <1>1, <1>2 DEF RefusalInv, RefusalTouchesNothing
<1>. QED
  BY <1>3, <1>4, <1>5, <1>6, <1>7, <1>8 DEF IInv

\* An error that is no step of a script is none at all.
LEMMA StepsAreErrors ==
  ASSUME StoreType, mode \in {"body", "finally"}
  PROVE  FirstError = NoError <=> log.errors = <<>>
<1>1. \A s \in BodySteps \cup CleanupSteps : s # NoError
  BY DEF BodySteps, CleanupSteps, NoError
<1>2. log.errors # <<>> => Head(log.errors) \in BodySteps \cup CleanupSteps
  BY DEF StoreType
<1>. QED
  BY <1>1, <1>2 DEF FirstError

\* Conclude.
LEMMA ConcludeKeeps ==
  ASSUME IInv, Conclude
  PROVE  IInv'
<1>0. CallType /\ StoreType /\ PathInv /\ BodyInv /\ LeaseInv /\ MemoryInv
      /\ CountInv /\ ErrorInv /\ RefusalInv
  BY DEF IInv
<1>1. /\ mode = "finally" /\ todo = <<>> /\ log' = [log EXCEPT !.raised = Raised]
      /\ policy' = "none"
      /\ UNCHANGED <<job, todo, held, attempted, memory, counter, queue, launches>>
  BY DEF Conclude
<1>2. /\ mode' \in {"prepared", "recorded", "ended"}
      /\ mode' = "prepared" => job.path = "prepared"
      /\ mode' = "recorded" => policy = "none" /\ job.recording /\ Raised = NoError
      /\ mode' # "prepared" =>
           policy = "none" /\ ~(Raised = NoError /\ job.path = "prepared")
  <2>1. policy # "none" => job.path = "prepared"
    BY <1>0 DEF PathInv
  <2>2. mode' = IF policy # "none" \/ (Raised = NoError /\ job.path = "prepared")
                THEN "prepared"
                ELSE IF Raised = NoError /\ job.recording THEN "recorded" ELSE "ended"
    BY DEF Conclude
  <2>. QED
    BY <2>1, <2>2
<1>l. /\ log'.errors = log.errors /\ log'.raised = Raised /\ log'.lost = log.lost
      /\ log'.body = log.body /\ log'.cleanup = log.cleanup /\ DOMAIN log' = DOMAIN log
  BY <1>0, <1>1 DEF StoreType
<1>r. /\ Raised = FirstError /\ (Raised = NoError <=> log.errors = <<>>)
  BY <1>0, <1>1, StepsAreErrors DEF ErrorInv
<1>3. CallType'
  BY <1>0, <1>1, <1>2 DEF CallType, Modes
<1>4. StoreType'
  BY <1>0, <1>1, <1>2, <1>l DEF StoreType
<1>5. PathInv'
  BY <1>0, <1>1, <1>2 DEF PathInv
<1>6. BodyInv'
  BY <1>2 DEF BodyInv
<1>7. LeaseInv'
  <2>1. ToSet(todo) = {}
    BY <1>1 DEF ToSet
  <2>2. mode' # "prepared" => Owed = {}
    BY <1>0, <1>1, <1>2, <1>r, <2>1 DEF LeaseInv
  <2>3. Owed' = Owed
    BY <1>1, <1>l DEF Owed
  <2>. QED
    BY <1>2, <2>2, <2>3 DEF LeaseInv
<1>8. MemoryInv'
  <2>1. Foreign' = Foreign /\ \A k : Touches(k)' = Touches(k)
    BY <1>1, SameTensors
  <2>2. \A x : ~Pending(x)
    BY <1>1 DEF Pending, ToSet
  <2>3. \A k \in ToSet(queue) : \A x \in Touches(k) \cap Foreign :
          x \in memory.recorded \/ <<"retain", x>> \in log.lost
    BY <1>0, <2>2 DEF MemoryInv
  <2>4. memory.reused = {}
    BY <1>0, <1>1 DEF MemoryInv
  <2>. QED
    BY <1>1, <1>l, <2>1, <2>3, <2>4 DEF MemoryInv
<1>9. CountInv'
  <2>1. Due = 0 /\ Due' = 0
    BY <1>1, <1>2 DEF Due, Has
  <2>2. LostAdvances' = LostAdvances
    BY <1>l DEF LostAdvances
  <2>. QED
    BY <1>0, <1>1, <1>2, <2>1, <2>2 DEF CountInv
<1>10. ErrorInv'
  <2>1. FirstErrorRaised'
    BY <1>l, <1>r DEF FirstErrorRaised, FirstError
  <2>2. mode' = "recorded" =>
          /\ log'.errors = <<>> /\ log'.lost = {}
          /\ log'.body = NoError /\ log'.cleanup = NoError /\ log'.raised = NoError
    BY <1>0, <1>1, <1>2, <1>l, <1>r DEF ErrorInv
  <2>. QED
    BY <1>2, <2>1, <2>2 DEF ErrorInv
<1>11. RefusalInv'
  <2>1. ~(job.path \in Public /\ "capture" \in job.defects)
    BY <1>0, <1>1 DEF RefusalInv
  <2>2. job.path = "reduce" /\ log.body[1] = "compile" => memory.uploads = {} /\ held = {}
    BY <1>0 DEF RefusalInv, RefusalTouchesNothing
  <2>. QED
    BY <1>1, <1>2, <1>l, <2>1, <2>2 DEF RefusalInv, RefusalTouchesNothing
<1>. QED
  BY <1>3, <1>4, <1>5, <1>6, <1>7, <1>8, <1>9, <1>10, <1>11 DEF IInv

\* Launch.
LEMMA LaunchKeeps ==
  ASSUME IInv, NEW p \in {"warp", "cta", "mixed"}, NEW capturing \in BOOLEAN,
         Launch(p, capturing)
  PROVE  IInv'
<1> DEFINE q == IF p = "mixed" /\ ChoosesCta THEN "cta" ELSE p
<1>0. CallType /\ StoreType /\ PathInv /\ BodyInv /\ LeaseInv /\ MemoryInv
      /\ CountInv /\ ErrorInv /\ RefusalInv
  BY DEF IInv
<1>1. /\ mode = "prepared" /\ launches' = launches + 1 /\ attempted' = {}
      /\ UNCHANGED <<job, held, memory, counter>>
  BY DEF Launch
<1>2. job.path = "prepared" /\ job.path \notin Public /\ policy = "none"
  BY <1>0, <1>1 DEF PathInv, Public
<1>3. \/ \E error : RefuseLaunch(error)
      \/ /\ log' = NewErrors /\ mode' = "body" /\ policy' = q
         /\ todo' = <<>> \/ todo' = LaunchBody(q)
         /\ queue' = queue \/ queue' = Append(queue, "wait")
  BY DEF Launch
<1>n. launches' \in Nat /\ launches' >= launches
  BY <1>0, <1>1 DEF CallType
<1>t. Foreign' = Foreign /\ \A k : Touches(k)' = Touches(k)
  BY <1>1, SameTensors
<1>4. CASE \E error : RefuseLaunch(error)
  <2>0. PICK error : RefuseLaunch(error)
    BY <1>4
  <2>1. UNCHANGED <<mode, todo, policy, queue>>
    BY <2>0 DEF RefuseLaunch
  <2>2. /\ log'.errors = <<<<"refuse", error>>>> /\ log'.raised = <<"refuse", error>>
        /\ log'.lost = log.lost
        /\ DOMAIN log' = {"errors", "body", "cleanup", "raised", "lost", "faults"}
    BY <2>0 DEF RefuseLaunch, NewErrors, NoErrors
  <2>3. CallType' /\ PathInv'
    BY <1>0, <1>1, <1>n, <2>1 DEF CallType, PathInv
  <2>4. StoreType'
    BY <1>0, <1>1, <2>1, <2>2 DEF StoreType
  <2>5. BodyInv' /\ LeaseInv' /\ CountInv'
    BY <1>1, <1>n, <2>1, <2>2, QuietStep
  <2>6. MemoryInv'
    BY <1>1, <1>t, <2>1, <2>2, QuietMemory
  <2>7. ErrorInv'
    <3>1. Head(<<<<"refuse", error>>>>) = <<"refuse", error>> /\ <<<<"refuse", error>>>> # <<>>
      OBVIOUS
    <3>. QED
      BY <1>1, <2>1, <2>2, <3>1 DEF ErrorInv, FirstErrorRaised
  <2>8. RefusalInv'
    BY <1>1, <1>2, <2>1 DEF RefusalInv, RefusalTouchesNothing, Public
  <2>. QED
    BY <2>3, <2>4, <2>5, <2>6, <2>7, <2>8 DEF IInv
<1>5. CASE /\ log' = NewErrors /\ mode' = "body" /\ policy' = q
           /\ todo' = <<>> \/ todo' = LaunchBody(q)
           /\ queue' = queue \/ queue' = Append(queue, "wait")
  <2>1. q \in {"warp", "cta", "mixed"}
    OBVIOUS
  <2>2. /\ todo' \in Seq(BodySteps)
        /\ q = "mixed" => PhaseShape(todo')
        /\ q # "mixed" => todo' \in {<<>>, <<<<"enqueue", q>>>>}
    <3>1. CASE todo' = <<>>
      BY <3>1 DEF PhaseShape
    <3>2. CASE todo' = LaunchBody(q) /\ q = "mixed"
      BY <3>2, MixedHasShape DEF LaunchBody
    <3>3. CASE todo' = LaunchBody(q) /\ q # "mixed"
      <4>1. <<"enqueue", q>> \in BodySteps
        BY <2>1, <3>3 DEF BodySteps, Kernels, Writers
      <4>2. todo' = <<<<"enqueue", q>>>>
        BY <3>3 DEF LaunchBody
      <4>3. <<<<"enqueue", q>>>> \in Seq(BodySteps)
        BY <4>1, OneStep
      <4>. QED
        BY <3>3, <4>2, <4>3
    <3>. QED
      BY <1>5, <3>1, <3>2, <3>3
  <2>3. /\ log'.errors = <<>> /\ log'.lost = log.lost /\ log'.body = NoError
        /\ log'.cleanup = NoError
        /\ DOMAIN log' = {"errors", "body", "cleanup", "raised", "lost", "faults"}
    BY <1>5 DEF NewErrors, NoErrors
  <2>4. /\ queue' \in Seq(Kernels \cup {"wait"})
        /\ ToSet(queue') \subseteq ToSet(queue) \cup {"wait"}
    <3>1. queue \in Seq(Kernels \cup {"wait"})
      BY <1>0 DEF CallType
    <3>2. /\ Append(queue, "wait") \in Seq(Kernels \cup {"wait"})
          /\ ToSet(Append(queue, "wait")) \subseteq ToSet(queue) \cup {"wait"}
      BY <3>1, Appended
    <3>. QED
      BY <1>5, <3>1, <3>2
  <2>5. CallType'
    BY <1>0, <1>1, <1>5, <1>n, <2>1, <2>2, <2>4 DEF CallType, Modes
  <2>6. StoreType'
    BY <1>0, <1>1, <2>3 DEF StoreType
  <2>7. PathInv'
    BY <1>0, <1>1, <1>2, <1>5 DEF PathInv
  <2>8. BodyInv'
    BY <1>1, <1>5, <2>1, <2>2 DEF BodyInv
  <2>9. LeaseInv'
    BY <1>5 DEF LeaseInv
  <2>10. MemoryInv'
    <3>1. \A x : ~Pending(x)
      BY <1>1 DEF Pending
    <3>2. \A k \in ToSet(queue) : \A x \in Touches(k) \cap Foreign :
            x \in memory.recorded \/ <<"retain", x>> \in log.lost
      BY <1>0, <3>1 DEF MemoryInv
    <3>3. Touches("wait") = {}
      BY DEF Touches
    <3>4. memory.reused = {}
      BY <1>0, <1>1 DEF MemoryInv
    <3>. QED
      BY <1>1, <1>t, <2>3, <2>4, <3>2, <3>3, <3>4 DEF MemoryInv
  <2>11. CountInv'
    <3>1. Due = 0 /\ Due' = 0
      BY <1>1, <1>5 DEF Due
    <3>2. LostAdvances' = LostAdvances
      BY <2>3 DEF LostAdvances
    <3>3. /\ counter.output + Cardinality(LostAdvances) + Due = counter.writes
          /\ \A x \in LostAdvances : x = <<"advance", x[2]>> /\ x[2] \in 0..launches
      BY <1>0 DEF CountInv
    <3>4. launches \in Nat
      BY <1>0 DEF CallType
    <3>5. /\ \A n \in 0..launches : n \in 0..launches'
          /\ launches' \notin 0..launches
      BY <1>1, <3>4
    <3>6. <<"advance", launches'>> \notin log'.lost
      <4>1. SUFFICES ASSUME <<"advance", launches'>> \in log.lost
                     PROVE  FALSE
        BY <2>3
      <4>2. <<"advance", launches'>> \in LostAdvances
        BY <4>1 DEF LostAdvances
      <4>. QED
        BY <3>3, <3>5, <4>2
    <3>. QED
      BY <1>1, <1>5, <3>1, <3>2, <3>3, <3>5, <3>6 DEF CountInv
  <2>12. ErrorInv'
    BY <1>5, <2>1, <2>3 DEF ErrorInv, FirstError, FirstErrorRaised
  <2>13. RefusalInv'
    BY <1>1, <1>2, <1>5 DEF RefusalInv, RefusalTouchesNothing, Public
  <2>. QED
    BY <2>5, <2>6, <2>7, <2>8, <2>9, <2>10, <2>11, <2>12, <2>13 DEF IInv
<1>. QED
  BY <1>3, <1>4, <1>5


\* What was retained, given up, or about to be retained stays so, also for the
\* kernel that is queued.
LEMMA OneQueued ==
  ASSUME MemoryInv, mode # "dropped", job' = job, NEW kernel,
         ToSet(queue') \subseteq ToSet(queue) \cup {kernel}, memory' = memory,
         log'.lost = log.lost, \A x : Pending(x) => Pending(x)',
         \A x \in Touches(kernel) \cap Foreign : Pending(x)'
  PROVE  MemoryInv'
<1>1. Foreign' = Foreign /\ \A k : Touches(k)' = Touches(k)
  BY SameTensors
<1>2. \A k \in ToSet(queue) : \A x \in Touches(k) \cap Foreign :
        x \in memory.recorded \/ <<"retain", x>> \in log.lost \/ Pending(x)
  BY DEF MemoryInv
<1>3. \A k \in ToSet(queue') : \A x \in Touches(k)' \cap Foreign' :
        x \in memory'.recorded \/ <<"retain", x>> \in log'.lost \/ Pending(x)'
  <2>1. SUFFICES ASSUME NEW k \in ToSet(queue'), NEW x \in Touches(k)' \cap Foreign'
                 PROVE  x \in memory'.recorded \/ <<"retain", x>> \in log'.lost \/ Pending(x)'
    OBVIOUS
  <2>2. x \in Touches(k) \cap Foreign
    BY <1>1
  <2>3. CASE k = kernel
    BY <2>2, <2>3
  <2>4. CASE k \in ToSet(queue)
    BY <1>2, <2>2, <2>4
  <2>. QED
    BY <2>3, <2>4
<1>4. memory'.reused = {}
  BY DEF MemoryInv
<1>. QED
  BY <1>3, <1>4 DEF MemoryInv

\* The same when nothing is queued.
LEMMA NothingQueued ==
  ASSUME MemoryInv, mode # "dropped", job' = job, queue' = queue,
         memory.recorded \subseteq memory'.recorded, memory'.reused = memory.reused,
         log.lost \subseteq log'.lost,
         \A x : Pending(x) => \/ x \in memory'.recorded
                              \/ <<"retain", x>> \in log'.lost \/ Pending(x)'
  PROVE  MemoryInv'
<1>1. Foreign' = Foreign /\ \A k : Touches(k)' = Touches(k)
  BY SameTensors
<1>2. \A k \in ToSet(queue) : \A x \in Touches(k) \cap Foreign :
        x \in memory.recorded \/ <<"retain", x>> \in log.lost \/ Pending(x)
  BY DEF MemoryInv
<1>3. \A k \in ToSet(queue)' : \A x \in Touches(k)' \cap Foreign' :
        x \in memory'.recorded \/ <<"retain", x>> \in log'.lost \/ Pending(x)'
  BY <1>1, <1>2
<1>4. memory'.reused = {}
  BY DEF MemoryInv
<1>. QED
  BY <1>3, <1>4 DEF MemoryInv

\* Plan.
LEMMA PlanKeeps ==
  ASSUME IInv, Plan
  PROVE  IInv'
<1>0. CallType /\ StoreType /\ PathInv /\ BodyInv /\ LeaseInv /\ MemoryInv
      /\ CountInv /\ ErrorInv /\ RefusalInv
  BY DEF IInv
<1>1. /\ mode = "plan" /\ attempted' = {}
      /\ UNCHANGED <<job, policy, held, memory, counter, queue, launches>>
  BY DEF Plan
<1>2. \/ Refuse(PlanVerdict, "ended") /\ UNCHANGED todo
      \/ mode' = "finally" /\ todo' = <<>> /\ UNCHANGED log
      \/ mode' = "body" /\ todo' = Body /\ UNCHANGED log
  <2>1. CASE PlanVerdict # "go"
    BY <2>1 DEF Plan
  <2>2. CASE PlanVerdict = "go" /\ NothingToDo
    BY <2>2 DEF Plan
  <2>3. CASE PlanVerdict = "go" /\ ~NothingToDo
    BY <2>3 DEF Plan
  <2>. QED
    BY <2>1, <2>2, <2>3
<1>3. CASE Refuse(PlanVerdict, "ended") /\ UNCHANGED todo
  BY <1>1, <1>3, RefusedCall
<1>4. CASE mode' \in {"body", "finally"} /\ UNCHANGED log
           /\ (mode' = "finally" => todo' = <<>>) /\ (mode' = "body" => todo' = Body)
  <2>1. /\ policy = "none" /\ job.path \in Paths /\ held \subseteq Kernels
    BY <1>0, <1>1 DEF PathInv, CallType
  <2>2. /\ log.errors = <<>> /\ log.lost = {} /\ log.body = NoError
        /\ log.cleanup = NoError
    BY <1>0, <1>1 DEF ErrorInv
  <2>3. held = {}
    <3>1. Owed = {} /\ Owed = held
      BY <1>0, <1>1, <2>2 DEF LeaseInv, Owed
    <3>. QED
      BY <3>1
  <2>4. memory.uploads = {}
        /\ ~(job.path \in Public /\ "capture" \in job.defects)
    BY <1>0, <1>1 DEF RefusalInv
  <2>5. /\ Body \in Seq(Allowed)
        /\ \A i \in DOMAIN Body : Body[i][1] = "advance" => i = 1 /\ job.path = "prepared"
        /\ job.path = "fixed" => Body = FixedBody
        /\ job.path = "reduce" => CompileFirst(Body)
    BY <2>1, BodyShape
  <2>6. CallType'
    <3>1. Allowed \subseteq BodySteps
      BY DEF Allowed
    <3>2. Body \in Seq(BodySteps)
      BY <2>5, <3>1
    <3>3. <<>> \in Seq(CleanupSteps)
      OBVIOUS
    <3>. QED
      BY <1>0, <1>1, <1>4, <3>2, <3>3 DEF CallType, Modes
  <2>7. StoreType'
    <3>1. <<>> \in Seq(BodySteps \cup CleanupSteps)
      OBVIOUS
    <3>. QED
      BY <1>0, <1>1, <1>4, <2>2, <3>1 DEF StoreType
  <2>8. PathInv'
    BY <1>0, <1>1, <1>4, <2>1 DEF PathInv
  <2>9. BodyInv'
    <3>1. SUFFICES ASSUME mode' = "body"
                   PROVE  BodyInv'
      BY DEF BodyInv
    <3>2. todo' = Body /\ Allowed' = Allowed /\ policy' = "none"
      BY <1>1, <1>4, <2>1, <3>1 DEF Allowed
    <3>. QED
      BY <1>1, <2>3, <2>4, <2>5, <3>2 DEF BodyInv
  <2>10. LeaseInv'
    <3>1. Owed' = {}
      BY <1>1, <2>3 DEF Owed
    <3>. QED
      BY <1>4, <3>1 DEF LeaseInv
  <2>11. MemoryInv'
    <3>1. \A x : ~Pending(x)
      BY <1>1 DEF Pending
    <3>. QED
      BY <1>0, <1>1, <1>4, <3>1, NothingQueued
  <2>12. CountInv'
    <3>1. Due = 0 /\ Due' = 0
      <4>1. mode' = "finally" => ~Has(todo', "advance")
        BY <1>4 DEF Has
      <4>. QED
        BY <1>1, <1>4, <4>1 DEF Due, Has
    <3>2. LostAdvances = {} /\ LostAdvances' = {}
      BY <1>4, <2>2 DEF LostAdvances
    <3>3. counter.output + Cardinality(LostAdvances) + Due = counter.writes
      BY <1>0 DEF CountInv
    <3>4. \A i \in DOMAIN <<>> : FALSE
      OBVIOUS
    <3>. QED
      BY <1>1, <1>4, <2>2, <3>1, <3>2, <3>3, <3>4 DEF CountInv
  <2>13. ErrorInv'
    BY <1>4, <2>1, <2>2 DEF ErrorInv, FirstError, FirstErrorRaised, Raised
  <2>14. RefusalInv'
    <3>1. NoError[1] # "compile"
      BY DEF NoError
    <3>. QED
      BY <1>1, <1>4, <2>2, <2>4, <3>1 DEF RefusalInv, RefusalTouchesNothing
  <2>. QED
    BY <2>6, <2>7, <2>8, <2>9, <2>10, <2>11, <2>12, <2>13, <2>14 DEF IInv
<1>. QED
  BY <1>2, <1>3, <1>4

\* Which steps a body has left depends on its kind.
LEMMA HeadOfBody ==
  ASSUME CallType, PathInv, BodyInv, mode = "body", todo # <<>>
  PROVE  /\ todo \in Seq(BodySteps) /\ Head(todo) = todo[1] /\ Head(todo) \in BodySteps
         /\ Head(todo)[1] \notin {"enqueue", "retain", "end"} =>
              policy = "none" /\ todo \in Seq(Allowed)
         /\ policy \in {"warp", "cta"} => todo = <<<<"enqueue", policy>>>>
         /\ policy = "mixed" => PhaseShape(todo)
         /\ Head(todo)[1] \in {"retain", "end"} => policy = "mixed"
<1>1. todo \in Seq(BodySteps) /\ policy \in {"none", "warp", "cta", "mixed"}
  BY DEF CallType
<1>2. Head(todo) = todo[1] /\ Head(todo) \in BodySteps
  BY <1>1, Rest
<1>3. policy = "none" => todo \in Seq(Allowed)
  BY DEF BodyInv
<1>4. policy = "none" => Head(todo)[1] \notin {"retain", "end"}
  <2>1. policy = "none" => Head(todo) \in Allowed
    BY <1>3, Rest
  <2>. QED
    BY <2>1 DEF Allowed
<1>5. policy \in {"warp", "cta"} => todo = <<<<"enqueue", policy>>>>
  BY DEF BodyInv
<1>6. policy \in {"warp", "cta"} => Head(todo)[1] = "enqueue"
  <2>1. Head(<<<<"enqueue", policy>>>>) = <<"enqueue", policy>>
    OBVIOUS
  <2>. QED
    BY <1>5, <2>1
<1>7. policy = "mixed" => PhaseShape(todo)
  BY DEF BodyInv
<1>8. policy = "mixed" => Head(todo)[1] \in {"enqueue", "retain", "end"}
  BY <1>1, <1>2, <1>7, ShapeOfRest
<1>. QED
  BY <1>1, <1>2, <1>3, <1>4, <1>5, <1>6, <1>7, <1>8

\* What a one-shot body or a preparation has left after a step.
LEMMA TailOfBody ==
  ASSUME CallType, BodyInv, mode = "body", policy = "none", todo # <<>>
  PROVE  /\ todo \in Seq(Allowed) /\ Tail(todo) \in Seq(Allowed) /\ Head(todo) = todo[1]
         /\ \A i \in DOMAIN Tail(todo) : Tail(todo)[i][1] # "advance"
         /\ job.path = "prepared" => attempted = {}
         /\ job.path = "reduce" =>
              /\ CompileFirst(Tail(todo))
              /\ Has(Tail(todo), "compile") => Head(todo)[1] = "compile"
              /\ Head(todo)[1] = "compile" => memory.uploads = {} /\ held = {}
         /\ job.path = "fixed" => attempted = {} /\
              \/ /\ todo \in {FixedBody, Tail(FixedBody)} /\ held = {}
                 /\ Head(todo)[1] \in {"compile", "lease"}
                 /\ Head(todo)[1] = "compile" => todo = FixedBody
                 /\ Head(todo)[1] = "lease" => todo = Tail(FixedBody)
              \/ todo = Tail(Tail(FixedBody)) /\ Head(todo)[1] = "enqueue"
<1>2. todo \in Seq(Allowed)
  BY DEF BodyInv
<1>3. /\ Tail(todo) \in Seq(Allowed) /\ Head(todo) = todo[1]
      /\ \A i \in DOMAIN Tail(todo) : i + 1 \in DOMAIN todo /\ Tail(todo)[i] = todo[i + 1]
      /\ DOMAIN todo = 1..Len(todo) /\ Len(todo) >= 1 /\ Len(todo) \in Nat
      /\ DOMAIN Tail(todo) = 1..(Len(todo) - 1)
  BY <1>2, Rest
<1>4. \A i \in DOMAIN Tail(todo) : Tail(todo)[i][1] # "advance"
  <2>1. SUFFICES ASSUME NEW i \in DOMAIN Tail(todo), Tail(todo)[i][1] = "advance"
                 PROVE  FALSE
    OBVIOUS
  <2>2. i + 1 \in DOMAIN todo /\ todo[i + 1][1] = "advance"
    BY <1>3, <2>1
  <2>3. i + 1 = 1
    BY <2>2 DEF BodyInv
  <2>. QED
    BY <1>3, <2>3
<1>5. job.path = "prepared" => attempted = {}
  BY DEF BodyInv
<1>6. ASSUME job.path = "reduce"
      PROVE  /\ CompileFirst(Tail(todo))
             /\ Has(Tail(todo), "compile") => Head(todo)[1] = "compile"
             /\ Head(todo)[1] = "compile" => memory.uploads = {} /\ held = {}
  <2>1. /\ CompileFirst(todo)
        /\ Has(todo, "compile") => memory.uploads = {} /\ held = {}
    BY <1>6 DEF BodyInv
  <2>2. CompileFirst(Tail(todo))
    <3>1. SUFFICES ASSUME NEW i \in DOMAIN Tail(todo), NEW j \in DOMAIN Tail(todo),
                          i < j, Tail(todo)[j][1] = "compile"
                   PROVE  Tail(todo)[i][1] = "compile"
      BY DEF CompileFirst
    <3>2. /\ i + 1 \in DOMAIN todo /\ j + 1 \in DOMAIN todo /\ i + 1 < j + 1
          /\ todo[j + 1][1] = "compile"
      BY <1>3, <3>1
    <3>3. todo[i + 1][1] = "compile"
      BY <2>1, <3>2 DEF CompileFirst
    <3>. QED
      BY <1>3, <3>3
  <2>3. ASSUME Has(Tail(todo), "compile")
        PROVE  Head(todo)[1] = "compile"
    <3>1. PICK i \in DOMAIN Tail(todo) : Tail(todo)[i][1] = "compile"
      BY <2>3 DEF Has
    <3>2. /\ i + 1 \in DOMAIN todo /\ todo[i + 1][1] = "compile"
          /\ 1 \in DOMAIN todo /\ 1 < i + 1
      BY <1>3, <3>1
    <3>. QED
      BY <1>3, <2>1, <3>2 DEF CompileFirst
  <2>4. Head(todo)[1] = "compile" => Has(todo, "compile")
    <3>1. 1 \in DOMAIN todo
      BY <1>3
    <3>. QED
      BY <1>3, <3>1 DEF Has
  <2>. QED
    BY <2>1, <2>2, <2>3, <2>4
<1>7. ASSUME job.path = "fixed"
      PROVE  attempted = {} /\
              \/ /\ todo \in {FixedBody, Tail(FixedBody)} /\ held = {}
                 /\ Head(todo)[1] \in {"compile", "lease"}
                 /\ Head(todo)[1] = "compile" => todo = FixedBody
                 /\ Head(todo)[1] = "lease" => todo = Tail(FixedBody)
              \/ todo = Tail(Tail(FixedBody)) /\ Head(todo)[1] = "enqueue"
  <2>1. \/ todo \in {FixedBody, Tail(FixedBody)} /\ held = {} /\ attempted = {}
        \/ todo = Tail(Tail(FixedBody)) /\ attempted = {}
    BY <1>7 DEF BodyInv
  <2>2. /\ Head(FixedBody)[1] = "compile" /\ Head(Tail(FixedBody))[1] = "lease"
        /\ Head(Tail(Tail(FixedBody)))[1] = "enqueue"
    <3>1. /\ Head(<<<<"compile", "fixed">>, <<"lease", "fixed">>, <<"enqueue", "fixed">>>>)
               = <<"compile", "fixed">>
          /\ Head(<<<<"lease", "fixed">>, <<"enqueue", "fixed">>>>) = <<"lease", "fixed">>
          /\ Head(<<<<"enqueue", "fixed">>>>) = <<"enqueue", "fixed">>
      OBVIOUS
    <3>. QED
      BY <3>1, FixedSteps
  <2>. QED
    BY <2>1, <2>2
<1>. QED
  BY <1>2, <1>3, <1>4, <1>5, <1>6, <1>7

\* Compile, Lease, Upload: a step before the first enqueue succeeds.
LEMMA GoKeeps ==
  ASSUME IInv, mode = "body", todo # <<>>, Go,
         Head(todo)[1] \in {"compile", "lease", "upload", "alloc"},
         UNCHANGED <<job, policy, attempted, counter, queue, launches>>,
         \/ UNCHANGED <<held, memory>>
         \/ /\ Head(todo)[1] = "lease" /\ UNCHANGED memory
            /\ held' = held \cup {Head(todo)[2]}
         \/ /\ Head(todo)[1] \in {"upload", "alloc"} /\ UNCHANGED held
            /\ memory' = [memory EXCEPT !.uploads = @ \cup {Head(todo)[2]}]
  PROVE  IInv'
<1>0. CallType /\ StoreType /\ PathInv /\ BodyInv /\ LeaseInv /\ MemoryInv
      /\ CountInv /\ ErrorInv /\ RefusalInv
  BY DEF IInv
<1>1. /\ mode' = "body" /\ todo' = Tail(todo) /\ log' = log
      /\ UNCHANGED <<job, policy, attempted, counter, queue, launches>>
  BY DEF Go
<1>2. policy = "none" /\ todo \in Seq(Allowed) /\ Head(todo) \in BodySteps
  BY <1>0, HeadOfBody
<1>3. /\ Tail(todo) \in Seq(Allowed) /\ Head(todo) = todo[1]
      /\ \A i \in DOMAIN Tail(todo) : Tail(todo)[i][1] # "advance"
      /\ job.path = "prepared" => attempted = {}
      /\ job.path = "reduce" =>
           /\ CompileFirst(Tail(todo))
           /\ Has(Tail(todo), "compile") => Head(todo)[1] = "compile"
           /\ Head(todo)[1] = "compile" => memory.uploads = {} /\ held = {}
      /\ job.path = "fixed" => attempted = {} /\
           \/ /\ todo \in {FixedBody, Tail(FixedBody)} /\ held = {}
              /\ Head(todo)[1] \in {"compile", "lease"}
              /\ Head(todo)[1] = "compile" => todo = FixedBody
              /\ Head(todo)[1] = "lease" => todo = Tail(FixedBody)
           \/ todo = Tail(Tail(FixedBody)) /\ Head(todo)[1] = "enqueue"
  BY <1>0, <1>2, TailOfBody
<1>4. held' \subseteq Kernels
  <2>1. Head(todo)[1] = "lease" => Head(todo)[2] \in Kernels
    BY <1>2 DEF BodySteps
  <2>2. held \subseteq Kernels
    BY <1>0 DEF CallType
  <2>. QED
    BY <2>1, <2>2
<1>5. /\ memory' \in [copied : BOOLEAN, uploads : SUBSET Tensors,
                      recorded : SUBSET Tensors, reused : SUBSET Tensors]
      /\ memory'.copied = memory.copied /\ memory'.recorded = memory.recorded
      /\ memory'.reused = memory.reused
  <2>1. Head(todo)[1] \in {"upload", "alloc"} => Head(todo)[2] \in Tensors
    BY <1>2 DEF BodySteps
  <2>2. memory \in [copied : BOOLEAN, uploads : SUBSET Tensors,
                    recorded : SUBSET Tensors, reused : SUBSET Tensors]
    BY <1>0 DEF StoreType
  <2>. QED
    BY <2>1, <2>2
<1>6. CallType'
  <2>1. Allowed \subseteq BodySteps
    BY DEF Allowed
  <2>2. Tail(todo) \in Seq(BodySteps)
    BY <1>3, <2>1
  <2>. QED
    BY <1>0, <1>1, <1>4, <2>2 DEF CallType
<1>7. StoreType'
  BY <1>0, <1>1, <1>5 DEF StoreType
<1>8. PathInv'
  BY <1>0, <1>1 DEF PathInv
<1>9. BodyInv'
  <2>1. /\ Allowed' = Allowed /\ policy' = "none" /\ todo' = Tail(todo)
        /\ attempted' = attempted /\ job' = job
    BY <1>1, <1>2 DEF Allowed
  <2>2. job.path = "fixed" =>
          \/ todo' \in {FixedBody, Tail(FixedBody)} /\ held' = {} /\ attempted' = {}
          \/ todo' = Tail(Tail(FixedBody)) /\ attempted' = {}
    <3>1. SUFFICES ASSUME job.path = "fixed"
                   PROVE  \/ todo' \in {FixedBody, Tail(FixedBody)} /\ held' = {}
                                                                    /\ attempted' = {}
                          \/ todo' = Tail(Tail(FixedBody)) /\ attempted' = {}
      OBVIOUS
    <3>2. CASE Head(todo)[1] = "compile"
      <4>1. todo = FixedBody /\ held = {} /\ attempted = {}
        BY <1>3, <3>1, <3>2
      <4>2. held' = {}
        BY <3>2, <4>1
      <4>. QED
        BY <2>1, <4>1, <4>2
    <3>3. CASE Head(todo)[1] = "lease"
      <4>1. todo = Tail(FixedBody) /\ attempted = {}
        BY <1>3, <3>1, <3>3
      <4>. QED
        BY <2>1, <4>1
    <3>. QED
      BY <1>3, <3>1, <3>2, <3>3
  <2>3. Has(Tail(todo), "compile") /\ job.path = "reduce" =>
          memory'.uploads = {} /\ held' = {}
    BY <1>3
  <2>. QED
    BY <1>3, <2>1, <2>2, <2>3 DEF BodyInv
<1>10. LeaseInv'
  BY <1>1 DEF LeaseInv
<1>11. MemoryInv'
  <2>1. \A x : Pending(x) => Pending(x)'
    BY <1>1, <1>2 DEF Pending, Inputs, Wrote
  <2>. QED
    BY <1>0, <1>1, <1>5, <2>1, NothingQueued
<1>12. CountInv'
  <2>1. Due' = Due
    BY <1>1 DEF Due
  <2>2. LostAdvances' = LostAdvances
    BY <1>1 DEF LostAdvances
  <2>. QED
    BY <1>0, <1>1, <2>1, <2>2 DEF CountInv
<1>13. ErrorInv'
  BY <1>0, <1>1, <1>2 DEF ErrorInv, FirstError, FirstErrorRaised
<1>14. RefusalInv'
  <2>1. log.body = NoError /\ NoError[1] # "compile"
    BY <1>0 DEF ErrorInv, NoError
  <2>. QED
    BY <1>0, <1>1, <1>5, <2>1 DEF RefusalInv, RefusalTouchesNothing
<1>. QED
  BY <1>6, <1>7, <1>8, <1>9, <1>10, <1>11, <1>12, <1>13, <1>14 DEF IInv

\* The first error of a launch.
LEMMA FirstOfErrors ==
  ASSUME StoreType, ErrorInv, mode = "body", log.errors = <<>>,
         NEW e \in BodySteps \cup CleanupSteps,
         log' = [log EXCEPT !.errors = Append(@, e), !.body = e, !.faults = @ + 1],
         mode' = "finally"
  PROVE  /\ log'.errors = <<e>> /\ log'.body = e /\ log'.lost = log.lost
         /\ DOMAIN log' = {"errors", "body", "cleanup", "raised", "lost", "faults"}
         /\ log'.errors \in Seq(BodySteps \cup CleanupSteps)
         /\ ErrorInv'
<1>2. Append(<<>>, e) = <<e>> /\ <<e>> # <<>> /\ Head(<<e>>) = e
  OBVIOUS
<1>3. /\ log'.errors = <<e>> /\ log'.body = e /\ log'.lost = log.lost
      /\ DOMAIN log' = {"errors", "body", "cleanup", "raised", "lost", "faults"}
  BY <1>2 DEF StoreType
<1>4. e # NoError
  BY DEF BodySteps, CleanupSteps, NoError
<1>5. <<e>> \in Seq(BodySteps \cup CleanupSteps)
  OBVIOUS
<1>6. ErrorInv'
  BY <1>2, <1>3, <1>4 DEF ErrorInv, Raised, FirstError, FirstErrorRaised
<1>. QED
  BY <1>3, <1>5, <1>6

\* Compile, Lease, Upload: a step before the first enqueue raises.
LEMMA RaiseKeeps ==
  ASSUME IInv, mode = "body", todo # <<>>, Raise(Head(todo), Finish(attempted)),
         Head(todo)[1] \in {"compile", "lease", "upload", "alloc"},
         UNCHANGED <<job, policy, held, attempted, memory, counter, queue, launches>>
  PROVE  IInv'
<1>0. CallType /\ StoreType /\ PathInv /\ BodyInv /\ LeaseInv /\ MemoryInv
      /\ CountInv /\ ErrorInv /\ RefusalInv
  BY DEF IInv
<1> DEFINE e == Head(todo)
<1>1. /\ log' = [log EXCEPT !.errors = Append(@, e), !.body = e, !.faults = @ + 1]
      /\ mode' = "finally" /\ todo' = Finish(attempted)
  BY DEF Raise
<1>2. policy = "none" /\ todo \in Seq(Allowed) /\ e \in BodySteps /\ e = todo[1]
  BY <1>0, HeadOfBody
<1>3. e[1] \in {"compile", "lease", "upload", "alloc"}
  OBVIOUS
<1>4. /\ log'.errors = <<e>> /\ log'.body = e /\ log'.lost = log.lost /\ log.lost = {}
      /\ DOMAIN log' = {"errors", "body", "cleanup", "raised", "lost", "faults"}
      /\ log'.errors \in Seq(BodySteps \cup CleanupSteps)
      /\ ErrorInv'
  <2>1. log.errors = <<>> /\ log.lost = {}
    BY <1>0, <1>2 DEF ErrorInv
  <2> HIDE DEF e
  <2>. QED
    BY <1>0, <1>1, <1>2, <2>1, FirstOfErrors
<1>5. job.path = "fixed" => held = {} /\ attempted = {}
  BY <1>0, <1>2, <1>3, TailOfBody
<1> HIDE DEF e
<1>6. held \subseteq Kernels /\ launches \in Nat /\ attempted \subseteq Kernels
  BY <1>0 DEF CallType
<1>7. /\ Finish(attempted) \in Seq(CleanupSteps)
      /\ policy = "none" /\ (job.path = "fixed" => attempted # {}) =>
           \A k \in held : <<"release", k>> \in ToSet(Finish(attempted))
      /\ attempted # {} /\ policy # "mixed" => \A x \in Inputs :
                             <<"retain", x>> \in ToSet(Finish(attempted))
      /\ Wrote(attempted) /\ policy # "mixed" =>
           <<"retain", "output">> \in ToSet(Finish(attempted))
      /\ Has(Finish(attempted), "advance") <=> Wrote(attempted)
      /\ AdvancesOnce(Finish(attempted))
  <2>1. job.path = "fixed" => policy = "none" /\ attempted \subseteq {"fixed"}
    BY <1>2, <1>5
  <2>. QED
    BY <1>6, <2>1, FinishSteps
<1>8. CallType'
  BY <1>0, <1>1, <1>7 DEF CallType, Modes
<1>9. StoreType'
  BY <1>0, <1>1, <1>4 DEF StoreType
<1>10. PathInv'
  BY <1>0, <1>1 DEF PathInv
<1>11. BodyInv'
  BY <1>1 DEF BodyInv
<1>12. LeaseInv'
  <2>1. \A k \in held : <<"release", k>> \in ToSet(todo')
    BY <1>1, <1>2, <1>5, <1>7
  <2>2. Owed' \subseteq held
    BY DEF Owed
  <2>. QED
    BY <1>1, <2>1, <2>2 DEF LeaseInv
<1>13. MemoryInv'
  <2>1. \A x : Pending(x) => <<"retain", x>> \in ToSet(todo')
    BY <1>1, <1>2, <1>7 DEF Pending
  <2>2. \A x : Pending(x) => Pending(x)'
    BY <1>1, <2>1 DEF Pending
  <2>. QED
    BY <1>0, <1>4, <2>2, NothingQueued
<1>14. CountInv'
  <2>1. Due' = Due
    BY <1>1, <1>7 DEF Due, Wrote
  <2>2. LostAdvances' = LostAdvances
    BY <1>4 DEF LostAdvances
  <2>3. <<"advance", launches>> \notin log.lost
    BY <1>4
  <2>. QED
    BY <1>0, <1>1, <1>4, <1>7, <2>1, <2>2, <2>3 DEF CountInv, AdvancesOnce
<1>15. RefusalInv'
  <2>1. job.path = "reduce" /\ e[1] = "compile" => memory.uploads = {} /\ held = {}
    BY <1>0, <1>2, TailOfBody DEF e
  <2>2. ~(job.path \in Public /\ "capture" \in job.defects)
    BY <1>0 DEF RefusalInv
  <2>. QED
    BY <1>1, <1>4, <2>1, <2>2 DEF RefusalInv, RefusalTouchesNothing
<1>. QED
  BY <1>4, <1>8, <1>9, <1>10, <1>11, <1>12, <1>13, <1>14, <1>15 DEF IInv

\* Compile.
LEMMA CompileKeeps ==
  ASSUME IInv, Compile
  PROVE  IInv'
<1>1. /\ mode = "body" /\ todo # <<>> /\ Head(todo)[1] = "compile"
      /\ UNCHANGED <<job, policy, held, attempted, memory, counter, queue, launches>>
      /\ Go \/ Raise(Head(todo), Finish(attempted))
  BY DEF Compile, At
<1>2. CASE Go
  BY <1>1, <1>2, GoKeeps
<1>3. CASE Raise(Head(todo), Finish(attempted))
  BY <1>1, <1>3, RaiseKeeps
<1>. QED
  BY <1>1, <1>2, <1>3

\* Lease.
LEMMA LeaseKeeps ==
  ASSUME IInv, Lease
  PROVE  IInv'
<1>1. /\ mode = "body" /\ todo # <<>> /\ Head(todo)[1] = "lease"
      /\ UNCHANGED <<job, policy, attempted, memory, counter, queue, launches>>
      /\ \/ Go /\ held' = held \cup {Head(todo)[2]}
         \/ Raise(Head(todo), Finish(attempted)) /\ UNCHANGED held
  BY DEF Lease, At
<1>2. CASE Go /\ held' = held \cup {Head(todo)[2]}
  BY <1>1, <1>2, GoKeeps
<1>3. CASE Raise(Head(todo), Finish(attempted)) /\ UNCHANGED held
  BY <1>1, <1>3, RaiseKeeps
<1>. QED
  BY <1>1, <1>2, <1>3

\* Upload.
LEMMA UploadKeeps ==
  ASSUME IInv, Upload
  PROVE  IInv'
<1>1. /\ mode = "body" /\ todo # <<>> /\ Head(todo)[1] \in {"upload", "alloc"}
      /\ UNCHANGED <<job, policy, held, attempted, counter, queue, launches>>
      /\ \/ Go /\ memory' = [memory EXCEPT !.uploads = @ \cup {Head(todo)[2]}]
         \/ Raise(Head(todo), Finish(attempted)) /\ UNCHANGED memory
  BY DEF Upload, At
<1>2. CASE Go /\ memory' = [memory EXCEPT !.uploads = @ \cup {Head(todo)[2]}]
  BY <1>1, <1>2, GoKeeps
<1>3. CASE Raise(Head(todo), Finish(attempted)) /\ UNCHANGED memory
  BY <1>1, <1>3, RaiseKeeps
<1>. QED
  BY <1>1, <1>2, <1>3

\* A body that ended is followed by its cleanup.
LEMMA FinishKeeps ==
  ASSUME IInv, mode = "body", mode' = "finally", todo' = Finish(attempted),
         UNCHANGED <<job, policy, held, attempted, memory, counter, queue, launches>>,
         \/ log' = log /\ log.errors = <<>>
         \/ /\ policy = "mixed" /\ log.cleanup # NoError
            /\ log' = [log EXCEPT !.body = log.cleanup],
         policy = "mixed" => \A x : ~Leads(todo, 1, x),
         job.path = "fixed" => attempted = {"fixed"}
  PROVE  IInv'
<1>0. CallType /\ StoreType /\ PathInv /\ BodyInv /\ LeaseInv /\ MemoryInv
      /\ CountInv /\ ErrorInv /\ RefusalInv
  BY DEF IInv
<1>1. held \subseteq Kernels /\ launches \in Nat /\ attempted \subseteq Kernels
  BY <1>0 DEF CallType
<1>2. policy # "none" => job.path = "prepared"
  BY <1>0 DEF PathInv
<1>3. /\ Finish(attempted) \in Seq(CleanupSteps)
      /\ policy = "none" /\ (job.path = "fixed" => attempted # {}) =>
           \A k \in held : <<"release", k>> \in ToSet(Finish(attempted))
      /\ attempted # {} /\ policy # "mixed" => \A x \in Inputs :
                             <<"retain", x>> \in ToSet(Finish(attempted))
      /\ Wrote(attempted) /\ policy # "mixed" =>
           <<"retain", "output">> \in ToSet(Finish(attempted))
      /\ Has(Finish(attempted), "advance") <=> Wrote(attempted)
      /\ AdvancesOnce(Finish(attempted))
  <2>1. job.path = "fixed" => policy = "none" /\ attempted \subseteq {"fixed"}
    BY <1>2
  <2>. QED
    BY <1>1, <2>1, FinishSteps
<1>l. /\ log'.errors = log.errors /\ log'.lost = log.lost /\ log'.cleanup = log.cleanup
      /\ DOMAIN log' = {"errors", "body", "cleanup", "raised", "lost", "faults"}
      /\ log'.body = NoError \/ (policy = "mixed" /\ log'.body = log.cleanup)
  BY <1>0 DEF StoreType, ErrorInv
<1>8. CallType'
  BY <1>0, <1>3 DEF CallType, Modes
<1>9. StoreType'
  BY <1>0, <1>l DEF StoreType
<1>10. PathInv'
  BY <1>0 DEF PathInv
<1>11. BodyInv'
  BY DEF BodyInv
<1>12. LeaseInv'
  <2>1. policy = "none" => \A k \in held : <<"release", k>> \in ToSet(todo')
    BY <1>3
  <2>2. Owed' \subseteq held
    BY DEF Owed
  <2>. QED
    BY <2>1, <2>2 DEF LeaseInv
<1>13. MemoryInv'
  <2>1. \A x : Pending(x) => <<"retain", x>> \in ToSet(todo')
    <3>1. CASE policy = "mixed"
      BY <3>1 DEF Pending
    <3>2. CASE policy # "mixed"
      BY <1>3, <3>2 DEF Pending
    <3>. QED
      BY <3>1, <3>2
  <2>2. \A x : Pending(x) => Pending(x)'
    BY <2>1 DEF Pending
  <2>. QED
    BY <1>0, <1>l, <2>2, NothingQueued
<1>14. CountInv'
  <2>1. Due' = Due
    BY <1>3 DEF Due, Wrote
  <2>2. LostAdvances' = LostAdvances
    BY <1>l DEF LostAdvances
  <2>3. <<"advance", launches>> \notin log.lost
    BY <1>0 DEF CountInv
  <2>. QED
    BY <1>0, <1>l, <1>3, <2>1, <2>2, <2>3 DEF CountInv, AdvancesOnce
<1>15. ErrorInv'
  <2>1. /\ log.body = NoError /\ log.cleanup = FirstError
        /\ policy = "none" => log.errors = <<>> /\ log.lost = {}
    BY <1>0 DEF ErrorInv
  <2>2. FirstError' = FirstError
    BY <1>l DEF FirstError
  <2>3. Raised' = FirstError
    BY <1>l, <2>1 DEF Raised
  <2>4. log.errors = <<>> => log.cleanup = NoError
    BY <2>1 DEF FirstError
  <2>. QED
    BY <1>l, <2>1, <2>2, <2>3, <2>4 DEF ErrorInv, FirstErrorRaised
<1>16. RefusalInv'
  <2>1. policy = "mixed" => job.path # "reduce"
    BY <1>2
  <2>2. NoError[1] # "compile"
    BY DEF NoError
  <2>3. ~(job.path \in Public /\ "capture" \in job.defects)
    BY <1>0 DEF RefusalInv
  <2>. QED
    BY <1>l, <2>1, <2>2, <2>3 DEF RefusalInv, RefusalTouchesNothing
<1>. QED
  BY <1>8, <1>9, <1>10, <1>11, <1>12, <1>13, <1>14, <1>15, <1>16 DEF IInv

\* The end of a preparation: the prepared object keeps its leases.
LEMMA PreparedKeeps ==
  ASSUME IInv, mode = "body", todo = <<>>, job.path = "prepared", policy = "none",
         mode' = "finally", todo' = <<>>,
         UNCHANGED <<job, policy, held, attempted, log, memory, counter, queue, launches>>
  PROVE  IInv'
<1>0. CallType /\ StoreType /\ PathInv /\ BodyInv /\ LeaseInv /\ MemoryInv
      /\ CountInv /\ ErrorInv /\ RefusalInv
  BY DEF IInv
<1>1. attempted = {} /\ log.errors = <<>> /\ log.lost = {} /\ log.body = NoError
      /\ log.cleanup = NoError
  BY <1>0 DEF BodyInv, ErrorInv, FirstError
<1>2. CallType'
  BY <1>0 DEF CallType, Modes
<1>3. StoreType' /\ PathInv' /\ BodyInv'
  BY <1>0 DEF StoreType, PathInv, BodyInv
<1>4. LeaseInv'
  BY <1>1 DEF LeaseInv
<1>5. MemoryInv'
  <2>1. \A x : ~Pending(x)
    BY <1>1 DEF Pending
  <2>. QED
    BY <1>0, <2>1, NothingQueued
<1>6. CountInv'
  <2>1. Due = 0 /\ Due' = 0
    BY <1>1 DEF Due, Has
  <2>2. LostAdvances' = LostAdvances
    BY DEF LostAdvances
  <2>. QED
    BY <1>0, <2>1, <2>2 DEF CountInv
<1>7. ErrorInv'
  BY <1>1 DEF ErrorInv, Raised, FirstError, FirstErrorRaised
<1>8. RefusalInv'
  BY <1>0 DEF RefusalInv, RefusalTouchesNothing
<1>. QED
  BY <1>2, <1>3, <1>4, <1>5, <1>6, <1>7, <1>8 DEF IInv

\* EndBody.
LEMMA EndBodyKeeps ==
  ASSUME IInv, EndBody
  PROVE  IInv'
<1>0. CallType /\ StoreType /\ PathInv /\ BodyInv /\ LeaseInv /\ MemoryInv
      /\ CountInv /\ ErrorInv /\ RefusalInv
  BY DEF IInv
<1>1. /\ mode = "body" /\ todo = <<>> /\ mode' = "finally"
      /\ todo' = IF job.path = "prepared" /\ policy = "none" THEN <<>>
                 ELSE Finish(attempted)
      /\ UNCHANGED <<job, policy, held, attempted, log, memory, counter, queue, launches>>
  BY DEF EndBody
<1>2. CASE job.path = "prepared" /\ policy = "none"
  BY <1>1, <1>2, PreparedKeeps
<1>3. CASE ~(job.path = "prepared" /\ policy = "none")
  <2>1. todo' = Finish(attempted)
    BY <1>1, <1>3
  <2>2. (\A x : ~Leads(todo, 1, x)) /\ ~Ends(todo, 1)
    BY <1>1 DEF Leads, Ends
  <2>3. log.errors = <<>>
    BY <1>0, <1>1, <2>2 DEF ErrorInv
  <2>4. job.path = "fixed" => attempted = {"fixed"}
    <3>1. FixedBody # <<>> /\ Tail(FixedBody) # <<>> /\ Tail(Tail(FixedBody)) # <<>>
      <4>1. /\ <<<<"compile", "fixed">>, <<"lease", "fixed">>, <<"enqueue", "fixed">>>> # <<>>
            /\ <<<<"lease", "fixed">>, <<"enqueue", "fixed">>>> # <<>>
            /\ <<<<"enqueue", "fixed">>>> # <<>>
        OBVIOUS
      <4>. QED
        BY <4>1, FixedSteps
    <3>2. job.path = "fixed" => policy = "none"
      BY <1>0 DEF PathInv
    <3>. QED
      BY <1>0, <1>1, <3>1, <3>2 DEF BodyInv
  <2>. QED
    BY <1>1, <2>1, <2>2, <2>3, <2>4, FinishKeeps
<1>. QED
  BY <1>2, <1>3

\* EndPhase.
LEMMA EndPhaseKeeps ==
  ASSUME IInv, EndPhase
  PROVE  IInv'
<1>0. CallType /\ StoreType /\ PathInv /\ BodyInv /\ LeaseInv /\ MemoryInv
      /\ CountInv /\ ErrorInv /\ RefusalInv
  BY DEF IInv
<1>1. /\ mode = "body" /\ todo # <<>> /\ Head(todo)[1] = "end"
      /\ UNCHANGED <<job, policy, held, attempted, memory, counter, queue, launches>>
  BY DEF EndPhase, At
<1>2. /\ todo \in Seq(BodySteps) /\ Head(todo) = todo[1] /\ policy = "mixed"
      /\ PhaseShape(todo) /\ job.path = "prepared"
  <2>1. policy = "mixed"
    BY <1>0, <1>1, HeadOfBody
  <2>. QED
    BY <1>0, <1>1, <2>1, HeadOfBody DEF PathInv
<1>3. \A x : ~Leads(todo, 1, x)
  <2>1. SUFFICES ASSUME NEW x, Leads(todo, 1, x)
                 PROVE  FALSE
    OBVIOUS
  <2>2. Head(todo) # <<"retain", x>>
    BY <1>1
  <2>3. 1 \in Nat /\ 1 >= 1
    OBVIOUS
  <2>4. todo[1][1] = "retain"
    BY <1>1, <1>2, <2>1, <2>2, <2>3, LeadsOn
  <2>. QED
    BY <1>1, <1>2, <2>4
<1>4. CASE log.cleanup = NoError
  <2>1. mode' = mode /\ todo' = Tail(todo) /\ log' = log
    BY <1>4 DEF EndPhase, Go
  <2>2. log.errors = <<>>
    <3>1. log.cleanup = FirstError
      BY <1>0, <1>1 DEF ErrorInv
    <3>. QED
      BY <1>0, <1>1, <1>4, <3>1, StepsAreErrors
  <2>3. PhaseShape(Tail(todo)) /\ Tail(todo) \in Seq(BodySteps)
    <3>1. Tail(todo) \in Seq(BodySteps)
      BY <1>1, <1>2, Rest
    <3>. QED
      BY <1>1, <1>2, <3>1, ShapeOfRest
  <2>4. CallType'
    BY <1>0, <1>1, <2>1, <2>3 DEF CallType
  <2>5. StoreType' /\ PathInv'
    BY <1>0, <1>1, <2>1 DEF StoreType, PathInv
  <2>6. BodyInv'
    BY <1>0, <1>1, <1>2, <2>1, <2>3 DEF BodyInv
  <2>7. LeaseInv'
    BY <1>1, <2>1 DEF LeaseInv
  <2>8. MemoryInv'
    <3>1. \A x : ~Pending(x)
      BY <1>1, <1>2, <1>3 DEF Pending
    <3>. QED
      BY <1>0, <1>1, <2>1, <3>1, NothingQueued
  <2>9. CountInv'
    <3>1. Due' = Due /\ LostAdvances' = LostAdvances
      BY <1>1, <2>1 DEF Due, LostAdvances
    <3>. QED
      BY <1>0, <1>1, <2>1, <3>1 DEF CountInv
  <2>10. ErrorInv'
    BY <1>0, <1>1, <1>2, <2>1, <2>2 DEF ErrorInv, FirstError, FirstErrorRaised
  <2>11. RefusalInv'
    BY <1>0, <1>1, <2>1 DEF RefusalInv, RefusalTouchesNothing
  <2>. QED
    BY <2>4, <2>5, <2>6, <2>7, <2>8, <2>9, <2>10, <2>11 DEF IInv
<1>5. CASE log.cleanup # NoError
  <2>1. /\ mode' = "finally" /\ todo' = Finish(attempted)
        /\ log' = [log EXCEPT !.body = log.cleanup]
    BY <1>5 DEF EndPhase
  <2>. QED
    BY <1>1, <1>2, <1>3, <1>5, <2>1, FinishKeeps
<1>. QED
  BY <1>4, <1>5

\* Which kernel an enqueue is for, and what was attempted before it.
LEMMA EnqueuedKernel ==
  ASSUME IInv, At("enqueue"), NEW kernel, kernel = Head(todo)[2]
  PROVE  /\ kernel \in Kernels /\ log.errors = <<>>
         /\ policy = "none" => /\ job.path # "prepared" /\ (kernel = "fixed" <=> job.path = "fixed")
                               /\ job.path = "fixed" => attempted = {}
         /\ policy \in {"warp", "cta"} => kernel = policy /\ attempted \subseteq {policy}
         /\ policy = "mixed" => /\ kernel \in Phases /\ attempted \subseteq Phases
                                /\ \A x : ~Leads(todo, 1, x)
                                /\ \A x \in ToSet(PhaseTensors(kernel)) : Leads(Tail(todo), 1, x)
<1>0. CallType /\ PathInv /\ BodyInv /\ ErrorInv
  BY DEF IInv
<1>1. mode = "body" /\ todo # <<>> /\ Head(todo)[1] = "enqueue"
  BY DEF At
<1>2. /\ todo \in Seq(BodySteps) /\ Head(todo) = todo[1] /\ Head(todo) \in BodySteps
      /\ policy \in {"warp", "cta"} => todo = <<<<"enqueue", policy>>>>
      /\ policy = "mixed" => PhaseShape(todo)
  BY <1>0, <1>1, HeadOfBody
<1>3. kernel \in Kernels
  BY <1>1, <1>2 DEF BodySteps
<1>4. log.errors = <<>>
  <2>1. CASE policy # "mixed"
    BY <1>0, <1>1, <2>1 DEF ErrorInv
  <2>2. CASE policy = "mixed"
    <3>1. 1 \in Nat /\ 1 >= 1
      OBVIOUS
    <3>2. Ends(todo, 1) => todo[1][1] \in {"retain", "end"}
      BY <1>1, <1>2, <3>1, LeadsOn
    <3>3. ~Ends(todo, 1)
      BY <1>1, <1>2, <3>2
    <3>. QED
      BY <1>0, <1>1, <3>3 DEF ErrorInv
  <2>. QED
    BY <2>1, <2>2
<1>5. ASSUME policy = "none"
      PROVE  /\ job.path # "prepared" /\ (kernel = "fixed" <=> job.path = "fixed")
             /\ job.path = "fixed" => attempted = {}
  <2>1. todo \in Seq(Allowed)
    BY <1>0, <1>1, <1>5 DEF BodyInv
  <2>2. Head(todo) \in Allowed
    BY <1>1, <2>1, Rest
  <2>3. job.path = "fixed" => attempted = {}
    BY <1>0, <1>1, <1>5, TailOfBody
  <2>. QED
    BY <1>1, <2>2, <2>3 DEF Allowed
<1>6. ASSUME policy \in {"warp", "cta"}
      PROVE  kernel = policy /\ attempted \subseteq {policy}
  <2>1. Head(<<<<"enqueue", policy>>>>) = <<"enqueue", policy>>
    OBVIOUS
  <2>2. kernel = policy
    BY <1>2, <1>6, <2>1
  <2>. QED
    BY <1>0, <1>1, <1>6, <2>2 DEF BodyInv
<1>7. ASSUME policy = "mixed"
      PROVE  /\ kernel \in Phases /\ attempted \subseteq Phases
             /\ \A x : ~Leads(todo, 1, x)
             /\ \A x \in ToSet(PhaseTensors(kernel)) : Leads(Tail(todo), 1, x)
  <2>1. PhaseShape(todo)
    BY <1>2, <1>7
  <2>2. /\ todo[1][2] \in Phases
        /\ \A x \in ToSet(PhaseTensors(todo[1][2])) : Leads(Tail(todo), 1, x)
    BY <1>1, <1>2, <2>1, ShapeOfRest
  <2>3. attempted \subseteq Phases
    BY <1>0, <1>1, <1>7 DEF BodyInv
  <2>4. ASSUME NEW x, Leads(todo, 1, x)
        PROVE  FALSE
    <3>1. Head(todo) # <<"retain", x>>
      BY <1>1
    <3>2. 1 \in Nat /\ 1 >= 1
      OBVIOUS
    <3>3. todo[1][1] = "retain"
      BY <1>1, <1>2, <2>4, <3>1, <3>2, LeadsOn
    <3>. QED
      BY <1>1, <1>2, <3>3
  <2>. QED
    BY <1>2, <2>2, <2>3, <2>4
<1>. QED
  BY <1>3, <1>4, <1>5, <1>6, <1>7

\* The steps of two scripts.
LEMMA StepsOfJoined ==
  \A S : \A s, t \in Seq(S) : ToSet(s \o t) = ToSet(s) \cup ToSet(t)
<1>. SUFFICES ASSUME NEW S, NEW s \in Seq(S), NEW t \in Seq(S)
              PROVE  ToSet(s \o t) = ToSet(s) \cup ToSet(t)
  OBVIOUS
<1>. QED
  BY Joined

\* The retentions of a phase that raised, then the cleanup of the launch.
LEMMA RaisedFinish ==
  ASSUME held \subseteq Kernels, launches \in Nat, NEW tried, tried # {},
         job.path = "fixed" => policy = "none" /\ tried \subseteq {"fixed"},
         NEW kernel, policy = "mixed" => kernel \in Phases,
         NEW retains, retains = IF policy = "mixed" THEN Each("retain", PhaseTensors(kernel))
                                                    ELSE <<>>
  PROVE  /\ retains \o Finish(tried) \in Seq(CleanupSteps)
         /\ policy = "none" =>
              \A k \in held : <<"release", k>> \in ToSet(retains \o Finish(tried))
         /\ policy # "mixed" => \A x \in Inputs : <<"retain", x>> \in ToSet(retains \o Finish(tried))
         /\ Wrote(tried) /\ policy # "mixed" =>
              <<"retain", "output">> \in ToSet(retains \o Finish(tried))
         /\ policy = "mixed" => \A x \in ToSet(PhaseTensors(kernel)) :
              <<"retain", x>> \in ToSet(retains \o Finish(tried))
         /\ Has(retains \o Finish(tried), "advance") <=> Wrote(tried)
         /\ AdvancesOnce(retains \o Finish(tried))
<1> DEFINE F == Finish(tried)
<1>1. /\ F \in Seq(CleanupSteps)
      /\ policy = "none" => \A k \in held : <<"release", k>> \in ToSet(F)
      /\ policy # "mixed" => \A x \in Inputs : <<"retain", x>> \in ToSet(F)
      /\ Wrote(tried) /\ policy # "mixed" => <<"retain", "output">> \in ToSet(F)
      /\ Has(F, "advance") <=> Wrote(tried)
      /\ AdvancesOnce(F)
  BY FinishSteps
<1>2. /\ retains \in Seq(CleanupSteps) /\ AdvancesOnce(retains) /\ ~Has(retains, "advance")
      /\ policy = "mixed" => \A x \in ToSet(PhaseTensors(kernel)) : <<"retain", x>> \in ToSet(retains)
  <2>1. CASE policy # "mixed"
    <3>1. retains = <<>> /\ <<>> \in Seq(CleanupSteps)
      BY <2>1
    <3>. QED
      BY <2>1, <3>1 DEF AdvancesOnce, Has
  <2>2. CASE policy = "mixed"
    <3>1. PhaseTensors(kernel) \in Seq(Tensors)
      BY <2>2, FourTensors
    <3>2. "retain" # "advance"
      OBVIOUS
    <3>3. /\ Each("retain", PhaseTensors(kernel)) \in Seq({"retain"} \X Tensors)
          /\ \A x : <<"retain", x>> \in ToSet(Each("retain", PhaseTensors(kernel)))
                      <=> x \in ToSet(PhaseTensors(kernel))
      BY <3>1, EachOf
    <3>4. AdvancesOnce(Each("retain", PhaseTensors(kernel)))
          /\ ~Has(Each("retain", PhaseTensors(kernel)), "advance")
      BY <3>1, <3>2, EachDoesNotAdvance
    <3>5. {"retain"} \X Tensors \subseteq CleanupSteps
      BY DEF CleanupSteps
    <3>6. Each("retain", PhaseTensors(kernel)) \in Seq(CleanupSteps)
      BY <3>3, <3>5
    <3>. QED
      BY <2>2, <3>3, <3>4, <3>6
  <2>. QED
    BY <2>1, <2>2
<1> HIDE DEF F
<1>3. retains \o F \in Seq(CleanupSteps) /\ ToSet(retains \o F) = ToSet(retains) \cup ToSet(F)
  <2> DEFINE S == CleanupSteps
  <2>1. retains \in Seq(S) /\ F \in Seq(S)
    BY <1>1, <1>2
  <2> HIDE DEF S
  <2>2. retains \o F \in Seq(S)
    BY <2>1
  <2>3. ToSet(retains \o F) = ToSet(retains) \cup ToSet(F)
    <3>1. \A s, t \in Seq(S) : ToSet(s \o t) = ToSet(s) \cup ToSet(t)
      BY StepsOfJoined, Zenon
    <3>. QED
      BY <2>1, <3>1, ZenonT(40)
  <2>. QED
    BY <2>2, <2>3 DEF S
<1>4. AdvancesOnce(retains \o F) /\ (Has(retains \o F, "advance") <=> Wrote(tried))
  <2>1. /\ AdvancesOnce(retains \o F)
        /\ Has(retains \o F, "advance") <=> Has(retains, "advance") \/ Has(F, "advance")
    BY <1>1, <1>2, AdvancesJoined
  <2>. QED
    BY <1>1, <1>2, <2>1
<1>. QED
  BY <1>1, <1>2, <1>3, <1>4 DEF F

\* What an enqueue adds to the queue is covered by what was attempted.
LEMMA EnqueueCovers ==
  ASSUME IInv, At("enqueue"), NEW kernel, kernel = Head(todo)[2], UNCHANGED job,
         attempted' = attempted \cup {kernel}, UNCHANGED policy
  PROVE  /\ policy # "mixed" =>
              \A x \in Touches(kernel) \cap Foreign :
                 x \in Inputs \/ (x = "output" /\ Wrote(attempted'))
         /\ policy = "mixed" => Touches(kernel) \cap Foreign \subseteq ToSet(PhaseTensors(kernel))
         /\ \A x : Pending(x) => policy # "mixed" /\ (x \in Inputs \/ (x = "output" /\ Wrote(attempted')))
<1>0. CallType /\ PathInv
  BY DEF IInv
<1>1. mode = "body"
  BY DEF At
<1>2. /\ kernel \in Kernels
      /\ policy = "none" => /\ job.path # "prepared" /\ (kernel = "fixed" <=> job.path = "fixed")
      /\ policy \in {"warp", "cta"} => kernel = policy
      /\ policy = "mixed" => kernel \in Phases /\ \A x : ~Leads(todo, 1, x)
  BY EnqueuedKernel
<1>3. kernel \in Writers => Wrote(attempted')
  BY DEF Wrote
<1>4. Wrote(attempted) => Wrote(attempted')
  BY DEF Wrote
<1>5. ASSUME policy # "mixed"
      PROVE  \A x \in Touches(kernel) \cap Foreign :
               x \in Inputs \/ (x = "output" /\ Wrote(attempted'))
  <2>1. policy # "none" => job.path = "prepared" /\ policy \in {"warp", "cta"}
    BY <1>0, <1>5 DEF PathInv, CallType
  <2>2. \A x \in Touches(kernel) \cap Foreign :
          x \in Inputs \/ (x = "output" /\ kernel \in Writers)
    BY <1>2, <2>1, TouchesInputs
  <2>. QED
    BY <1>3, <2>2
<1>6. policy = "mixed" => Touches(kernel) \cap Foreign \subseteq ToSet(PhaseTensors(kernel))
  BY <1>2, TouchesPhase
<1>7. \A x : Pending(x) => policy # "mixed" /\ (x \in Inputs \/ (x = "output" /\ Wrote(attempted')))
  BY <1>1, <1>2, <1>4 DEF Pending
<1>. QED
  BY <1>5, <1>6, <1>7

\* Enqueue: what it leaves of the queue, the counters and the types.
LEMMA EnqueueStep ==
  ASSUME IInv, Enqueue
  PROVE  \E kernel, tried, retains :
          /\ kernel = Head(todo)[2] /\ tried = attempted \cup {kernel} /\ attempted' = tried
          /\ retains = IF policy = "mixed" THEN Each("retain", PhaseTensors(kernel)) ELSE <<>>
          /\ At("enqueue") /\ UNCHANGED <<job, policy, held, memory, launches>>
          /\ \/ Go
             \/ Raise(Head(todo), retains \o Finish(tried))
          /\ queue' \in Seq(Kernels \cup {"wait"})
          /\ ToSet(queue') \subseteq ToSet(queue) \cup {kernel}
          /\ counter' \in [output : Nat, offsets : Nat, expected : Nat, writes : Nat]
          /\ counter'.output = counter.output
          /\ counter'.writes = counter.writes
               + IF tried \cap Writers # {} /\ attempted \cap Writers = {} THEN 1 ELSE 0
<1> DEFINE kernel == Head(todo)[2]
           tried == attempted \cup {kernel}
           retains == IF policy = "mixed" THEN Each("retain", PhaseTensors(kernel)) ELSE <<>>
           submitted == IF device.capturing THEN queue ELSE Append(queue, kernel)
<1>1. /\ At("enqueue") /\ attempted' = tried
      /\ UNCHANGED <<job, policy, held, memory, launches>>
      /\ Go \/ Raise(Head(todo), retains \o Finish(tried))
  BY DEF Enqueue
<1>2. queue' \in {queue, submitted}
  BY DEF Enqueue
<1>3. counter' = [counter EXCEPT !.writes =
                     @ + IF kernel \in Writers /\ attempted \cap Writers = {} THEN 1 ELSE 0]
  BY DEF Enqueue
<1>4. queue \in Seq(Kernels \cup {"wait"})
      /\ counter \in [output : Nat, offsets : Nat, expected : Nat, writes : Nat]
  BY DEF IInv, CallType, StoreType
<1>5. kernel \in Kernels
  BY <1>1, EnqueuedKernel
<1>6. /\ queue' \in Seq(Kernels \cup {"wait"})
      /\ ToSet(queue') \subseteq ToSet(queue) \cup {kernel}
  <2> DEFINE S == Kernels \cup {"wait"}
  <2>1. queue \in Seq(S) /\ kernel \in S
    BY <1>4, <1>5
  <2> HIDE DEF S, kernel
  <2>2. Append(queue, kernel) \in Seq(S) /\ ToSet(Append(queue, kernel)) = ToSet(queue) \cup {kernel}
    BY <2>1, Appended
  <2>3. queue' = queue \/ queue' = Append(queue, kernel)
    BY <1>2
  <2>4. queue' \in Seq(S) /\ ToSet(queue') \subseteq ToSet(queue) \cup {kernel}
    BY <2>1, <2>2, <2>3
  <2>. QED
    BY <2>4 DEF S
<1>7. tried \cap Writers # {} /\ attempted \cap Writers = {}
        <=> kernel \in Writers /\ attempted \cap Writers = {}
  OBVIOUS
<1> HIDE DEF kernel
<1>8. /\ counter' \in [output : Nat, offsets : Nat, expected : Nat, writes : Nat]
      /\ counter'.output = counter.output
      /\ counter'.writes = counter.writes
           + IF tried \cap Writers # {} /\ attempted \cap Writers = {} THEN 1 ELSE 0
  <2>1. CASE kernel \in Writers /\ attempted \cap Writers = {}
    <3>1. counter' = [counter EXCEPT !.writes = @ + 1]
      BY <1>3, <2>1
    <3>. QED
      BY <1>4, <1>7, <2>1, <3>1
  <2>2. CASE ~(kernel \in Writers /\ attempted \cap Writers = {})
    <3>1. counter' = [counter EXCEPT !.writes = @ + 0]
      BY <1>3, <2>2
    <3>. QED
      BY <1>4, <1>7, <2>2, <3>1
  <2>. QED
    BY <2>1, <2>2
<1>9. kernel = Head(todo)[2]
  BY DEF kernel
<1>. QED
  BY <1>1, <1>6, <1>8, <1>9

\* Enqueue: the kernel is on its way and the body goes on.
LEMMA EnqueueGoes ==
  ASSUME IInv, At("enqueue"), NEW kernel, kernel = Head(todo)[2], Go,
         attempted' = attempted \cup {kernel},
         UNCHANGED <<job, policy, held, memory, launches>>,
         queue' \in Seq(Kernels \cup {"wait"}), ToSet(queue') \subseteq ToSet(queue) \cup {kernel},
         counter' \in [output : Nat, offsets : Nat, expected : Nat, writes : Nat],
         counter'.output = counter.output,
         counter'.writes = counter.writes
           + IF attempted' \cap Writers # {} /\ attempted \cap Writers = {} THEN 1 ELSE 0
  PROVE  IInv'
<1>0. CallType /\ StoreType /\ PathInv /\ BodyInv /\ LeaseInv /\ MemoryInv
      /\ CountInv /\ ErrorInv /\ RefusalInv
  BY DEF IInv
<1>1. /\ mode = "body" /\ todo # <<>> /\ Head(todo)[1] = "enqueue"
      /\ mode' = "body" /\ todo' = Tail(todo) /\ log' = log
  BY DEF At, Go
<1>2. /\ kernel \in Kernels /\ log.errors = <<>>
      /\ policy = "none" => /\ job.path # "prepared" /\ (kernel = "fixed" <=> job.path = "fixed")
                            /\ job.path = "fixed" => attempted = {}
      /\ policy \in {"warp", "cta"} => kernel = policy /\ attempted \subseteq {policy}
      /\ policy = "mixed" => /\ kernel \in Phases /\ attempted \subseteq Phases
                             /\ \A x : ~Leads(todo, 1, x)
                             /\ \A x \in ToSet(PhaseTensors(kernel)) : Leads(Tail(todo), 1, x)
  BY EnqueuedKernel
<1>3. /\ policy # "mixed" =>
           \A x \in Touches(kernel) \cap Foreign :
              x \in Inputs \/ (x = "output" /\ Wrote(attempted'))
      /\ policy = "mixed" => Touches(kernel) \cap Foreign \subseteq ToSet(PhaseTensors(kernel))
      /\ \A x : Pending(x) => policy # "mixed" /\ (x \in Inputs \/ (x = "output" /\ Wrote(attempted')))
  BY EnqueueCovers
<1>4. /\ todo \in Seq(BodySteps) /\ Tail(todo) \in Seq(BodySteps)
      /\ policy \in {"warp", "cta"} => todo = <<<<"enqueue", policy>>>>
      /\ policy = "mixed" => PhaseShape(todo)
  <2>1. todo \in Seq(BodySteps)
    BY <1>0, <1>1, HeadOfBody
  <2>2. Tail(todo) \in Seq(BodySteps)
    BY <1>1, <2>1, Rest
  <2>. QED
    BY <1>0, <1>1, <2>1, <2>2, HeadOfBody
<1>5. CallType'
  BY <1>0, <1>1, <1>2, <1>4 DEF CallType
<1>6. StoreType' /\ PathInv'
  BY <1>0, <1>1 DEF StoreType, PathInv
<1>7. BodyInv'
  <2>1. ASSUME policy = "none"
        PROVE  BodyInv'
    <3>1. /\ Tail(todo) \in Seq(Allowed)
          /\ \A i \in DOMAIN Tail(todo) : Tail(todo)[i][1] # "advance"
          /\ job.path = "reduce" =>
               /\ CompileFirst(Tail(todo))
               /\ Has(Tail(todo), "compile") => Head(todo)[1] = "compile"
          /\ job.path = "fixed" => todo = Tail(Tail(FixedBody))
      BY <1>0, <1>1, <2>1, TailOfBody
    <3>2. Allowed' = Allowed
      BY DEF Allowed
    <3>3. job.path = "fixed" => todo' = <<>> /\ attempted' = {"fixed"}
      BY <1>1, <1>2, <2>1, <3>1, FixedSteps
    <3>4. ~Has(Tail(todo), "compile") \/ job.path # "reduce"
      BY <1>1, <3>1
    <3>. QED
      BY <1>1, <1>2, <2>1, <3>1, <3>2, <3>3, <3>4 DEF BodyInv
  <2>2. ASSUME policy \in {"warp", "cta"}
        PROVE  BodyInv'
    <3>1. Tail(<<<<"enqueue", policy>>>>) = <<>>
      OBVIOUS
    <3>2. todo' = <<>> /\ attempted' \subseteq {policy}
      BY <1>1, <1>2, <1>4, <2>2, <3>1
    <3>. QED
      BY <1>1, <2>2, <3>2 DEF BodyInv
  <2>3. ASSUME policy = "mixed"
        PROVE  BodyInv'
    <3>1. PhaseShape(Tail(todo))
      BY <1>1, <1>4, <2>3, ShapeOfRest
    <3>. QED
      BY <1>1, <1>2, <2>3, <3>1 DEF BodyInv
  <2>. QED
    BY <1>0, <2>1, <2>2, <2>3 DEF CallType
<1>8. LeaseInv'
  BY <1>1 DEF LeaseInv
<1>9. MemoryInv'
  <2>2. Inputs' = Inputs /\ attempted' # {}
    BY DEF Inputs
  <2>3. \A x : policy # "mixed" /\ (x \in Inputs \/ (x = "output" /\ Wrote(attempted'))) => Pending(x)'
    BY <1>1, <2>2 DEF Pending, Wrote
  <2>4. policy = "mixed" => \A x \in ToSet(PhaseTensors(kernel)) : Pending(x)'
    BY <1>1, <1>2 DEF Pending
  <2>5. \A x : Pending(x) => Pending(x)'
    BY <1>3, <2>3
  <2>6. \A x \in Touches(kernel) \cap Foreign : Pending(x)'
    BY <1>3, <2>3, <2>4
  <2>7. mode # "dropped" /\ log'.lost = log.lost
    BY <1>1
  <2>. QED
    BY <1>0, <2>5, <2>6, <2>7, OneQueued
<1>10. CountInv'
  <2>1. counter'.output + Cardinality(LostAdvances) + Due' = counter'.writes
    <3>1. counter.output + Cardinality(LostAdvances) + Due = counter.writes
      BY <1>0 DEF CountInv
    <3>2. Due' = Due + IF attempted' \cap Writers # {} /\ attempted \cap Writers = {} THEN 1 ELSE 0
      <4>1. attempted \subseteq attempted'
        OBVIOUS
      <4>2. /\ Due = IF attempted \cap Writers = {} THEN 0 ELSE 1
            /\ Due' = IF attempted' \cap Writers = {} THEN 0 ELSE 1
        BY <1>1 DEF Due
      <4>. QED
        BY <4>1, <4>2
    <3>3. /\ Due \in {0, 1} /\ Due' \in {0, 1} /\ counter.output \in Nat /\ counter.writes \in Nat
          /\ IsFiniteSet(LostAdvances)
      <4>1. IsFiniteSet(log.lost) /\ LostAdvances \subseteq log.lost
        BY <1>0 DEF StoreType, LostAdvances
      <4>2. IsFiniteSet(LostAdvances)
        BY <4>1, FS_Subset
      <4>. QED
        BY <1>0, <1>1, <4>2 DEF Due, StoreType
    <3>4. Cardinality(LostAdvances) \in Nat
      BY <3>3, FS_CardinalityType
    <3>. QED
      BY <3>1, <3>2, <3>3, <3>4
  <2>2. LostAdvances' = LostAdvances
    BY <1>1 DEF LostAdvances
  <2>. QED
    BY <1>0, <1>1, <2>1, <2>2 DEF CountInv
<1>11. ErrorInv'
  BY <1>0, <1>1, <1>2 DEF ErrorInv, FirstError, FirstErrorRaised
<1>12. RefusalInv'
  BY <1>0, <1>1 DEF RefusalInv, RefusalTouchesNothing
<1>. QED
  BY <1>5, <1>6, <1>7, <1>8, <1>9, <1>10, <1>11, <1>12 DEF IInv

\* Enqueue: it raises, whether the kernel was submitted or not.
LEMMA EnqueueRaises ==
  ASSUME IInv, At("enqueue"), NEW kernel, kernel = Head(todo)[2],
         NEW retains, retains = IF policy = "mixed" THEN Each("retain", PhaseTensors(kernel))
                                                    ELSE <<>>,
         Raise(Head(todo), retains \o Finish(attempted')),
         attempted' = attempted \cup {kernel},
         UNCHANGED <<job, policy, held, memory, launches>>,
         queue' \in Seq(Kernels \cup {"wait"}), ToSet(queue') \subseteq ToSet(queue) \cup {kernel},
         counter' \in [output : Nat, offsets : Nat, expected : Nat, writes : Nat],
         counter'.output = counter.output,
         counter'.writes = counter.writes
           + IF attempted' \cap Writers # {} /\ attempted \cap Writers = {} THEN 1 ELSE 0
  PROVE  IInv'
<1>0. CallType /\ StoreType /\ PathInv /\ BodyInv /\ LeaseInv /\ MemoryInv
      /\ CountInv /\ ErrorInv /\ RefusalInv
  BY DEF IInv
<1> DEFINE e == Head(todo)
<1>1. /\ mode = "body" /\ todo # <<>> /\ e[1] = "enqueue"
      /\ mode' = "finally" /\ todo' = retains \o Finish(attempted')
      /\ log' = [log EXCEPT !.errors = Append(@, e), !.body = e, !.faults = @ + 1]
  BY DEF At, Raise
<1>2. /\ kernel \in Kernels /\ log.errors = <<>>
      /\ policy = "none" => /\ job.path # "prepared" /\ (kernel = "fixed" <=> job.path = "fixed")
                            /\ job.path = "fixed" => attempted = {}
      /\ policy \in {"warp", "cta"} => kernel = policy /\ attempted \subseteq {policy}
      /\ policy = "mixed" => kernel \in Phases
  BY EnqueuedKernel
<1>3. /\ policy # "mixed" =>
           \A x \in Touches(kernel) \cap Foreign :
              x \in Inputs \/ (x = "output" /\ Wrote(attempted'))
      /\ policy = "mixed" => Touches(kernel) \cap Foreign \subseteq ToSet(PhaseTensors(kernel))
      /\ \A x : Pending(x) => policy # "mixed" /\ (x \in Inputs \/ (x = "output" /\ Wrote(attempted')))
  BY EnqueueCovers
<1>4. e \in BodySteps \cup CleanupSteps
  BY <1>0, <1>1, HeadOfBody
<1>5. /\ log'.errors = <<e>> /\ log'.body = e /\ log'.lost = log.lost
      /\ DOMAIN log' = {"errors", "body", "cleanup", "raised", "lost", "faults"}
      /\ log'.errors \in Seq(BodySteps \cup CleanupSteps)
      /\ ErrorInv'
  <2> HIDE DEF e
  <2>. QED
    BY <1>0, <1>1, <1>2, <1>4, FirstOfErrors
<1> HIDE DEF e
<1>6. /\ held \subseteq Kernels /\ launches \in Nat /\ attempted' # {}
      /\ attempted' \subseteq Kernels
      /\ job.path = "fixed" => policy = "none" /\ attempted' \subseteq {"fixed"}
  <2>1. policy # "none" => job.path = "prepared"
    BY <1>0 DEF PathInv
  <2>. QED
    BY <1>0, <1>2, <2>1 DEF CallType
<1>7. /\ todo' \in Seq(CleanupSteps)
      /\ policy = "none" => \A k \in held : <<"release", k>> \in ToSet(todo')
      /\ policy # "mixed" => \A x \in Inputs : <<"retain", x>> \in ToSet(todo')
      /\ Wrote(attempted') /\ policy # "mixed" => <<"retain", "output">> \in ToSet(todo')
      /\ policy = "mixed" => \A x \in ToSet(PhaseTensors(kernel)) : <<"retain", x>> \in ToSet(todo')
      /\ Has(todo', "advance") <=> Wrote(attempted')
      /\ AdvancesOnce(todo')
  BY <1>1, <1>2, <1>6, RaisedFinish
<1>8. CallType'
  BY <1>0, <1>1, <1>6, <1>7 DEF CallType, Modes
<1>9. StoreType' /\ PathInv'
  BY <1>0, <1>1, <1>5 DEF StoreType, PathInv
<1>10. BodyInv'
  BY <1>1 DEF BodyInv
<1>11. LeaseInv'
  <2>1. Owed' \subseteq held
    BY DEF Owed
  <2>. QED
    BY <1>1, <1>7, <2>1 DEF LeaseInv
<1>12. MemoryInv'
  <2>2. \A x : <<"retain", x>> \in ToSet(todo') => Pending(x)'
    BY <1>1 DEF Pending
  <2>3. \A x : Pending(x) => Pending(x)'
    BY <1>3, <1>7, <2>2
  <2>4. \A x \in Touches(kernel) \cap Foreign : Pending(x)'
    BY <1>3, <1>7, <2>2
  <2>5. mode # "dropped" /\ log'.lost = log.lost
    BY <1>1, <1>5
  <2>. QED
    BY <1>0, <2>3, <2>4, <2>5, OneQueued
<1>13. CountInv'
  <2>1. counter'.output + Cardinality(LostAdvances) + Due' = counter'.writes
    <3>1. counter.output + Cardinality(LostAdvances) + Due = counter.writes
      BY <1>0 DEF CountInv
    <3>2. Due' = Due + IF attempted' \cap Writers # {} /\ attempted \cap Writers = {} THEN 1 ELSE 0
      <4>1. attempted \subseteq attempted'
        OBVIOUS
      <4>2. /\ Due = IF attempted \cap Writers = {} THEN 0 ELSE 1
            /\ Due' = IF attempted' \cap Writers = {} THEN 0 ELSE 1
        BY <1>1, <1>7 DEF Due, Wrote
      <4>. QED
        BY <4>1, <4>2
    <3>3. /\ Due \in {0, 1} /\ Due' \in {0, 1} /\ counter.output \in Nat /\ counter.writes \in Nat
          /\ IsFiniteSet(LostAdvances)
      <4>1. IsFiniteSet(log.lost) /\ LostAdvances \subseteq log.lost
        BY <1>0 DEF StoreType, LostAdvances
      <4>2. IsFiniteSet(LostAdvances)
        BY <4>1, FS_Subset
      <4>. QED
        BY <1>0, <1>1, <4>2 DEF Due, StoreType
    <3>4. Cardinality(LostAdvances) \in Nat
      BY <3>3, FS_CardinalityType
    <3>. QED
      BY <3>1, <3>2, <3>3, <3>4
  <2>2. LostAdvances' = LostAdvances
    BY <1>5 DEF LostAdvances
  <2>3. <<"advance", launches>> \notin log.lost
    BY <1>0, <1>1 DEF CountInv
  <2>4. \A i \in DOMAIN todo' : todo'[i][1] = "advance" =>
          /\ todo'[i] = <<"advance", launches>> /\ todo'[i] \notin log'.lost
          /\ \A j \in DOMAIN todo' : todo'[j][1] = "advance" => j = i
    BY <1>5, <1>7, <2>3 DEF AdvancesOnce
  <2>5. \A x \in LostAdvances : x = <<"advance", x[2]>> /\ x[2] \in 0..launches
    BY <1>0 DEF CountInv
  <2>6. \A x \in LostAdvances' : x = <<"advance", x[2]>> /\ x[2] \in 0..launches'
    BY <1>1, <2>2, <2>5
  <2>7. counter'.output + Cardinality(LostAdvances') + Due' = counter'.writes
    BY <2>1, <2>2
  <2>8. mode' = "finally" /\ mode' # "body"
    BY <1>1
  <2>. QED
    BY <2>4, <2>6, <2>7, <2>8 DEF CountInv
<1>14. RefusalInv'
  BY <1>0, <1>1, <1>5 DEF RefusalInv, RefusalTouchesNothing
<1>. QED
  BY <1>5, <1>8, <1>9, <1>10, <1>11, <1>12, <1>13, <1>14 DEF IInv

\* Enqueue.
LEMMA EnqueueKeeps ==
  ASSUME IInv, Enqueue
  PROVE  IInv'
<1>1. PICK kernel, tried, retains :
          /\ kernel = Head(todo)[2] /\ tried = attempted \cup {kernel} /\ attempted' = tried
          /\ retains = IF policy = "mixed" THEN Each("retain", PhaseTensors(kernel)) ELSE <<>>
          /\ At("enqueue") /\ UNCHANGED <<job, policy, held, memory, launches>>
          /\ \/ Go
             \/ Raise(Head(todo), retains \o Finish(tried))
          /\ queue' \in Seq(Kernels \cup {"wait"})
          /\ ToSet(queue') \subseteq ToSet(queue) \cup {kernel}
          /\ counter' \in [output : Nat, offsets : Nat, expected : Nat, writes : Nat]
          /\ counter'.output = counter.output
          /\ counter'.writes = counter.writes
               + IF tried \cap Writers # {} /\ attempted \cap Writers = {} THEN 1 ELSE 0
  BY EnqueueStep
<1>2. CASE Go
  BY <1>1, <1>2, EnqueueGoes
<1>3. CASE Raise(Head(todo), retains \o Finish(tried))
  BY <1>1, <1>3, EnqueueRaises
<1>. QED
  BY <1>1, <1>2, <1>3

\* A step of a cleanup that raises: it is lost, and the first error is kept.
LEMMA SlipStep ==
  ASSUME StoreType, mode \in {"body", "finally"}, Slip,
         Head(todo) \in BodySteps \cup CleanupSteps
  PROVE  /\ log'.errors \in Seq(BodySteps \cup CleanupSteps) /\ log'.errors # <<>>
         /\ log'.lost = log.lost \cup {Head(todo)} /\ log'.body = log.body
         /\ DOMAIN log' = {"errors", "body", "cleanup", "raised", "lost", "faults"}
         /\ log.cleanup = FirstError => log'.cleanup = FirstError'
         /\ Raised = FirstError /\ (log.errors = <<>> => log.body = NoError /\ log.cleanup = NoError)
              => Raised' = FirstError'
<1> DEFINE e == Head(todo)
<1>1. log' = [log EXCEPT !.errors = Append(@, e), !.faults = @ + 1, !.lost = @ \cup {e},
                         !.cleanup = IF @ = NoError THEN e ELSE @]
  BY DEF Slip
<1>2. /\ DOMAIN log = {"errors", "body", "cleanup", "raised", "lost", "faults"}
      /\ log.errors \in Seq(BodySteps \cup CleanupSteps)
  BY DEF StoreType
<1>3. FirstError = NoError <=> log.errors = <<>>
  BY StepsAreErrors
<1>4. e \in BodySteps \cup CleanupSteps /\ e # NoError
  BY DEF BodySteps, CleanupSteps, NoError
<1> HIDE DEF e
<1>5. /\ log'.errors = Append(log.errors, e) /\ log'.lost = log.lost \cup {e}
      /\ log'.body = log.body /\ log'.cleanup = (IF log.cleanup = NoError THEN e ELSE log.cleanup)
      /\ DOMAIN log' = {"errors", "body", "cleanup", "raised", "lost", "faults"}
  BY <1>1, <1>2
<1>6. /\ Append(log.errors, e) \in Seq(BodySteps \cup CleanupSteps)
      /\ Append(log.errors, e) # <<>>
      /\ Head(Append(log.errors, e)) = IF log.errors = <<>> THEN e ELSE Head(log.errors)
  <2> DEFINE S == BodySteps \cup CleanupSteps
  <2>1. log.errors \in Seq(S) /\ e \in S
    BY <1>2, <1>4
  <2> HIDE DEF S
  <2>2. /\ Append(log.errors, e) \in Seq(S) /\ Append(log.errors, e) # <<>>
        /\ Head(Append(log.errors, e)) = IF log.errors = <<>> THEN e ELSE Head(log.errors)
    BY <2>1, Appended
  <2>. QED
    BY <2>2 DEF S
<1>7. FirstError' = IF log.errors = <<>> THEN e ELSE FirstError
  BY <1>5, <1>6 DEF FirstError
<1>8. log.cleanup = FirstError => log'.cleanup = FirstError'
  BY <1>3, <1>5, <1>7
<1>9. Raised = FirstError /\ (log.errors = <<>> => log.body = NoError /\ log.cleanup = NoError)
        => Raised' = FirstError'
  BY <1>3, <1>4, <1>5, <1>7 DEF Raised
<1>. QED
  BY <1>5, <1>6, <1>8, <1>9 DEF e

\* Retain, Advance, Release: a step of the cleanup, done or lost.
LEMMA CleanupKeeps ==
  ASSUME IInv, mode = "finally", todo # <<>>, todo' = Tail(todo),
         UNCHANGED <<job, mode, policy, attempted, queue, launches>>,
         log' = log \/ Slip,
         held' \subseteq held, Head(todo)[1] = "release" =>
                                 Head(todo)[2] \notin held' \/ Head(todo) \in log'.lost,
         memory' \in [copied : {memory.copied}, uploads : {memory.uploads},
                      recorded : SUBSET Tensors, reused : {memory.reused}],
         memory.recorded \subseteq memory'.recorded,
         Head(todo)[1] = "retain" =>
            Head(todo)[2] \in memory'.recorded \/ Head(todo) \in log'.lost,
         counter' \in [output : Nat, offsets : Nat, expected : Nat, writes : Nat],
         counter'.writes = counter.writes,
         counter'.output = counter.output
           + IF Head(todo)[1] = "advance" /\ log' = log THEN 1 ELSE 0,
         Head(todo)[1] = "advance" => log' = log \/ Slip
  PROVE  IInv'
<1>0. CallType /\ StoreType /\ PathInv /\ BodyInv /\ LeaseInv /\ MemoryInv
      /\ CountInv /\ ErrorInv /\ RefusalInv
  BY DEF IInv
<1> DEFINE e == Head(todo)
<1>1. todo \in Seq(CleanupSteps)
  BY <1>0 DEF CallType
<1>2. /\ Tail(todo) \in Seq(CleanupSteps) /\ e = todo[1] /\ e \in CleanupSteps
      /\ \A i \in DOMAIN Tail(todo) : i + 1 \in DOMAIN todo /\ Tail(todo)[i] = todo[i + 1]
      /\ DOMAIN todo = 1..Len(todo) /\ Len(todo) >= 1 /\ Len(todo) \in Nat
      /\ DOMAIN Tail(todo) = 1..(Len(todo) - 1)
      /\ \A i \in 1..(Len(todo) - 1) : Tail(todo)[i] = todo[i + 1]
      /\ ToSet(todo) = {e} \cup ToSet(Tail(todo))
  BY <1>1, Rest
<1>3. e = <<e[1], e[2]>>
  BY <1>2 DEF CleanupSteps
<1>4. /\ log.lost \subseteq log'.lost /\ log'.lost \subseteq log.lost \cup {e}
      /\ log' # log => e \in log'.lost
      /\ log'.body = log.body /\ log'.errors \in Seq(BodySteps \cup CleanupSteps)
      /\ DOMAIN log' = {"errors", "body", "cleanup", "raised", "lost", "faults"}
      /\ log' # log => log'.errors # <<>>
      /\ Raised' = FirstError'
  <2>1. CASE log' = log
    BY <1>0, <2>1 DEF StoreType, ErrorInv, Raised, FirstError
  <2>2. CASE Slip
    BY <1>0, <1>2, <2>2, SlipStep DEF ErrorInv
  <2>. QED
    BY <2>1, <2>2
<1>5. CallType'
  BY <1>0, <1>2 DEF CallType
<1>6. StoreType'
  <2>1. IsFiniteSet(log'.lost)
    <3>1. IsFiniteSet(log.lost \cup {e})
      BY <1>0, FS_AddElement DEF StoreType
    <3>. QED
      BY <1>4, <3>1, FS_Subset
  <2>2. memory' \in [copied : BOOLEAN, uploads : SUBSET Tensors,
                     recorded : SUBSET Tensors, reused : SUBSET Tensors]
    BY <1>0 DEF StoreType
  <2>. QED
    BY <1>0, <1>4, <2>1, <2>2 DEF StoreType
<1>7. PathInv' /\ BodyInv'
  BY <1>0 DEF PathInv, BodyInv
<1>8. LeaseInv'
  <2>1. SUFFICES ASSUME policy = "none", NEW k \in Owed'
                 PROVE  <<"release", k>> \in ToSet(todo')
    BY DEF LeaseInv
  <2>2. k \in held /\ k \in held' /\ <<"release", k>> \notin log'.lost
    BY DEF Owed
  <2>3. k \in Owed
    BY <1>4, <2>2 DEF Owed
  <2>4. <<"release", k>> \in ToSet(todo)
    BY <1>0, <2>1, <2>3 DEF LeaseInv
  <2>5. <<"release", k>> # e
    <3>1. SUFFICES ASSUME e = <<"release", k>>
                   PROVE  FALSE
      OBVIOUS
    <3>2. e[1] = "release" /\ e[2] = k
      BY <3>1
    <3> HIDE DEF e
    <3>3. k \notin held' \/ e \in log'.lost
      BY <3>2 DEF e
    <3>. QED
      BY <2>2, <3>1, <3>3
  <2>. QED
    BY <1>2, <2>4, <2>5
<1>9. MemoryInv'
  <2>1. ASSUME NEW x, Pending(x)
        PROVE  x \in memory'.recorded \/ <<"retain", x>> \in log'.lost \/ Pending(x)'
    <3>1. <<"retain", x>> \in ToSet(todo)
      BY <2>1 DEF Pending
    <3>2. CASE <<"retain", x>> = e
      <4>1. e[1] = "retain" /\ e[2] = x
        BY <3>2
      <4>2. x \in memory'.recorded \/ e \in log'.lost
        BY <4>1
      <4>. QED
        BY <3>2, <4>2
    <3>3. CASE <<"retain", x>> \in ToSet(Tail(todo))
      BY <3>3 DEF Pending
    <3>. QED
      BY <1>2, <3>1, <3>2, <3>3
  <2>2. memory'.reused = memory.reused
    OBVIOUS
  <2>. QED
    BY <1>0, <1>4, <2>1, <2>2, NothingQueued
<1>10. CountInv'
  <2>1. /\ counter.output + Cardinality(LostAdvances) + Due = counter.writes
        /\ \A x \in LostAdvances : x = <<"advance", x[2]>> /\ x[2] \in 0..launches
        /\ \A i \in DOMAIN todo : todo[i][1] = "advance" =>
             /\ todo[i] = <<"advance", launches>> /\ todo[i] \notin log.lost
             /\ \A j \in DOMAIN todo : todo[j][1] = "advance" => j = i
    BY <1>0 DEF CountInv
  <2>2. 1 \in DOMAIN todo /\ launches \in Nat
    BY <1>0, <1>2 DEF CallType
  <2>f. /\ IsFiniteSet(LostAdvances) /\ Cardinality(LostAdvances) \in Nat
        /\ counter.output \in Nat /\ counter.writes \in Nat
    <3>1. IsFiniteSet(log.lost) /\ LostAdvances \subseteq log.lost
      BY <1>0 DEF StoreType, LostAdvances
    <3>2. IsFiniteSet(LostAdvances)
      BY <3>1, FS_Subset
    <3>3. Cardinality(LostAdvances) \in Nat
      BY <3>2, FS_CardinalityType
    <3>. QED
      BY <1>0, <3>2, <3>3 DEF StoreType
  <2>3. CASE e[1] = "advance"
    <3>1. e = <<"advance", launches>> /\ e \notin log.lost
      BY <1>2, <2>1, <2>2, <2>3
    <3>2. \A j \in DOMAIN todo : todo[j][1] = "advance" => j = 1
      BY <1>2, <2>1, <2>2, <2>3
    <3>3. \A i \in DOMAIN todo' : todo'[i][1] # "advance"
      <4>1. \A i \in DOMAIN todo' : i + 1 # 1
        BY <1>2
      <4>. QED
        BY <1>2, <3>2, <4>1
    <3>4. Due = 1 /\ Due' = 0
      BY <1>2, <2>2, <2>3, <3>3 DEF Due, Has
    <3>5. \A x \in LostAdvances' : x = <<"advance", x[2]>> /\ x[2] \in 0..launches
      <4>1. \A x \in LostAdvances' : x \in LostAdvances \/ x = e
        BY <1>4 DEF LostAdvances
      <4>2. launches \in 0..launches
        BY <2>2
      <4>3. ASSUME NEW x, x = e
            PROVE  x = <<"advance", x[2]>> /\ x[2] \in 0..launches
        <5>1. x = <<"advance", launches>>
          BY <3>1, <4>3
        <5>2. x[2] = launches
          BY <5>1
        <5>. QED
          BY <4>2, <5>1, <5>2
      <4>. QED
        BY <2>1, <4>1, <4>3
    <3>6. CASE log' = log
      <4>1. LostAdvances' = LostAdvances
        BY <3>6 DEF LostAdvances
      <4>2. counter'.output = counter.output + 1
        BY <2>3, <3>6
      <4>3. counter'.output + Cardinality(LostAdvances) + 0 = counter.writes
        BY <2>1, <2>f, <3>4, <4>2
      <4>. QED
        BY <3>3, <3>4, <3>5, <4>1, <4>3 DEF CountInv
    <3>7. CASE log' # log
      <4>1. LostAdvances' = LostAdvances \cup {e}
        BY <1>4, <2>3, <3>7 DEF LostAdvances
      <4>2. e \notin LostAdvances
        BY <3>1 DEF LostAdvances
      <4>3. Cardinality(LostAdvances \cup {e}) = Cardinality(LostAdvances) + 1
        BY <2>f, <4>2, FS_AddElement
      <4>4. counter'.output = counter.output
        BY <1>0, <3>7 DEF StoreType
      <4>5. counter'.output + Cardinality(LostAdvances') + 0 = counter.writes
        BY <2>1, <2>f, <3>4, <4>1, <4>3, <4>4
      <4>. QED
        BY <3>3, <3>4, <3>5, <4>5 DEF CountInv
    <3>. QED
      BY <3>6, <3>7
  <2>4. CASE e[1] # "advance"
    <3>1. LostAdvances' = LostAdvances
      BY <1>4, <2>4 DEF LostAdvances
    <3>2. counter'.output = counter.output
      BY <1>0, <2>4 DEF StoreType
    <3>3. Due' = Due
      <4>1. Has(todo, "advance") => Has(todo', "advance")
        <5>1. SUFFICES ASSUME NEW i \in DOMAIN todo, todo[i][1] = "advance"
                       PROVE  Has(todo', "advance")
          BY DEF Has
        <5>2. i # 1
          BY <1>2, <2>4, <5>1
        <5>3. i - 1 \in DOMAIN todo' /\ todo'[i - 1] = todo[i]
          BY <1>2, <5>2
        <5>. QED
          BY <5>1, <5>3 DEF Has
      <4>2. Has(todo', "advance") => Has(todo, "advance")
        BY <1>2 DEF Has
      <4>. QED
        BY <4>1, <4>2 DEF Due
    <3>4. \A i \in DOMAIN todo' : todo'[i][1] = "advance" =>
            /\ todo'[i] = <<"advance", launches>> /\ todo'[i] \notin log'.lost
            /\ \A j \in DOMAIN todo' : todo'[j][1] = "advance" => j = i
      <4>1. SUFFICES ASSUME NEW i \in DOMAIN todo', todo'[i][1] = "advance"
                     PROVE  /\ todo'[i] = <<"advance", launches>> /\ todo'[i] \notin log'.lost
                            /\ \A j \in DOMAIN todo' : todo'[j][1] = "advance" => j = i
        OBVIOUS
      <4>2. i + 1 \in DOMAIN todo /\ todo'[i] = todo[i + 1]
        BY <1>2
      <4>3. todo[i + 1] = <<"advance", launches>> /\ todo[i + 1] \notin log.lost
        BY <2>1, <4>1, <4>2
      <4>4. todo'[i] \notin log'.lost
        BY <1>4, <2>4, <4>1, <4>2, <4>3
      <4>5. ASSUME NEW j \in DOMAIN todo', todo'[j][1] = "advance"
            PROVE  j = i
        <5>1. j + 1 \in DOMAIN todo /\ todo[j + 1][1] = "advance"
          BY <1>2, <4>5
        <5>2. j + 1 = i + 1
          BY <2>1, <4>1, <4>2, <5>1
        <5>. QED
          BY <1>2, <5>2
      <4>. QED
        BY <4>2, <4>3, <4>4, <4>5
    <3>. QED
      BY <2>1, <3>1, <3>2, <3>3, <3>4 DEF CountInv
  <2>. QED
    BY <2>3, <2>4
<1>11. ErrorInv'
  BY <1>0, <1>4 DEF ErrorInv, FirstErrorRaised
<1>12. RefusalInv'
  <2>1. memory'.copied = memory.copied /\ memory'.uploads = memory.uploads
    OBVIOUS
  <2>. QED
    BY <1>0, <1>4, <2>1 DEF RefusalInv, RefusalTouchesNothing
<1>. QED
  BY <1>5, <1>6, <1>7, <1>8, <1>9, <1>10, <1>11, <1>12 DEF IInv

\* Retain in a body: a phase of mixed() records what its kernel touches.
LEMMA PhaseRetainKeeps ==
  ASSUME IInv, mode = "body", Retain
  PROVE  IInv'
<1>0. CallType /\ StoreType /\ PathInv /\ BodyInv /\ LeaseInv /\ MemoryInv
      /\ CountInv /\ ErrorInv /\ RefusalInv
  BY DEF IInv
<1> DEFINE e == Head(todo)
<1>1. /\ todo # <<>> /\ e[1] = "retain" /\ todo' = Tail(todo)
      /\ UNCHANGED <<job, mode, policy, held, attempted, counter, queue, launches>>
      /\ \/ memory' = [memory EXCEPT !.recorded = @ \cup {e[2]}] /\ UNCHANGED log
         \/ Slip /\ UNCHANGED memory
  BY DEF Retain, In
<1>2. /\ todo \in Seq(BodySteps) /\ e = todo[1] /\ e \in BodySteps /\ policy = "mixed"
      /\ PhaseShape(todo)
  BY <1>0, <1>1, HeadOfBody
<1>3. e = <<"retain", e[2]>> /\ e[2] \in Tensors
  BY <1>1, <1>2 DEF BodySteps
<1>4. Tail(todo) \in Seq(BodySteps) /\ PhaseShape(Tail(todo)) /\ Ends(Tail(todo), 1)
  <2>1. Tail(todo) \in Seq(BodySteps)
    BY <1>1, <1>2, Rest
  <2>2. PhaseShape(Tail(todo)) /\ Ends(Tail(todo), 1)
    BY <1>1, <1>2, ShapeOfRest
  <2>. QED
    BY <2>1, <2>2
<1>5. \A x : Leads(todo, 1, x) => <<"retain", x>> = e \/ Leads(Tail(todo), 1, x)
  <2>1. SUFFICES ASSUME NEW x, Leads(todo, 1, x), <<"retain", x>> # e
                 PROVE  Leads(Tail(todo), 1, x)
    OBVIOUS
  <2>2. 1 \in Nat /\ 1 >= 1 /\ 1 + 1 = 2
    OBVIOUS
  <2>3. Leads(todo, 2, x)
    BY <1>1, <1>2, <2>1, <2>2, LeadsOn
  <2>4. Leads(todo, 1 + 1, x) => Leads(Tail(todo), 1, x)
    BY <1>1, <1>2, <2>2, LeadsOn
  <2>. QED
    BY <2>2, <2>3, <2>4
<1>6. /\ log.lost \subseteq log'.lost /\ log'.lost \subseteq log.lost \cup {e}
      /\ log'.body = log.body /\ log'.errors \in Seq(BodySteps \cup CleanupSteps)
      /\ DOMAIN log' = {"errors", "body", "cleanup", "raised", "lost", "faults"}
      /\ log'.cleanup = FirstError'
  <2>1. log.cleanup = FirstError
    BY <1>0 DEF ErrorInv
  <2>2. CASE UNCHANGED log
    BY <1>0, <2>1, <2>2 DEF StoreType, FirstError
  <2>3. CASE Slip
    BY <1>0, <1>2, <2>1, <2>3, SlipStep
  <2>. QED
    BY <1>1, <2>2, <2>3
<1>7. /\ memory' \in [copied : {memory.copied}, uploads : {memory.uploads},
                      recorded : SUBSET Tensors, reused : {memory.reused}]
      /\ memory.recorded \subseteq memory'.recorded
      /\ e[2] \in memory'.recorded \/ e \in log'.lost
  <2>1. memory \in [copied : BOOLEAN, uploads : SUBSET Tensors,
                    recorded : SUBSET Tensors, reused : SUBSET Tensors]
    BY <1>0 DEF StoreType
  <2>2. CASE memory' = [memory EXCEPT !.recorded = @ \cup {e[2]}]
    BY <1>3, <2>1, <2>2
  <2>3. CASE Slip /\ UNCHANGED memory
    <3>1. e \in log'.lost
      BY <1>0, <1>2, <2>3, SlipStep
    <3>. QED
      BY <2>1, <2>3, <3>1
  <2>. QED
    BY <1>1, <2>2, <2>3
<1> HIDE DEF e
<1>8. CallType'
  BY <1>0, <1>1, <1>4 DEF CallType
<1>9. StoreType'
  <2>1. IsFiniteSet(log'.lost)
    <3>1. IsFiniteSet(log.lost \cup {e})
      BY <1>0, FS_AddElement DEF StoreType
    <3>. QED
      BY <1>6, <3>1, FS_Subset
  <2>2. memory' \in [copied : BOOLEAN, uploads : SUBSET Tensors,
                     recorded : SUBSET Tensors, reused : SUBSET Tensors]
    BY <1>0, <1>7 DEF StoreType
  <2>. QED
    BY <1>0, <1>1, <1>6, <2>1, <2>2 DEF StoreType
<1>10. PathInv'
  BY <1>0, <1>1 DEF PathInv
<1>11. BodyInv'
  BY <1>0, <1>1, <1>2, <1>4 DEF BodyInv
<1>12. LeaseInv'
  BY <1>1 DEF LeaseInv
<1>13. MemoryInv'
  <2>1. ASSUME NEW x, Pending(x)
        PROVE  x \in memory'.recorded \/ <<"retain", x>> \in log'.lost \/ Pending(x)'
    <3>1. Leads(todo, 1, x)
      BY <1>2, <2>1 DEF Pending
    <3>2. CASE <<"retain", x>> = e
      <4>1. e[2] = x
        BY <3>2
      <4>. QED
        BY <1>7, <3>2, <4>1
    <3>3. CASE Leads(Tail(todo), 1, x)
      BY <1>1, <1>2, <3>3 DEF Pending
    <3>. QED
      BY <1>5, <3>1, <3>2, <3>3
  <2>2. memory'.reused = memory.reused
    BY <1>7
  <2>. QED
    BY <1>0, <1>1, <1>6, <1>7, <2>1, <2>2, NothingQueued
<1>14. CountInv'
  <2>1. Due' = Due
    BY <1>1 DEF Due
  <2>2. LostAdvances' = LostAdvances
    BY <1>1, <1>6 DEF LostAdvances
  <2>3. <<"advance", launches>> \notin log'.lost
    BY <1>0, <1>1, <1>6 DEF CountInv
  <2>. QED
    BY <1>0, <1>1, <2>1, <2>2, <2>3 DEF CountInv
<1>15. ErrorInv'
  <2>1. log.body = NoError
    BY <1>0 DEF ErrorInv
  <2>. QED
    BY <1>1, <1>2, <1>4, <1>6, <2>1 DEF ErrorInv, FirstErrorRaised
<1>16. RefusalInv'
  <2>1. memory'.copied = memory.copied /\ memory'.uploads = memory.uploads
    BY <1>7
  <2>. QED
    BY <1>0, <1>1, <1>6, <2>1 DEF RefusalInv, RefusalTouchesNothing
<1>. QED
  BY <1>8, <1>9, <1>10, <1>11, <1>12, <1>13, <1>14, <1>15, <1>16 DEF IInv

\* Retain.
LEMMA RetainKeeps ==
  ASSUME IInv, Retain
  PROVE  IInv'
<1>0. CallType /\ StoreType
  BY DEF IInv
<1> DEFINE e == Head(todo)
<1>1. /\ mode \in {"body", "finally"} /\ todo # <<>> /\ e[1] = "retain" /\ todo' = Tail(todo)
      /\ UNCHANGED <<job, mode, policy, held, attempted, counter, queue, launches>>
      /\ \/ memory' = [memory EXCEPT !.recorded = @ \cup {e[2]}] /\ UNCHANGED log
         \/ Slip /\ UNCHANGED memory
  BY DEF Retain, In
<1>2. CASE mode = "body"
  BY <1>2, PhaseRetainKeeps
<1>3. CASE mode = "finally"
  <2>1. e \in CleanupSteps
    <3>1. todo \in Seq(CleanupSteps)
      BY <1>0, <1>3 DEF CallType
    <3>. QED
      BY <1>1, <3>1, Rest
  <2>2. memory \in [copied : BOOLEAN, uploads : SUBSET Tensors,
                    recorded : SUBSET Tensors, reused : SUBSET Tensors]
    BY <1>0 DEF StoreType
  <2>3. /\ memory' \in [copied : {memory.copied}, uploads : {memory.uploads},
                        recorded : SUBSET Tensors, reused : {memory.reused}]
        /\ memory.recorded \subseteq memory'.recorded
        /\ e[2] \in memory'.recorded \/ e \in log'.lost
    <3>1. CASE memory' = [memory EXCEPT !.recorded = @ \cup {e[2]}]
      <4>1. e[2] \in Tensors
        BY <1>1, <2>1 DEF CleanupSteps
      <4>. QED
        BY <2>2, <3>1, <4>1
    <3>2. CASE Slip /\ UNCHANGED memory
      <4>1. e \in log'.lost
        BY <1>0, <1>3, <2>1, <3>2, SlipStep
      <4>. QED
        BY <2>2, <3>2, <4>1
    <3>. QED
      BY <1>1, <3>1, <3>2
  <2>4. /\ counter' \in [output : Nat, offsets : Nat, expected : Nat, writes : Nat]
        /\ counter'.writes = counter.writes
        /\ counter'.output = counter.output
             + IF Head(todo)[1] = "advance" /\ log' = log THEN 1 ELSE 0
    BY <1>0, <1>1 DEF StoreType
  <2>5. log' = log \/ Slip
    BY <1>1
  <2>. QED
    BY <1>1, <1>3, <2>3, <2>4, <2>5, CleanupKeeps
<1>. QED
  BY <1>1, <1>2, <1>3

\* Release.
LEMMA ReleaseKeeps ==
  ASSUME IInv, Release
  PROVE  IInv'
<1>0. CallType /\ StoreType /\ PathInv /\ BodyInv
  BY DEF IInv
<1> DEFINE e == Head(todo)
<1>1. /\ mode \in {"body", "finally"} /\ todo # <<>> /\ e[1] = "release" /\ todo' = Tail(todo)
      /\ UNCHANGED <<job, mode, policy, attempted, memory, counter, queue, launches>>
      /\ \/ held' = held \ {e[2]} /\ UNCHANGED log
         \/ Slip /\ UNCHANGED held
  BY DEF Release, In
<1>2. mode = "finally"
  <2>1. SUFFICES ASSUME mode = "body"
                 PROVE  FALSE
    BY <1>1
  <2>2. e \in BodySteps
    BY <1>0, <1>1, <2>1, HeadOfBody
  <2>. QED
    BY <1>1, <2>2 DEF BodySteps
<1>3. e \in CleanupSteps
  <2>1. todo \in Seq(CleanupSteps)
    BY <1>0, <1>2 DEF CallType
  <2>. QED
    BY <1>1, <2>1, Rest
<1>4. held' \subseteq held /\ (e[2] \notin held' \/ e \in log'.lost)
  <2>1. CASE held' = held \ {e[2]}
    BY <2>1
  <2>2. CASE Slip /\ UNCHANGED held
    <3>1. e \in log'.lost
      BY <1>0, <1>2, <1>3, <2>2, SlipStep
    <3>. QED
      BY <2>2, <3>1
  <2>. QED
    BY <1>1, <2>1, <2>2
<1>5. /\ memory' \in [copied : {memory.copied}, uploads : {memory.uploads},
                      recorded : SUBSET Tensors, reused : {memory.reused}]
      /\ memory.recorded \subseteq memory'.recorded
  BY <1>0, <1>1 DEF StoreType
<1>6. /\ counter' \in [output : Nat, offsets : Nat, expected : Nat, writes : Nat]
      /\ counter'.writes = counter.writes
      /\ counter'.output = counter.output
           + IF Head(todo)[1] = "advance" /\ log' = log THEN 1 ELSE 0
  BY <1>0, <1>1 DEF StoreType
<1>7. log' = log \/ Slip
  BY <1>1
<1>. QED
  BY <1>1, <1>2, <1>4, <1>5, <1>6, <1>7, CleanupKeeps

\* The counters after the output version moved.
LEMMA CountersMove ==
  ASSUME NEW c \in [output : Nat, offsets : Nat, expected : Nat, writes : Nat],
         NEW n \in Nat, NEW w \in Nat,
         NEW d, d = [c EXCEPT !.output = @ + 1, !.offsets = @ + n, !.expected = @ + n,
                              !.writes = @ + w]
  PROVE  /\ d \in [output : Nat, offsets : Nat, expected : Nat, writes : Nat]
         /\ d.output = c.output + 1 /\ d.writes = c.writes + w
<1>1. /\ c.output + 1 \in Nat /\ c.offsets + n \in Nat /\ c.expected + n \in Nat
      /\ c.writes + w \in Nat
  OBVIOUS
<1>2. d = [output |-> c.output + 1, offsets |-> c.offsets + n, expected |-> c.expected + n,
           writes |-> c.writes + w]
  OBVIOUS
<1>. QED
  BY <1>1, <1>2

\* Advance in a body: the preparation learns whether the offsets share the
\* version counter of the output.
LEMMA PrepareAdvances ==
  ASSUME IInv, mode = "body", Advance
  PROVE  IInv'
<1>0. CallType /\ StoreType /\ PathInv /\ BodyInv /\ LeaseInv /\ MemoryInv
      /\ CountInv /\ ErrorInv /\ RefusalInv
  BY DEF IInv
<1> DEFINE e == Head(todo)
<1>1. /\ todo # <<>> /\ e[1] = "advance"
      /\ UNCHANGED <<job, policy, held, attempted, memory, queue, launches>>
      /\ \/ todo' = Tail(todo) /\ counter' = Advanced /\ UNCHANGED <<log, mode>>
         \/ Raise(e, <<>>) /\ UNCHANGED counter
  BY DEF Advance, In
<1>2. policy = "none" /\ todo \in Seq(Allowed) /\ e \in BodySteps /\ e = todo[1]
  BY <1>0, <1>1, HeadOfBody
<1>3. /\ Tail(todo) \in Seq(Allowed)
      /\ \A i \in DOMAIN Tail(todo) : Tail(todo)[i][1] # "advance"
      /\ job.path = "prepared" => attempted = {}
  BY <1>0, <1>1, <1>2, TailOfBody
<1>4. job.path = "prepared" /\ attempted = {} /\ held = {}
  <2>1. e \in Allowed
    BY <1>1, <1>2, Rest
  <2>2. job.path = "prepared"
    BY <1>1, <2>1 DEF Allowed
  <2>3. 1 \in DOMAIN todo
    BY <1>1, <1>2, Rest
  <2>4. held = {}
    BY <1>0, <1>1, <1>2, <2>3 DEF BodyInv
  <2>. QED
    BY <1>3, <2>2, <2>4
<1>5. log.errors = <<>> /\ log.lost = {} /\ log.body = NoError /\ log.cleanup = NoError
  BY <1>0, <1>2 DEF ErrorInv, FirstError
<1>6. counter \in [output : Nat, offsets : Nat, expected : Nat, writes : Nat]
      /\ job.share \in {0, 1}
  BY <1>0 DEF StoreType
<1>7. MemoryInv'
  <2>1. \A x : ~Pending(x)
    BY <1>2, <1>4 DEF Pending
  <2>2. CASE UNCHANGED log
    BY <1>0, <1>1, <2>1, <2>2, NothingQueued
  <2>3. CASE Raise(e, <<>>)
    <3>1. log'.lost = log.lost
      BY <1>0, <2>3 DEF Raise, StoreType
    <3>. QED
      BY <1>0, <1>1, <2>1, <3>1, NothingQueued
  <2>. QED
    BY <1>1, <2>2, <2>3
<1>8. CASE todo' = Tail(todo) /\ counter' = Advanced /\ UNCHANGED <<log, mode>>
  <2>1. /\ counter' \in [output : Nat, offsets : Nat, expected : Nat, writes : Nat]
        /\ counter'.output = counter.output + 1 /\ counter'.writes = counter.writes + 1
    <3>1. counter' = [counter EXCEPT !.output = @ + 1, !.offsets = @ + job.share,
                                     !.expected = @ + job.share, !.writes = @ + 1]
      BY <1>4, <1>8 DEF Advanced
    <3>2. job.share \in Nat /\ 1 \in Nat
      BY <1>6
    <3>. QED
      BY <1>6, <3>1, <3>2, CountersMove
  <2>2. CallType'
    <3>1. Allowed \subseteq BodySteps
      BY DEF Allowed
    <3>2. Tail(todo) \in Seq(BodySteps)
      BY <1>3, <3>1
    <3>. QED
      BY <1>0, <1>1, <1>8, <3>2 DEF CallType
  <2>3. StoreType' /\ PathInv'
    BY <1>0, <1>1, <1>8, <2>1 DEF StoreType, PathInv
  <2>4. BodyInv'
    <3>1. Allowed' = Allowed
      BY <1>1 DEF Allowed
    <3>. QED
      BY <1>1, <1>2, <1>3, <1>4, <1>8, <3>1 DEF BodyInv
  <2>5. LeaseInv'
    BY <1>8 DEF LeaseInv
  <2>6. CountInv'
    <3>1. Due = 0 /\ Due' = 0
      BY <1>1, <1>4, <1>8 DEF Due
    <3>2. LostAdvances = {} /\ LostAdvances' = {}
      BY <1>5, <1>8 DEF LostAdvances
    <3>3. counter.output + Cardinality({}) + 0 = counter.writes
      BY <1>0, <3>1, <3>2 DEF CountInv
    <3>4. Cardinality({}) = 0
      BY FS_EmptySet
    <3>5. counter'.output + Cardinality({}) + 0 = counter'.writes
      BY <1>6, <2>1, <3>3, <3>4
    <3>. QED
      BY <1>1, <1>5, <1>8, <3>1, <3>2, <3>5 DEF CountInv
  <2>7. ErrorInv'
    BY <1>0, <1>1, <1>2, <1>5, <1>8 DEF ErrorInv, FirstError, FirstErrorRaised
  <2>8. RefusalInv'
    BY <1>0, <1>1, <1>8 DEF RefusalInv, RefusalTouchesNothing
  <2>. QED
    BY <1>7, <2>2, <2>3, <2>4, <2>5, <2>6, <2>7, <2>8 DEF IInv
<1>9. CASE Raise(e, <<>>) /\ UNCHANGED counter
  <2>1. /\ log' = [log EXCEPT !.errors = Append(@, e), !.body = e, !.faults = @ + 1]
        /\ mode' = "finally" /\ todo' = <<>>
    BY <1>9 DEF Raise
  <2>2. e \in BodySteps \cup CleanupSteps
    BY <1>2
  <2>3. /\ log'.body = e /\ log'.lost = log.lost
        /\ DOMAIN log' = {"errors", "body", "cleanup", "raised", "lost", "faults"}
        /\ log'.errors \in Seq(BodySteps \cup CleanupSteps)
        /\ ErrorInv'
    <3> HIDE DEF e
    <3>. QED
      BY <1>0, <1>5, <2>1, <2>2, FirstOfErrors
  <2>4. CallType'
    <3>1. <<>> \in Seq(CleanupSteps)
      OBVIOUS
    <3>. QED
      BY <1>0, <1>1, <2>1, <3>1 DEF CallType, Modes
  <2>5. StoreType' /\ PathInv' /\ BodyInv'
    BY <1>0, <1>1, <1>9, <2>1, <2>3 DEF StoreType, PathInv, BodyInv
  <2>6. LeaseInv'
    <3>1. Owed' = {}
      BY <1>1, <1>4 DEF Owed
    <3>. QED
      BY <2>1, <3>1 DEF LeaseInv
  <2>7. CountInv'
    <3>1. Due = 0 /\ Due' = 0
      BY <1>4, <2>1 DEF Due, Has
    <3>2. LostAdvances' = LostAdvances
      BY <2>3 DEF LostAdvances
    <3>. QED
      BY <1>0, <1>1, <1>9, <2>1, <3>1, <3>2 DEF CountInv
  <2>8. RefusalInv'
    <3>1. log'.body[1] # "compile"
      BY <1>1, <2>3
    <3>2. ~(job.path \in Public /\ "capture" \in job.defects)
      BY <1>0 DEF RefusalInv
    <3>. QED
      BY <1>1, <2>1, <3>1, <3>2 DEF RefusalInv, RefusalTouchesNothing
  <2>. QED
    BY <1>7, <2>3, <2>4, <2>5, <2>6, <2>7, <2>8 DEF IInv
<1>. QED
  BY <1>1, <1>8, <1>9

\* Advance.
LEMMA AdvanceKeeps ==
  ASSUME IInv, Advance
  PROVE  IInv'
<1>0. CallType /\ StoreType
  BY DEF IInv
<1>1. /\ mode \in {"body", "finally"} /\ todo # <<>> /\ Head(todo)[1] = "advance"
      /\ UNCHANGED <<job, policy, held, attempted, memory, queue, launches>>
  BY DEF Advance, In
<1>2. CASE mode = "body"
  BY <1>2, PrepareAdvances
<1>3. CASE mode = "finally"
  <2>1. /\ todo' = Tail(todo) /\ mode' = mode
        /\ \/ counter' = Advanced /\ UNCHANGED log
           \/ Slip /\ UNCHANGED counter
    BY <1>3 DEF Advance
  <2>2. counter \in [output : Nat, offsets : Nat, expected : Nat, writes : Nat]
        /\ job.share \in {0, 1}
    BY <1>0 DEF StoreType
  <2>3. /\ counter' \in [output : Nat, offsets : Nat, expected : Nat, writes : Nat]
        /\ counter'.writes = counter.writes
        /\ counter'.output = counter.output
             + IF Head(todo)[1] = "advance" /\ log' = log THEN 1 ELSE 0
    <3>1. CASE counter' = Advanced /\ UNCHANGED log
      <4>1. PICK n \in {0, job.share} : counter' = [counter EXCEPT !.output = @ + 1,
                 !.offsets = @ + n, !.expected = @ + n, !.writes = @ + 0]
        BY <1>3, <3>1 DEF Advanced
      <4>2. n \in Nat /\ 0 \in Nat
        BY <2>2
      <4>3. /\ counter' \in [output : Nat, offsets : Nat, expected : Nat, writes : Nat]
            /\ counter'.output = counter.output + 1 /\ counter'.writes = counter.writes + 0
        BY <2>2, <4>1, <4>2, CountersMove
      <4>4. counter'.writes = counter.writes
        BY <2>2, <4>3
      <4>. QED
        BY <1>1, <3>1, <4>3, <4>4
    <3>2. CASE Slip /\ UNCHANGED counter
      <4>1. log' # log
        <5>1. Head(todo) \in CleanupSteps
          <6>1. todo \in Seq(CleanupSteps)
            BY <1>0, <1>3 DEF CallType
          <6>. QED
            BY <1>1, <6>1, Rest
        <5>2. Len(log'.errors) # Len(log.errors)
          <6>1. /\ log.errors \in Seq(BodySteps \cup CleanupSteps)
                /\ log'.errors = Append(log.errors, Head(todo))
            BY <1>0, <1>3, <3>2 DEF StoreType, Slip
          <6>2. Len(log'.errors) = Len(log.errors) + 1 /\ Len(log.errors) \in Nat
            BY <6>1
          <6>. QED
            BY <6>2
        <5>. QED
          BY <5>2
      <4>. QED
        BY <2>2, <3>2, <4>1
    <3>. QED
      BY <2>1, <3>1, <3>2
  <2>4. /\ memory' \in [copied : {memory.copied}, uploads : {memory.uploads},
                        recorded : SUBSET Tensors, reused : {memory.reused}]
        /\ memory.recorded \subseteq memory'.recorded
    BY <1>0, <1>1 DEF StoreType
  <2>5. log' = log \/ Slip
    BY <2>1
  <2>. QED
    BY <1>1, <1>3, <2>1, <2>3, <2>4, <2>5, CleanupKeeps
<1>. QED
  BY <1>1, <1>2, <1>3

\* Every step keeps the invariant.
LEMMA NextKeeps ==
  ASSUME IInv, [Next]_vars
  PROVE  IInv'
<1>1. CASE FrontDoor
  BY <1>1, FrontDoorKeeps
<1>2. CASE ValidateShapes
  BY <1>2, ValidateShapesKeeps
<1>3. CASE Plan
  BY <1>3, PlanKeeps
<1>4. CASE RefuseProgram
  BY <1>4, RefuseProgramKeeps
<1>5. CASE Compile
  BY <1>5, CompileKeeps
<1>6. CASE Lease
  BY <1>6, LeaseKeeps
<1>7. CASE Upload
  BY <1>7, UploadKeeps
<1>8. CASE Enqueue
  BY <1>8, EnqueueKeeps
<1>9. CASE EndPhase
  BY <1>9, EndPhaseKeeps
<1>10. CASE EndBody
  BY <1>10, EndBodyKeeps
<1>11. CASE Retain
  BY <1>11, RetainKeeps
<1>12. CASE Advance
  BY <1>12, AdvanceKeeps
<1>13. CASE Release
  BY <1>13, ReleaseKeeps
<1>14. CASE Conclude
  BY <1>14, ConcludeKeeps
<1>15. ASSUME NEW p \in {"warp", "cta", "mixed"}, NEW c \in BOOLEAN, Launch(p, c)
       PROVE  IInv'
  BY <1>15, LaunchKeeps
<1>16. CASE Backward
  BY <1>16, BackwardKeeps
<1>17. CASE WriteOffsets
  BY <1>17, WriteOffsetsKeeps
<1>18. CASE CompleteUpload \/ Rebind
  BY <1>18, CompleteUploadKeeps
<1>19. CASE Run
  BY <1>19, RunKeeps
<1>20. CASE Drop
  BY <1>20, DropKeeps
<1>21. ASSUME NEW x \in Foreign, Reuse(x)
       PROVE  IInv'
  BY <1>21, ReuseKeeps
<1>22. CASE UNCHANGED vars
  <2>0. CallType /\ StoreType /\ PathInv /\ BodyInv /\ LeaseInv /\ MemoryInv
        /\ CountInv /\ ErrorInv /\ RefusalInv
    BY DEF IInv
  <2>1. UNCHANGED <<job, mode, todo, policy, held, attempted, log, memory, counter, queue,
                    launches>>
    BY <1>22 DEF vars
  <2>2. CallType' /\ StoreType' /\ PathInv'
    BY <2>0, <2>1 DEF CallType, StoreType, PathInv
  <2>3. BodyInv'
    <3>1. Allowed' = Allowed
      BY <2>1 DEF Allowed
    <3>. QED
      BY <2>0, <2>1, <3>1 DEF BodyInv
  <2>4. LeaseInv'
    <3>1. Owed' = Owed
      BY <2>1 DEF Owed
    <3>. QED
      BY <2>0, <2>1, <3>1 DEF LeaseInv
  <2>5. MemoryInv'
    <3>1. Foreign' = Foreign /\ \A k : Touches(k)' = Touches(k)
      BY <2>1, SameTensors
    <3>2. \A x : Pending(x)' = Pending(x)
      BY <2>1 DEF Pending, Inputs, Wrote
    <3>3. \A k \in ToSet(queue) : \A x \in Touches(k) \cap Foreign :
            x \in memory.recorded \/ <<"retain", x>> \in log.lost \/ Pending(x)
      BY <2>0 DEF MemoryInv
    <3>4. \A k \in ToSet(queue') : \A x \in Touches(k)' \cap Foreign' :
            x \in memory'.recorded \/ <<"retain", x>> \in log'.lost \/ Pending(x)'
      BY <2>1, <3>1, <3>2, <3>3
    <3>. QED
      BY <2>0, <2>1, <3>1, <3>4 DEF MemoryInv
  <2>6. CountInv'
    <3>1. Due' = Due /\ LostAdvances' = LostAdvances
      BY <2>1 DEF Due, LostAdvances
    <3>. QED
      BY <2>0, <2>1, <3>1 DEF CountInv
  <2>7. ErrorInv'
    BY <2>0, <2>1 DEF ErrorInv, FirstError, FirstErrorRaised, Raised
  <2>8. RefusalInv'
    BY <2>0, <2>1 DEF RefusalInv, RefusalTouchesNothing
  <2>. QED
    BY <2>2, <2>3, <2>4, <2>5, <2>6, <2>7, <2>8 DEF IInv
<1>. QED
  BY <1>1, <1>2, <1>3, <1>4, <1>5, <1>6, <1>7, <1>8, <1>9, <1>10, <1>11, <1>12, <1>13, <1>14,
     <1>15, <1>16, <1>17, <1>18, <1>19, <1>20, <1>21, <1>22 DEF Next

\* The offsets of the calls are words.
LEMMA ListsAreWords ==
  /\ OffsetLists \subseteq Seq(Int) /\ I32Lists \subseteq OffsetLists
  /\ ValidLists \subseteq OffsetLists /\ CtaLists \subseteq OffsetLists
  /\ Sample \in Seq(Int) /\ Batches \subseteq Seq(Int)
<1>1. OffsetLists \subseteq Seq(Int)
  <2> DEFINE T == UNION {[1..n -> Words] : n \in 0..MaxSegments}
  <2>1. MaxSegments \in Nat /\ FirstWords \subseteq Int /\ Words \subseteq Int
    BY CallAssumption
  <2>2. T \subseteq Seq(Int)
    <3>1. SUFFICES ASSUME NEW n \in 0..MaxSegments, NEW t \in [1..n -> Words]
                   PROVE  t \in Seq(Int)
      OBVIOUS
    <3>2. n \in Nat
      BY <2>1
    <3>3. t \in [1..n -> Int]
      BY <2>1
    <3>. QED
      BY <3>2, <3>3
  <2>3. OffsetLists = {<<>>} \cup {Starting(f, t) : f \in FirstWords, t \in T}
    BY DEF OffsetLists
  <2> HIDE DEF T
  <2>4. ASSUME NEW f \in FirstWords, NEW t \in T
        PROVE  Starting(f, t) \in Seq(Int)
    <3>1. t \in Seq(Int) /\ <<f>> \in Seq(Int)
      BY <2>1, <2>2
    <3>. QED
      BY <3>1 DEF Starting
  <2>5. <<>> \in Seq(Int)
    OBVIOUS
  <2>6. ASSUME NEW S
        PROVE  (\A f \in FirstWords, t \in T : Starting(f, t) \in S)
                 => {Starting(f, t) : f \in FirstWords, t \in T} \subseteq S
    OBVIOUS
  <2>7. \A f \in FirstWords, t \in T : Starting(f, t) \in Seq(Int)
    BY <2>4
  <2> DEFINE L == {Starting(f, t) : f \in FirstWords, t \in T}
  <2>8. L \subseteq Seq(Int)
    BY <2>6, <2>7
  <2>9. OffsetLists = {<<>>} \cup L
    BY <2>3
  <2> HIDE DEF L
  <2>10. ASSUME NEW o \in OffsetLists
         PROVE  o \in Seq(Int)
    <3>1. o = <<>> \/ o \in L
      BY <2>9
    <3>. QED
      BY <3>1, <2>5, <2>8
  <2>. QED
    BY <2>10
<1>2. I32Lists \subseteq OffsetLists
  BY DEF I32Lists
<1>3. ValidLists \subseteq OffsetLists /\ CtaLists \subseteq OffsetLists
  BY <1>2 DEF ValidLists, CtaLists
<1>4. ValueCount \in Int /\ Batches \subseteq Seq(0..ValueCount)
  BY CallAssumption
<1>5. Sample \in Seq(Int)
  BY <1>4 DEF Sample
<1>6. Batches \subseteq Seq(Int)
  BY <1>4
<1>. QED
  BY <1>1, <1>2, <1>3, <1>5, <1>6

\* What every call has.
LEMMA CallsOf ==
  ASSUME NEW j \in Jobs
  PROVE  /\ DOMAIN j = {"path", "raw", "wide", "features", "recording", "kind",
                        "inference", "small", "tasks", "share", "defects"}
         /\ j.path \in Paths /\ j.raw \in Seq(Int) /\ j.share \in {0, 1}
         /\ j.kind \in {"sum", "max"} /\ (j.recording => j.path \in Public)
<1> DEFINE D == {"path", "raw", "wide", "features", "recording", "kind",
                 "inference", "small", "tasks", "share", "defects"}
<1> DEFINE Good(c) == /\ DOMAIN c = D
                      /\ c.path \in Paths /\ c.raw \in Seq(Int) /\ c.share \in {0, 1}
                      /\ c.kind \in {"sum", "max"} /\ (c.recording => c.path \in Public)
<1>1. /\ OffsetLists \subseteq Seq(Int) /\ I32Lists \subseteq Seq(Int)
      /\ ValidLists \subseteq Seq(Int) /\ CtaLists \subseteq Seq(Int)
      /\ Sample \in Seq(Int) /\ Batches \subseteq Seq(Int)
  BY ListsAreWords
<1>2. Public = {"reduce", "softmax"} /\ Paths = {"reduce", "softmax", "direct", "prepared",
                                               "tasks", "fixed"}
  BY DEF Public, Paths
<1>3. ASSUME NEW p \in Paths, NEW o \in Seq(Int), NEW f
      PROVE  Good(WithOffsets(p, o, f)) /\ WithOffsets(p, o, f).path = p
  <2>1. /\ DOMAIN Plain = D /\ Plain.share = 0 /\ Plain.recording = FALSE
        /\ Plain.kind = "sum"
    BY DEF Plain
  <2>. QED
    BY <2>1 DEF WithOffsets
<1>4. ASSUME NEW p \in Paths, NEW o \in Seq(Int), NEW f
      PROVE  Good(WideCall(p, o, f))
  BY <1>3 DEF WideCall
<1>5. ASSUME NEW o \in Seq(Int), NEW w
      PROVE  Good(CtaCall(o, w))
  <2>1. Good(WithOffsets("reduce", o, 1))
    BY <1>2, <1>3
  <2>. QED
    BY <2>1 DEF CtaCall
<1>6. ASSUME NEW o \in Seq(Int), NEW n \in {0, 1}
      PROVE  Good(PreparedCall(o, n))
  <2>1. Good(WithOffsets("prepared", o, 1))
    BY <1>2, <1>3
  <2>. QED
    BY <2>1 DEF PreparedCall
<1>7. ASSUME NEW p \in Public, NEW o \in Seq(Int), NEW w, NEW i, NEW k \in {"sum", "max"}
      PROVE  Good(RecordedCall(p, o, w, i, k))
  <2>1. Good(WithOffsets(p, o, 1)) /\ WithOffsets(p, o, 1).path \in Public
    BY <1>2, <1>3
  <2>. QED
    BY <2>1 DEF RecordedCall
<1>8. ASSUME NEW o \in Seq(Int), NEW i, NEW k \in {"sum", "max"}
      PROVE  Good(RecordedReduction(o, i, k))
  <2> HIDE DEF Good
  <2>1. "reduce" \in Public
    BY <1>2
  <2>2. Good(RecordedCall("reduce", o, FALSE, i, k))
    BY <1>7, <2>1
  <2>. QED
    BY <2>2 DEF RecordedReduction
<1>9. ASSUME NEW o \in Seq(Int), NEW t
      PROVE  Good(TasksCall(o, t))
  <2>1. Good(WithOffsets("tasks", o, 1))
    BY <1>2, <1>3
  <2>. QED
    BY <2>1 DEF TasksCall
<1>10. ASSUME NEW p \in Public \cup {"direct"}, NEW f, NEW d
       PROVE  Good(FailingCall(p, f, d))
  <2>1. Good(WithOffsets(p, Sample, f))
    BY <1>1, <1>2, <1>3
  <2>. QED
    BY <2>1 DEF FailingCall
<1>11. ASSUME NEW p \in Paths, NEW o \in Seq(Int), NEW f
       PROVE  Good(WithOffsets(p, o, f))
  BY <1>3
<1> HIDE DEF Good, D
<1>12. Good(j)
  <2> DEFINE J1 == {WideCall(p, o, f) : p \in Public, o \in OffsetLists, f \in Features}
  <2> DEFINE J2 == {WithOffsets(p, o, f) : p \in Public \cup {"direct"}, o \in I32Lists,
                                          f \in Features}
  <2> DEFINE J3 == {CtaCall(o, w) : o \in CtaLists, w \in BOOLEAN}
  <2> DEFINE J4 == {PreparedCall(o, n) : o \in Batches, n \in {0, 1}}
  <2> DEFINE J5 == {RecordedCall("softmax", o, w, i, "sum") :
                       o \in Batches, w \in BOOLEAN, i \in BOOLEAN}
  <2> DEFINE J6 == {RecordedReduction(o, i, k) :
                       o \in Batches, i \in BOOLEAN, k \in {"sum", "max"}}
  <2> DEFINE J7 == {TasksCall(o, t) : o \in ValidLists, t \in TaskLists}
  <2> DEFINE J8 == {FailingCall(p, 1, d) :
                       p \in Public, d \in {d \in SUBSET Defects : Cardinality(d) \in {1, 2}}}
  <2> DEFINE J9 == {FailingCall("direct", f, {"block"}) : f \in Features}
  <2>1. j \in J1 \cup J2 \cup J3 \cup J4 \cup J5 \cup J6 \cup J7
           \cup {WithOffsets("fixed", Sample, 1)} \cup J8 \cup J9
    BY DEF Jobs
  <2>2. j \in J1 => Good(j)
    BY <1>1, <1>2, <1>4
  <2>3. j \in J2 => Good(j)
    BY <1>1, <1>2, <1>11
  <2>4. j \in J3 => Good(j)
    BY <1>1, <1>5
  <2>5. j \in J4 => Good(j)
    BY <1>1, <1>6
  <2>6. j \in J5 => Good(j)
    BY <1>1, <1>2, <1>7
  <2>7. j \in J6 => Good(j)
    BY <1>1, <1>8
  <2>8. j \in J7 => Good(j)
    BY <1>1, <1>9
  <2>9. Good(WithOffsets("fixed", Sample, 1))
    BY <1>1, <1>2, <1>11
  <2>10. j \in J8 => Good(j)
    BY <1>10
  <2>11. j \in J9 => Good(j)
    BY <1>10
  <2> HIDE DEF J1, J2, J3, J4, J5, J6, J7, J8, J9
  <2>. QED
    BY <2>1, <2>2, <2>3, <2>4, <2>5, <2>6, <2>7, <2>8, <2>9, <2>10, <2>11
<1>. QED
  BY <1>12 DEF Good, D

\* The invariant holds at first.
LEMMA InitHolds ==
  ASSUME Init
  PROVE  IInv
<1>1. /\ DOMAIN job = {"path", "raw", "wide", "features", "recording", "kind",
                       "inference", "small", "tasks", "share", "defects"}
      /\ job.path \in Paths /\ job.raw \in Seq(Int) /\ job.share \in {0, 1}
      /\ job.recording => job.path \in Public
  BY CallsOf DEF Init
<1>2. /\ mode = IF job.path \in Public THEN "front"
                ELSE IF job.path = "fixed" THEN "plan" ELSE "shapes"
      /\ todo = <<>> /\ policy = "none" /\ held = {} /\ attempted = {} /\ queue = <<>>
      /\ launches = 0 /\ log = NoErrors
      /\ memory = [copied |-> FALSE, uploads |-> {}, recorded |-> {}, reused |-> {}]
      /\ counter = [output |-> 0, offsets |-> 0, expected |-> 0, writes |-> 0]
  BY DEF Init
<1>3. /\ log.errors = <<>> /\ log.lost = {} /\ log.body = NoError /\ log.cleanup = NoError
      /\ log.raised = NoError
      /\ DOMAIN log = {"errors", "body", "cleanup", "raised", "lost", "faults"}
  BY <1>2 DEF NoErrors
<1>4. CallType
  <2>1. <<>> \in Seq(Kernels \cup {"wait"}) /\ 0 \in Nat
    OBVIOUS
  <2>. QED
    BY <1>1, <1>2, <2>1 DEF CallType, Modes
<1>5. StoreType
  BY <1>1, <1>2, <1>3, FS_EmptySet DEF StoreType
<1>6. PathInv
  BY <1>1, <1>2 DEF PathInv
<1>7. BodyInv
  BY <1>2 DEF BodyInv
<1>8. LeaseInv
  <2>1. Owed = {}
    BY <1>2 DEF Owed
  <2>. QED
    BY <1>2, <2>1 DEF LeaseInv
<1>9. MemoryInv
  <2>1. ToSet(queue) = {}
    BY <1>2 DEF ToSet
  <2>. QED
    BY <1>2, <2>1 DEF MemoryInv
<1>10. CountInv
  <2>1. LostAdvances = {} /\ Due = 0
    BY <1>2, <1>3 DEF LostAdvances, Due
  <2>2. Cardinality({}) = 0
    BY FS_EmptySet
  <2>3. counter.output = 0 /\ counter.writes = 0
    BY <1>2
  <2>4. counter.output + Cardinality(LostAdvances) + Due = counter.writes
    BY <2>1, <2>2, <2>3
  <2>. QED
    BY <1>2, <2>1, <2>4 DEF CountInv
<1>11. ErrorInv
  BY <1>2, <1>3 DEF ErrorInv, FirstErrorRaised
<1>12. RefusalInv
  <2>1. NoError[1] # "compile"
    BY DEF NoError
  <2>2. job.path \in Public => mode = "front"
    BY <1>2
  <2>. QED
    BY <1>2, <1>3, <2>1, <2>2 DEF RefusalInv, RefusalTouchesNothing
<1>. QED
  BY <1>4, <1>5, <1>6, <1>7, <1>8, <1>9, <1>10, <1>11, <1>12 DEF IInv


-------------------------------------------------------------------------------
(* The gradients. *)

\* The rows of a segment, and those that tie with its extreme.
RowsOf(o, s) == ToSet(Reduced(o, s))
TiesOf(o, s) == {r \in RowsOf(o, s) : RowValue(r) = ExtremeOf(RowsOf(o, s))}
Extremes(o) == [s \in Segments(o) |-> ExtremeOf(RowsOf(o, s))]
TiedRows(o) == Tied(o, RowValues, Extremes(o))

\* The rows of a segment of valid offsets.
LEMMA RowsAre ==
  ASSUME NEW o \in Seq(Int), Valid(o, ValueCount), NEW s \in Segments(o)
  PROVE  /\ RowsOf(o, s) = o[s + 1]..(o[s + 2] - 1)
         /\ RowsOf(o, s) \subseteq 0..(ValueCount - 1)
         /\ o[s + 1] \in 0..ValueCount /\ o[s + 2] \in 0..ValueCount /\ o[s + 1] <= o[s + 2]
         /\ \A r \in RowsOf(o, s) : SegmentId(o, r) = s
<1>1. /\ ValueCount \in Nat /\ Len(o) \in Nat
      /\ \A i \in 1..Len(o) : o[i] \in 0..ValueCount
      /\ \A i, j \in 1..Len(o) : i <= j => o[i] <= o[j]
  BY ValidRange, PlanAssumption
<1>2. s \in Nat /\ s + 1 \in 1..Len(o) /\ s + 2 \in 1..Len(o)
  BY <1>1 DEF Segments
<1>3. o[s + 1] \in 0..ValueCount /\ o[s + 2] \in 0..ValueCount /\ o[s + 1] <= o[s + 2]
  BY <1>1, <1>2
<1>4. RowsOf(o, s) = o[s + 1]..(o[s + 2] - 1)
  <2>1. o[s + 1] \in Int /\ o[s + 2] \in Int
    BY <1>3
  <2>2. ToSet(Elements(o[s + 1], o[s + 2])) = o[s + 1]..(o[s + 2] - 1)
    BY <2>1, ElementsAre
  <2>. QED
    BY <2>2 DEF RowsOf, Reduced
<1>5. \A r \in RowsOf(o, s) : SegmentId(o, r) = s
  BY <1>4, RowOfSegment
<1>. QED
  BY <1>1, <1>3, <1>4, <1>5

\* The row of a segment is tied exactly when it ties with its extreme.
LEMMA TiedIsTies ==
  ASSUME NEW o \in Seq(Int), Valid(o, ValueCount), NEW s \in Segments(o),
         NEW row \in RowsOf(o, s)
  PROVE  row \in TiedRows(o) <=> row \in TiesOf(o, s)
<1>1. SegmentId(o, row) = s /\ row \in 0..(ValueCount - 1)
  BY RowsAre
<1>2. s < Len(o) - 1
  BY DEF Segments
<1>3. DOMAIN RowValues = 0..(ValueCount - 1) /\ RowValues[row] = RowValue(row)
  BY <1>1 DEF RowValues
<1>4. Extremes(o)[s] = ExtremeOf(RowsOf(o, s))
  BY DEF Extremes
<1>5. row \in TiedRows(o) <=> RowValues[row] = Extremes(o)[SegmentId(o, row)]
  BY <1>1, <1>2, <1>3 DEF TiedRows, Tied
<1>. QED
  BY <1>1, <1>3, <1>4, <1>5 DEF TiesOf

\* The prefix sum counts the ties of a segment, at least the row that asks.
LEMMA TieCountRight ==
  ASSUME NEW o \in Seq(Int), Valid(o, ValueCount), NEW s \in Segments(o),
         NEW row \in TiesOf(o, s)
  PROVE  TieCount(o, TiedRows(o), ValueCount, s) = Cardinality(TiesOf(o, s))
<1> DEFINE a == o[s + 1]
<1> DEFINE b == o[s + 2]
<1> DEFINE T == TiedRows(o)
<1> DEFINE between == {r \in T : a <= r /\ r < b}
<1>1. /\ RowsOf(o, s) = a..(b - 1) /\ a \in 0..ValueCount /\ b \in 0..ValueCount /\ a <= b
      /\ ValueCount \in Nat
  BY RowsAre, CallAssumption, PlanAssumption
<1>2. T \subseteq 0..(ValueCount - 1)
  BY DEF TiedRows, Tied, RowValues
<1>3. T \subseteq Int /\ IsFiniteSet(T)
  <2>1. IsFiniteSet(0..(ValueCount - 1)) /\ 0..(ValueCount - 1) \subseteq Int
    BY <1>1, FS_Interval
  <2> HIDE DEF T
  <2>2. IsFiniteSet(T)
    BY <1>2, <2>1, FS_Subset
  <2>. QED
    BY <1>2, <2>1, <2>2
<1>4. Least(Most(a, 0), ValueCount) = a /\ Least(Most(b, 0), ValueCount) = b
  <2> HIDE DEF a, b
  <2>. QED
    BY <1>1 DEF Least, Most
<1>5. TieCount(o, T, ValueCount, s)
        = Most(RunningTies(T, Least(Most(b, 0), ValueCount))
                 - RunningTies(T, Least(Most(a, 0), ValueCount)), 1)
  BY DEF TieCount
<1>6. ASSUME NEW r
      PROVE  r \in between <=> r \in TiesOf(o, s)
  <2>1. r \in RowsOf(o, s) => (r \in T <=> r \in TiesOf(o, s))
    BY TiedIsTies
  <2>2. r \in TiesOf(o, s) => r \in RowsOf(o, s)
    BY DEF TiesOf
  <2>3. r \in between => r \in RowsOf(o, s) /\ r \in T
    BY <1>1, <1>3
  <2>4. r \in RowsOf(o, s) => r >= a /\ r < b
    BY <1>1
  <2>. QED
    BY <2>1, <2>2, <2>3, <2>4
<1> HIDE DEF T
<1>7. between = TiesOf(o, s)
  BY <1>6
<1>8. RunningTies(T, b) - RunningTies(T, a) = Cardinality(between)
  <2>1. a \in Int /\ b \in Int /\ a <= b
    BY <1>1
  <2> HIDE DEF a, b
  <2>. QED
    BY <1>3, <2>1, TiesBetween
<1> DEFINE n == Cardinality(TiesOf(o, s))
<1>9. n \in Nat /\ n >= 1
  <2>1. IsFiniteSet(TiesOf(o, s))
    <3>1. between \subseteq T
      OBVIOUS
    <3>. QED
      BY <1>3, <1>7, <3>1, FS_Subset
  <2>2. n \in Nat /\ n # 0
    BY <2>1, FS_CardinalityType, FS_EmptySet
  <2>. QED
    BY <2>2
<1>10. TieCount(o, T, ValueCount, s) = Most(n, 1)
  BY <1>4, <1>5, <1>7, <1>8
<1> HIDE DEF n
<1>11. Most(n, 1) = n
  BY <1>9 DEF Most
<1>. QED
  BY <1>10, <1>11 DEF n, T

\* The gradient of every row, as the property states it.
GradientOfRow(row) ==
    LET s == {s \in Segments(job.raw) : row \in ToSet(Reduced(job.raw, s))}
        ties(t) == {r \in ToSet(Reduced(job.raw, t)) :
                      RowValue(r) = ExtremeOf(ToSet(Reduced(job.raw, t)))}
    IN IF s = {} THEN 0
       ELSE LET t == CHOOSE t \in s : TRUE
            IN IF job.kind = "sum" THEN t + 1
               ELSE IF row \in ties(t) THEN Cardinality(ties(t)) ELSE 0

\* Over the offsets of the forward, every row gets the gradient of its segment.
LEMMA GradientRight ==
  ASSUME job.raw \in Seq(Int), Valid(job.raw, ValueCount), host = job.raw,
         job.kind \in {"sum", "max"}
  PROVE  \A row \in DOMAIN Gradient(job.raw) : Gradient(job.raw)[row] = GradientOfRow(row)
<1> DEFINE o == job.raw
<1> DEFINE ids == [s \in Segments(host) |-> s + 1]
<1> DEFINE shares == [s \in Segments(host) |-> TieCount(o, TiedRows(o), ValueCount, s)]
<1>1. Extremes(o) = [s \in Segments(host) |-> ExtremeOf(ToSet(Reduced(host, s)))]
  BY DEF Extremes, RowsOf
<1>2. Gradient(o) =
        IF job.kind = "max"
        THEN [row \in DOMAIN RowValues |->
                IF row \in TiedRows(o) THEN Gather(shares, o, ValueCount)[row] ELSE 0]
        ELSE Gather(ids, o, ValueCount)
  BY <1>1 DEF Gradient, TiedRows
<1>3. DOMAIN RowValues = 0..(ValueCount - 1) /\ ValueCount \in Nat
  BY CallAssumption, PlanAssumption DEF RowValues
<1>4. DOMAIN Gather(shares, o, ValueCount) = 0..(ValueCount - 1)
      /\ DOMAIN Gather(ids, o, ValueCount) = 0..(ValueCount - 1)
  BY DEF Gather
<1>5. DOMAIN Gradient(o) = 0..(ValueCount - 1)
  <2>1. CASE job.kind = "max"
    BY <1>2, <1>3, <2>1
  <2>2. CASE job.kind # "max"
    BY <1>2, <1>4, <2>2
  <2>. QED
    BY <2>1, <2>2
<1>6. SUFFICES ASSUME NEW row \in 0..(ValueCount - 1)
               PROVE  Gradient(o)[row] = GradientOfRow(row)
  BY <1>5
<1> DEFINE S == {s \in Segments(o) : row \in RowsOf(o, s)}
<1>7. GradientOfRow(row) =
        IF S = {} THEN 0
        ELSE IF job.kind = "sum" THEN (CHOOSE t \in S : TRUE) + 1
             ELSE IF row \in TiesOf(o, CHOOSE t \in S : TRUE)
                  THEN Cardinality(TiesOf(o, CHOOSE t \in S : TRUE)) ELSE 0
  BY DEF GradientOfRow, RowsOf, TiesOf
<1>8. /\ Gather(shares, o, ValueCount)[row] = IF SegmentId(o, row) \in Segments(o)
                                             THEN shares[SegmentId(o, row)] ELSE 0
      /\ Gather(ids, o, ValueCount)[row] = IF SegmentId(o, row) \in Segments(o)
                                          THEN ids[SegmentId(o, row)] ELSE 0
  BY DEF Gather
<1>9. CASE S = {}
  <2>1. Len(o) \in Nat /\ Len(o) >= 1 /\ Last(o) \in Int
    <3>1. Len(o) \in Nat /\ Len(o) >= 1 /\ Len(o) \in 1..Len(o)
      BY ValidRange
    <3>. QED
      BY <3>1 DEF Last
  <2>2. row >= Last(o)
    <3>1. SUFFICES ASSUME ~(row >= Last(o))
                   PROVE  FALSE
      OBVIOUS
    <3>2. row \in Nat /\ row < Last(o)
      BY <2>1, <3>1
    <3>3. PICK s \in Segments(o) : row \in o[s + 1]..(o[s + 2] - 1)
      BY <3>2, RowHasSegment
    <3>4. row \in RowsOf(o, s)
      BY <3>3, RowsAre
    <3>. QED
      BY <1>9, <3>4
  <2>3. SegmentId(o, row) = Len(o) - 1
    <3>1. row \in Int
      OBVIOUS
    <3>. QED
      BY <2>2, <3>1, RowPastSegments
  <2>4. SegmentId(o, row) \notin Segments(o) /\ row \notin TiedRows(o)
    BY <2>1, <2>3 DEF Segments, TiedRows, Tied
  <2>5. GradientOfRow(row) = 0
    BY <1>7, <1>9
  <2>. QED
    BY <1>2, <1>3, <1>8, <2>4, <2>5
<1>10. CASE S # {}
  <2> DEFINE t == CHOOSE t \in S : TRUE
  <2>1. t \in S
    BY <1>10
  <2> HIDE DEF t
  <2>2. t \in Segments(o) /\ row \in RowsOf(o, t)
    BY <2>1
  <2>3. SegmentId(o, row) = t
    BY <2>2, RowsAre
  <2>4. CASE job.kind = "sum"
    <3>1. Gradient(o)[row] = t + 1
      BY <1>2, <1>8, <2>2, <2>3, <2>4
    <3>. QED
      BY <1>7, <1>10, <2>4, <3>1 DEF t
  <2>5. CASE job.kind = "max"
    <3>1. row \in TiedRows(o) <=> row \in TiesOf(o, t)
      BY <2>2, TiedIsTies
    <3>2. Gradient(o)[row] = IF row \in TiedRows(o) THEN shares[t] ELSE 0
      BY <1>2, <1>3, <1>8, <2>2, <2>3, <2>5
    <3>3. shares[t] = TieCount(o, TiedRows(o), ValueCount, t)
      BY <2>2
    <3>4. row \in TiesOf(o, t) =>
            TieCount(o, TiedRows(o), ValueCount, t) = Cardinality(TiesOf(o, t))
      BY <2>2, TieCountRight
    <3>5. Gradient(o)[row] = IF row \in TiesOf(o, t) THEN Cardinality(TiesOf(o, t)) ELSE 0
      BY <3>1, <3>2, <3>3, <3>4
    <3>6. GradientOfRow(row)
            = IF row \in TiesOf(o, t) THEN Cardinality(TiesOf(o, t)) ELSE 0
      BY <1>7, <1>10, <2>5 DEF t
    <3>. QED
      BY <3>5, <3>6
  <2>. QED
    BY <2>4, <2>5
<1>. QED
  BY <1>9, <1>10

\* The host copy is valid and is what the call was given.
Admitted == Valid(job.raw, ValueCount) /\ host = job.raw

\* The gradient is right in every row.
RightGradient == \A row \in DOMAIN saved.gradient : saved.gradient[row] = GradientOfRow(row)

\* What the forward keeps, and what becomes of the offsets meanwhile.
GradientInv ==
    /\ DOMAIN device = {"offsets", "written", "out", "scratch", "upload", "ready",
                        "capturing"}
    /\ DOMAIN saved = {"offsets", "version", "forward", "gradient"}
    /\ job.kind \in {"sum", "max"} /\ device.written \in {"no", "counted", "uncounted", "rebound"}
    /\ device.written \in {"no", "rebound"} => device.offsets = job.raw
    /\ saved.forward # <<>> => job.path \in Public /\ mode # "front"
    /\ job.recording /\ mode \in {"front", "shapes", "plan", "body", "finally"} =>
         /\ device.written = "no" /\ saved.forward = <<>>
         /\ mode \in {"front", "shapes"} => queue = <<>>
         /\ mode \in {"plan", "body", "finally"} => Admitted
    /\ mode = "recorded" =>
         /\ job.recording /\ Admitted /\ saved.offsets = job.raw
         /\ saved.forward # <<>> /\ saved.version \in Nat
         /\ device.written = "no" => counter.offsets = saved.version
         /\ device.written = "counted" /\ ~job.inference => counter.offsets # saved.version
    /\ saved.forward # <<>> /\ mode \in {"shapes", "plan", "body", "finally"} =>
         /\ saved.offsets = job.raw
         /\ device.written = "counted" => job.inference
         /\ mode # "shapes" /\ device.written # "uncounted" => Admitted
    /\ saved.gradient # <<>> /\ device.written # "uncounted" => RightGradient

\* The gradient of a row depends on the offsets and on the kind of the call.
LEMMA SameRows ==
  ASSUME job'.raw = job.raw, job'.kind = job.kind
  PROVE  \A row : GradientOfRow(row)' = GradientOfRow(row)
<1>1. SUFFICES ASSUME NEW row
               PROVE  GradientOfRow(row)' = GradientOfRow(row)
  OBVIOUS
<1>. QED
  BY DEF GradientOfRow

\* A right gradient stays right as long as it is the same gradient.
LEMMA SameGradient ==
  ASSUME job'.raw = job.raw, job'.kind = job.kind, saved'.gradient = saved.gradient
  PROVE  RightGradient' <=> RightGradient
BY SameRows DEF RightGradient

\* The steps that leave the offsets, the gradient and what they were kept for.
Leaves ==
    /\ UNCHANGED <<job, saved>>
    /\ device'.offsets = device.offsets /\ device'.written = device.written
    /\ DOMAIN device' = DOMAIN device

\* A step of a device, of a caller, or none.
LEMMA IdleKeepsGradient ==
  ASSUME GradientInv, Leaves, mode' = mode, host' = host,
         mode \in {"front", "shapes"} => queue' = queue \/ queue # <<>>,
         mode = "recorded" => counter'.offsets = counter.offsets
  PROVE  GradientInv'
<1>1. RightGradient' <=> RightGradient
  BY SameGradient DEF Leaves
<1>2. Admitted' <=> Admitted
  BY DEF Admitted, Leaves
<1>. QED
  BY <1>1, <1>2 DEF GradientInv, Leaves

\* A step of a body or of a cleanup.
LEMMA WorkKeepsGradient ==
  ASSUME GradientInv, Leaves, host' = host,
         mode \in {"plan", "body", "finally"}, mode' \in {"plan", "body", "finally"}
  PROVE  GradientInv'
<1>1. RightGradient' <=> RightGradient
  BY SameGradient DEF Leaves
<1>2. Admitted' <=> Admitted
  BY DEF Admitted, Leaves
<1>. QED
  BY <1>1, <1>2 DEF GradientInv, Leaves

\* A step that ends the call, or one of a call that has no backward.
LEMMA EndKeepsGradient ==
  ASSUME GradientInv, Leaves,
         \/ mode' \in {"ended", "dropped", "prepared"}
         \/ mode' # "recorded" /\ saved.forward = <<>> /\ ~job.recording
  PROVE  GradientInv'
<1>1. RightGradient' <=> RightGradient
  BY SameGradient DEF Leaves
<1>. QED
  BY <1>1 DEF GradientInv, Leaves

\* The checks before the host copy.
LEMMA FrontDoorKeepsGradient ==
  ASSUME GradientInv, FrontDoor
  PROVE  GradientInv'
<1>1. /\ mode = "front" /\ mode' \in {"shapes", "ended"}
      /\ UNCHANGED <<job, saved, device, host, queue>>
  BY DEF FrontDoor, Refuse
<1>2. Leaves
  BY <1>1 DEF Leaves
<1>3. CASE mode' = "ended"
  BY <1>2, <1>3, EndKeepsGradient
<1>4. CASE mode' = "shapes"
  <2>1. RightGradient' <=> RightGradient
    BY <1>2, SameGradient DEF Leaves
  <2>. QED
    BY <1>1, <1>4, <2>1 DEF GradientInv
<1>. QED
  BY <1>1, <1>3, <1>4

\* The host copy: a forward copies what it was given, a backward what the
\* forward kept, unless it was written behind the back of PyTorch.
LEMMA ValidateShapesKeepsGradient ==
  ASSUME IInv, GradientInv, ValidateShapes
  PROVE  GradientInv'
<1> DEFINE raw == IF saved.forward = <<>> THEN device.offsets ELSE Kept
<1>0. job.raw \in Seq(Int)
  BY DEF IInv, CallType
<1>1. /\ mode = "shapes" /\ device' = [device EXCEPT !.out = <<>>]
      /\ UNCHANGED <<job, saved, queue>>
  BY DEF ValidateShapes
<1>2. \/ mode' = "ended"
      \/ mode' = "plan" /\ CallVerdict(raw) = "valid" /\ host' = HostOffsets(raw, job.wide)
  BY DEF ValidateShapes, Refuse
<1>3. Leaves
  BY <1>1 DEF Leaves, GradientInv
<1>4. CASE mode' = "ended"
  BY <1>3, <1>4, EndKeepsGradient
<1>5. CASE mode' = "plan" /\ CallVerdict(raw) = "valid" /\ host' = HostOffsets(raw, job.wide)
  <2>1. raw = job.raw => Admitted'
    <3>1. SUFFICES ASSUME raw = job.raw
                   PROVE  Admitted'
      OBVIOUS
    <3> DEFINE planned == job.path \in {"reduce", "prepared"}
    <3> DEFINE verdict == HostVerdict(job.raw, job.wide, ValueCount, planned, ChunkLimit)
    <3>2. CallVerdict(job.raw)
            = IF verdict = "valid" /\ job.path = "softmax" /\ Last(job.raw) # ValueCount
              THEN "does not cover" ELSE verdict
      BY DEF CallVerdict
    <3>3. verdict = "valid"
      <4>1. CallVerdict(job.raw) = "valid"
        BY <1>5, <3>1
      <4> HIDE DEF verdict
      <4>. QED
        BY <3>2, <4>1
    <3> HIDE DEF raw
    <3>4. HostVerdict(job.raw, job.wide, ValueCount, planned, ChunkLimit) = "valid"
      BY <3>3
    <3> HIDE DEF planned, verdict
    <3>5. Valid(job.raw, ValueCount) /\ HostOffsets(job.raw, job.wide) = job.raw
      BY <1>0, <3>4, HostAdmits
    <3>. QED
      BY <1>1, <1>5, <3>1, <3>5 DEF Admitted
  <2>2. device.written = "no" => device.offsets = job.raw
    BY DEF GradientInv
  <2>3. job.recording => raw = job.raw
    BY <1>1, <2>2 DEF GradientInv
  <2>4. saved.forward # <<>> /\ device.written # "uncounted" => raw = job.raw
    BY <1>1, <2>2 DEF GradientInv, Kept
  <2>5. RightGradient' <=> RightGradient
    BY <1>3, SameGradient DEF Leaves
  <2> HIDE DEF raw
  <2>. QED
    BY <1>1, <1>3, <1>5, <2>1, <2>3, <2>4, <2>5 DEF GradientInv, Leaves
<1>. QED
  BY <1>2, <1>4, <1>5

\* What a backward reads is what its forward was given, as long as every write
\* to the offsets was counted.
LEMMA KeptIsForward ==
  ASSUME GradientInv, saved.offsets = job.raw, device.written # "uncounted",
         device.written = "counted" => job.inference
  PROVE  Kept = job.raw
BY DEF GradientInv, Kept

\* The gradient over the offsets that were kept.
LEMMA KeptGradient ==
  ASSUME IInv, GradientInv, Admitted, Kept = job.raw,
         saved' = [saved EXCEPT !.gradient = Gradient(Kept)],
         job'.raw = job.raw, job'.kind = job.kind
  PROVE  RightGradient'
<1>1. job.raw \in Seq(Int) /\ job.kind \in {"sum", "max"}
  BY DEF IInv, CallType, GradientInv
<1>2. \A row \in DOMAIN Gradient(job.raw) : Gradient(job.raw)[row] = GradientOfRow(row)
  BY <1>1, GradientRight DEF Admitted
<1>3. saved'.gradient = Gradient(job.raw)
  <2>1. saved' = [saved EXCEPT !.gradient = Gradient(job.raw)]
    OBVIOUS
  <2>2. "gradient" \in DOMAIN saved
    BY DEF GradientInv
  <2>. QED
    BY <2>1, <2>2
<1>4. \A row : GradientOfRow(row)' = GradientOfRow(row)
  BY SameRows
<1>. QED
  BY <1>2, <1>3, <1>4 DEF RightGradient

\* The end of a call: a forward keeps the offsets, a backward its gradient.
LEMMA ConcludeKeepsGradient ==
  ASSUME IInv, GradientInv, Conclude
  PROVE  GradientInv'
<1> DEFINE ok == Raised = NoError
<1>0. /\ counter.offsets \in Nat
      /\ policy # "none" => job.path = "prepared"
      /\ job.recording => job.path \in Public
  BY DEF IInv, StoreType, PathInv
<1>1. /\ mode = "finally" /\ UNCHANGED <<job, host, device, counter, queue>>
      /\ mode' = IF policy # "none" \/ (ok /\ job.path = "prepared") THEN "prepared"
                 ELSE IF ok /\ job.recording THEN "recorded" ELSE "ended"
      /\ saved' = CASE ok /\ job.recording ->
                          [saved EXCEPT !.offsets = device.offsets,
                             !.version = counter.offsets, !.forward = host]
                     [] ok /\ saved.forward # <<>> ->
                          [saved EXCEPT !.gradient = Gradient(Kept)]
                     [] OTHER -> saved
  BY DEF Conclude
<1> HIDE DEF ok
<1>2. CASE ok /\ job.recording
  <2>1. saved' = [saved EXCEPT !.offsets = device.offsets,
                    !.version = counter.offsets, !.forward = host]
    <3>1. saved.forward = <<>>
      BY <1>1, <1>2 DEF GradientInv
    <3>. QED
      BY <1>1, <1>2, <3>1
  <2>2. mode' = "recorded"
    BY <1>0, <1>1, <1>2 DEF Public
  <2>3. Admitted /\ device.written = "no" /\ device.offsets = job.raw
    BY <1>1, <1>2 DEF GradientInv
  <2>4. saved'.offsets = job.raw /\ saved'.version = counter.offsets
        /\ saved'.forward = job.raw /\ saved'.gradient = saved.gradient
        /\ DOMAIN saved' = {"offsets", "version", "forward", "gradient"}
    BY <2>1, <2>3 DEF GradientInv, Admitted
  <2>5. job.raw # <<>>
    BY <2>3 DEF Admitted, Valid
  <2>6. RightGradient' <=> RightGradient
    BY <1>1, <2>4, SameGradient
  <2>7. Admitted'
    BY <1>1, <2>3 DEF Admitted
  <2>. QED
    BY <1>0, <1>1, <1>2, <2>2, <2>3, <2>4, <2>5, <2>6, <2>7 DEF GradientInv
<1>3. CASE ~job.recording /\ ok /\ saved.forward # <<>>
  <2>1. saved' = [saved EXCEPT !.gradient = Gradient(Kept)]
    BY <1>1, <1>3
  <2>2. saved'.offsets = saved.offsets /\ saved'.version = saved.version
        /\ saved'.forward = saved.forward
        /\ DOMAIN saved' = {"offsets", "version", "forward", "gradient"}
    BY <2>1 DEF GradientInv
  <2>3. mode' \in {"prepared", "ended"}
    BY <1>1, <1>3
  <2>4. device.written # "uncounted" => RightGradient'
    <3>1. SUFFICES ASSUME device.written # "uncounted"
                   PROVE  RightGradient'
      OBVIOUS
    <3>2. /\ saved.offsets = job.raw /\ Admitted
          /\ device.written = "counted" => job.inference
      BY <1>1, <1>3, <3>1 DEF GradientInv
    <3>3. Kept = job.raw
      BY <3>1, <3>2, KeptIsForward
    <3>. QED
      BY <1>1, <2>1, <3>2, <3>3, KeptGradient
  <2>. QED
    BY <1>1, <1>3, <2>2, <2>3, <2>4 DEF GradientInv
<1>4. CASE ~(ok /\ job.recording) /\ ~(ok /\ saved.forward # <<>>)
  <2>1. saved' = saved /\ mode' \in {"prepared", "ended"}
    BY <1>1, <1>4
  <2>2. Leaves
    BY <1>1, <2>1 DEF Leaves
  <2>. QED
    BY <2>1, <2>2, EndKeepsGradient
<1>. QED
  BY <1>2, <1>3, <1>4

\* A launch of a prepared reduction has no backward.
LEMMA LaunchKeepsGradient ==
  ASSUME IInv, GradientInv, NEW p, NEW c, Launch(p, c)
  PROVE  GradientInv'
<1> DEFINE complete == device.ready \/ device.upload # "queued"
<1>1. mode = "prepared" /\ UNCHANGED <<job, host, counter, saved>>
  BY DEF Launch
<1>2. \/ mode' = mode /\ device' = device
      \/ mode' = "body" /\ device' = [device EXCEPT !.ready = complete, !.capturing = c]
  BY DEF Launch, RefuseLaunch
<1>3. Leaves
  <2>1. CASE device' = device
    BY <1>1, <2>1 DEF Leaves
  <2>2. CASE device' = [device EXCEPT !.ready = complete, !.capturing = c]
    <3> HIDE DEF complete
    <3>. QED
      BY <1>1, <2>2 DEF Leaves, GradientInv
  <2>. QED
    BY <1>2, <2>1, <2>2
<1>4. job.path = "prepared" /\ saved.forward = <<>> /\ ~job.recording
  BY <1>1 DEF IInv, PathInv, GradientInv, Public
<1>5. mode' # "recorded"
  BY <1>1, <1>2
<1>. QED
  BY <1>3, <1>4, <1>5, EndKeepsGradient

\* The backward: a stale version is refused, a sum or a maximum is gathered at
\* once, and a softmax launches a reduction over what the forward kept.
LEMMA BackwardKeepsGradient ==
  ASSUME IInv, GradientInv, Backward
  PROVE  GradientInv'
<1>1. /\ mode = "recorded" /\ UNCHANGED <<host, counter, queue, device>>
      /\ \/ mode' = "ended" /\ UNCHANGED <<job, saved>>
         \/ /\ job.inference \/ counter.offsets = saved.version
            /\ \/ /\ saved' = [saved EXCEPT !.gradient = Gradient(Kept)]
                  /\ mode' = "ended" /\ UNCHANGED job
               \/ /\ job' = [job EXCEPT !.path = "reduce", !.recording = FALSE]
                  /\ mode' = "shapes" /\ UNCHANGED saved
  BY DEF Backward, Refuse
<1>2. /\ job.recording /\ Admitted /\ saved.offsets = job.raw
      /\ saved.forward # <<>> /\ saved.version \in Nat
      /\ device.written = "counted" /\ ~job.inference => counter.offsets # saved.version
  BY <1>1 DEF GradientInv
<1>3. CASE mode' = "ended" /\ UNCHANGED <<job, saved>>
  <2>1. Leaves
    BY <1>1, <1>3 DEF Leaves
  <2>. QED
    BY <1>3, <2>1, EndKeepsGradient
<1>4. CASE /\ job.inference \/ counter.offsets = saved.version
           /\ saved' = [saved EXCEPT !.gradient = Gradient(Kept)]
           /\ mode' = "ended" /\ UNCHANGED job
  <2>1. saved'.forward = saved.forward
        /\ DOMAIN saved' = {"offsets", "version", "forward", "gradient"}
    BY <1>4 DEF GradientInv
  <2>2. device.written # "uncounted" => RightGradient'
    <3>1. SUFFICES ASSUME device.written # "uncounted"
                   PROVE  RightGradient'
      OBVIOUS
    <3>2. device.written = "counted" => job.inference
      BY <1>2, <1>4
    <3>3. Kept = job.raw
      BY <1>2, <3>1, <3>2, KeptIsForward
    <3>. QED
      BY <1>2, <1>4, <3>3, KeptGradient
  <2>. QED
    BY <1>1, <1>4, <2>1, <2>2 DEF GradientInv
<1>5. CASE /\ job.inference \/ counter.offsets = saved.version
           /\ job' = [job EXCEPT !.path = "reduce", !.recording = FALSE]
           /\ mode' = "shapes" /\ UNCHANGED saved
  <2>1. /\ job'.path = "reduce" /\ job'.raw = job.raw /\ job'.kind = job.kind
        /\ job'.inference = job.inference /\ job'.recording = FALSE
    BY <1>5 DEF IInv, CallType
  <2>2. RightGradient' <=> RightGradient
    BY <1>5, <2>1, SameGradient
  <2>3. device.written = "counted" => job.inference
    BY <1>2, <1>5
  <2>. QED
    BY <1>1, <1>2, <1>5, <2>1, <2>2, <2>3 DEF GradientInv, Public
<1>. QED
  BY <1>1, <1>3, <1>4, <1>5

\* A write to the offsets: PyTorch counts it, unless they have no counter.
LEMMA WriteOffsetsKeepsGradient ==
  ASSUME IInv, GradientInv, WriteOffsets
  PROVE  GradientInv'
<1>1. /\ device.written = "no" /\ UNCHANGED <<job, mode, host, queue, saved>>
      /\ mode \notin {"front", "plan", "body", "finally"}
      /\ queue # <<>> \/ mode \in {"prepared", "recorded"}
      /\ \/ /\ mode \in {"prepared", "recorded"}
            /\ counter' = [counter EXCEPT !.offsets = IF job.inference THEN @ ELSE @ + 1]
            /\ device' = [device EXCEPT !.offsets = Scrambled, !.written = "counted"]
         \/ /\ device' = [device EXCEPT !.offsets = Scrambled, !.written = "uncounted"]
            /\ UNCHANGED counter
  BY DEF WriteOffsets, Between
<1>2. Admitted' <=> Admitted
  BY <1>1 DEF Admitted
<1>3. RightGradient' <=> RightGradient
  BY <1>1, SameGradient
<1>4. counter \in [output : Nat, offsets : Nat, expected : Nat, writes : Nat]
  BY DEF IInv, StoreType
<1>5. mode = "shapes" => ~job.recording
  BY <1>1 DEF GradientInv
<1>6. CASE /\ mode \in {"prepared", "recorded"}
           /\ counter' = [counter EXCEPT !.offsets = IF job.inference THEN @ ELSE @ + 1]
           /\ device' = [device EXCEPT !.offsets = Scrambled, !.written = "counted"]
  <2>1. /\ device'.written = "counted"
        /\ DOMAIN device' = {"offsets", "written", "out", "scratch", "upload", "ready",
                             "capturing"}
    BY <1>6 DEF GradientInv
  <2>2. ~job.inference => counter'.offsets = counter.offsets + 1
    BY <1>4, <1>6
  <2>3. mode = "recorded" /\ ~job.inference => counter'.offsets # saved.version
    BY <1>1, <1>4, <2>2 DEF GradientInv
  <2>. QED
    BY <1>1, <1>2, <1>3, <1>6, <2>1, <2>3 DEF GradientInv
<1>7. CASE /\ device' = [device EXCEPT !.offsets = Scrambled, !.written = "uncounted"]
           /\ UNCHANGED counter
  <2>1. /\ device'.written = "uncounted"
        /\ DOMAIN device' = {"offsets", "written", "out", "scratch", "upload", "ready",
                             "capturing"}
    BY <1>7 DEF GradientInv
  <2>. QED
    BY <1>1, <1>2, <1>3, <1>5, <1>7, <2>1 DEF GradientInv
<1>. QED
  BY <1>1, <1>6, <1>7

\* Every step keeps the gradients.
LEMMA NextKeepsGradient ==
  ASSUME IInv, GradientInv, [Next]_vars
  PROVE  GradientInv'
<1>0. DOMAIN device = {"offsets", "written", "out", "scratch", "upload", "ready",
                       "capturing"}
  BY DEF GradientInv
<1>1. CASE FrontDoor
  BY <1>1, FrontDoorKeepsGradient
<1>2. CASE ValidateShapes
  BY <1>2, ValidateShapesKeepsGradient
<1>3. CASE Plan
  <2>1. Leaves
    BY <1>3 DEF Plan, Leaves
  <2>2. mode = "plan" /\ mode' \in {"ended", "finally", "body"} /\ host' = host
    BY <1>3 DEF Plan, Refuse
  <2>. QED
    BY <2>1, <2>2, WorkKeepsGradient, EndKeepsGradient
<1>4. CASE RefuseProgram
  <2>1. Leaves /\ mode' = "ended"
    BY <1>4 DEF RefuseProgram, Refuse, Leaves
  <2>. QED
    BY <2>1, EndKeepsGradient
<1>5. CASE Compile \/ Lease \/ Enqueue \/ EndPhase \/ EndBody
  <2>1. Leaves
    BY <1>5 DEF Compile, Lease, Enqueue, EndPhase, EndBody, Leaves
  <2>2. mode = "body" /\ mode' \in {"body", "finally"} /\ host' = host
    BY <1>5 DEF Compile, Lease, Enqueue, EndPhase, EndBody, At, Go, Raise
  <2>. QED
    BY <2>1, <2>2, WorkKeepsGradient
<1>6. CASE Upload
  <2>1. \/ device' = device
        \/ \E u : device' = [device EXCEPT !.upload = u]
    <3>1. \/ UNCHANGED device
          \/ device' = [device EXCEPT !.upload =
                IF Head(todo)[2] # "records" THEN @
                ELSE IF job.path = "prepared" THEN "queued" ELSE "done"]
      BY <1>6 DEF Upload
    <3>. QED
      BY <3>1
  <2>2. UNCHANGED <<job, saved, host>> /\ mode = "body" /\ mode' \in {"body", "finally"}
    BY <1>6 DEF Upload, At, Go, Raise
  <2>3. Leaves
    BY <1>0, <2>1, <2>2 DEF Leaves
  <2>. QED
    BY <2>2, <2>3, WorkKeepsGradient
<1>7. CASE Retain \/ Advance \/ Release
  <2>1. Leaves
    BY <1>7 DEF Retain, Advance, Release, Leaves
  <2>2. mode \in {"body", "finally"} /\ mode' \in {"body", "finally"} /\ host' = host
    BY <1>7 DEF Retain, Advance, Release, In, Raise
  <2>. QED
    BY <2>1, <2>2, WorkKeepsGradient
<1>8. CASE Conclude
  BY <1>8, ConcludeKeepsGradient
<1>9. ASSUME NEW p \in {"warp", "cta", "mixed"}, NEW c \in BOOLEAN, Launch(p, c)
      PROVE  GradientInv'
  BY <1>9, LaunchKeepsGradient
<1>10. CASE Backward
  BY <1>10, BackwardKeepsGradient
<1>11. CASE WriteOffsets
  BY <1>11, WriteOffsetsKeepsGradient
<1>12. CASE CompleteUpload
  <2>1. device' = [device EXCEPT !.upload = "done"] /\ UNCHANGED <<job, saved>>
    BY <1>12 DEF CompleteUpload
  <2>2. Leaves
    BY <1>0, <2>1 DEF Leaves
  <2>3. UNCHANGED <<mode, host, queue, counter>>
    BY <1>12 DEF CompleteUpload
  <2>. QED
    BY <2>2, <2>3, IdleKeepsGradient
<1>13. CASE Run
  <2>1. UNCHANGED <<job, saved, mode, host, counter>> /\ queue # <<>>
    BY <1>13 DEF Run
  <2>2. \/ device' = device
        \/ device' = [device EXCEPT !.scratch = Store(@, Stored("partial"))]
        \/ device' = [device EXCEPT !.out = Store(@, Stored(Head(queue)))]
    BY <1>13 DEF Run
  <2>3. Leaves
    BY <1>0, <2>1, <2>2 DEF Leaves
  <2>. QED
    BY <2>1, <2>3, IdleKeepsGradient
<1>14. CASE Drop
  <2>1. Leaves /\ mode' = "dropped"
    BY <1>14 DEF Drop, Leaves
  <2>. QED
    BY <2>1, EndKeepsGradient
<1>15. ASSUME NEW x \in Foreign, Reuse(x)
       PROVE  GradientInv'
  <2>1. Leaves /\ UNCHANGED <<mode, host, queue, counter>>
    BY <1>15 DEF Reuse, Leaves
  <2>. QED
    BY <2>1, IdleKeepsGradient
<1>16. CASE UNCHANGED vars
  <2>1. Leaves /\ UNCHANGED <<mode, host, queue, counter>>
    BY <1>16 DEF vars, Leaves
  <2>. QED
    BY <2>1, IdleKeepsGradient
<1>17. CASE Rebind
  <2>1. /\ UNCHANGED <<job, saved, mode, queue>> /\ mode = "prepared"
        /\ device.written = "no" /\ device' = [device EXCEPT !.written = "rebound"]
    BY <1>17 DEF Rebind
  <2>2. /\ device'.written = "rebound" /\ device'.offsets = device.offsets
        /\ DOMAIN device' = DOMAIN device
    BY <1>0, <2>1
  <2>3. RightGradient' <=> RightGradient
    BY <2>1, SameGradient
  <2>. QED
    BY <2>1, <2>2, <2>3 DEF GradientInv
<1>. QED
  BY <1>1, <1>2, <1>3, <1>4, <1>5, <1>6, <1>7, <1>8, <1>9, <1>10, <1>11, <1>12, <1>13, <1>14,
     <1>15, <1>16, <1>17 DEF Next

\* A prepared object whose storage was rebound has no work in flight, and no
\* launch adds to it.
ReboundInv ==
    device.written = "rebound" => mode \in {"prepared", "dropped"} /\ queue = <<>>

\* Every step keeps that.
LEMMA NextKeepsRebound ==
  ASSUME GradientInv, ReboundInv, [Next]_vars
  PROVE  ReboundInv'
<1>0. DOMAIN device = {"offsets", "written", "out", "scratch", "upload", "ready",
                       "capturing"}
  BY DEF GradientInv
<1>1. CASE \/ FrontDoor \/ Plan \/ RefuseProgram \/ Compile \/ Lease \/ Enqueue
           \/ EndPhase \/ EndBody \/ Retain \/ Advance \/ Release \/ Conclude \/ Backward
  <2>1. mode \notin {"prepared", "dropped"} /\ device' = device
    BY <1>1 DEF FrontDoor, Plan, RefuseProgram, Compile, Lease, Enqueue, EndPhase,
                EndBody, Retain, Advance, Release, Conclude, Backward, At, In
  <2>. QED
    BY <2>1 DEF ReboundInv
<1>2. CASE ValidateShapes
  <2>1. mode = "shapes" /\ device' = [device EXCEPT !.out = <<>>]
    BY <1>2 DEF ValidateShapes
  <2>2. device'.written = device.written
    BY <1>0, <2>1
  <2>. QED
    BY <2>1, <2>2 DEF ReboundInv
<1>3. CASE Upload
  <2>1. mode = "body"
    BY <1>3 DEF Upload, At
  <2>2. \/ device' = device
        \/ \E u : device' = [device EXCEPT !.upload = u]
    <3>1. \/ UNCHANGED device
          \/ device' = [device EXCEPT !.upload =
                IF Head(todo)[2] # "records" THEN @
                ELSE IF job.path = "prepared" THEN "queued" ELSE "done"]
      BY <1>3 DEF Upload
    <3>. QED
      BY <3>1
  <2>3. device'.written = device.written
    BY <1>0, <2>2
  <2>. QED
    BY <2>1, <2>3 DEF ReboundInv
<1>4. ASSUME NEW p \in {"warp", "cta", "mixed"}, NEW c \in BOOLEAN, Launch(p, c)
      PROVE  ReboundInv'
  <2> DEFINE complete == device.ready \/ device.upload # "queued"
  <2>1. \/ UNCHANGED <<mode, queue, device>>
        \/ /\ device.written # "rebound"
           /\ device' = [device EXCEPT !.ready = complete, !.capturing = c]
    BY <1>4 DEF Launch, RefuseLaunch
  <2> HIDE DEF complete
  <2>2. CASE UNCHANGED <<mode, queue, device>>
    BY <2>2 DEF ReboundInv
  <2>3. CASE /\ device.written # "rebound"
             /\ device' = [device EXCEPT !.ready = complete, !.capturing = c]
    <3>1. device'.written = device.written
      BY <1>0, <2>3
    <3>. QED
      BY <2>3, <3>1 DEF ReboundInv
  <2>. QED
    BY <2>1, <2>2, <2>3
<1>5. CASE WriteOffsets
  <2>1. \/ device' = [device EXCEPT !.offsets = Scrambled, !.written = "counted"]
        \/ device' = [device EXCEPT !.offsets = Scrambled, !.written = "uncounted"]
    BY <1>5 DEF WriteOffsets
  <2>2. device'.written # "rebound"
    BY <1>0, <2>1
  <2>. QED
    BY <2>2 DEF ReboundInv
<1>6. CASE Rebind
  <2>1. mode = "prepared" /\ queue = <<>> /\ UNCHANGED <<mode, queue>>
    BY <1>6 DEF Rebind
  <2>. QED
    BY <2>1 DEF ReboundInv
<1>7. CASE CompleteUpload
  <2>1. device' = [device EXCEPT !.upload = "done"] /\ UNCHANGED <<mode, queue>>
    BY <1>7 DEF CompleteUpload
  <2>2. device'.written = device.written
    BY <1>0, <2>1
  <2>. QED
    BY <2>1, <2>2 DEF ReboundInv
<1>8. CASE Run
  <2>1. queue # <<>>
    BY <1>8 DEF Run
  <2>2. \/ device' = device
        \/ device' = [device EXCEPT !.scratch = Store(@, Stored("partial"))]
        \/ device' = [device EXCEPT !.out = Store(@, Stored(Head(queue)))]
    BY <1>8 DEF Run
  <2>3. device'.written = device.written
    BY <1>0, <2>2
  <2>. QED
    BY <2>1, <2>3 DEF ReboundInv
<1>9. CASE Drop
  <2>1. mode' = "dropped" /\ UNCHANGED <<queue, device>>
    BY <1>9 DEF Drop
  <2>. QED
    BY <2>1 DEF ReboundInv
<1>10. CASE (\E x \in Foreign : Reuse(x)) \/ UNCHANGED vars
  <2>1. UNCHANGED <<mode, queue, device>>
    BY <1>10 DEF Reuse, vars
  <2>. QED
    BY <2>1 DEF ReboundInv
<1>. QED
  BY <1>1, <1>2, <1>3, <1>4, <1>5, <1>6, <1>7, <1>8, <1>9, <1>10 DEF Next

\* No gradient is there at first.
LEMMA InitHasNoGradient ==
  ASSUME Init
  PROVE  GradientInv
<1>1. /\ device = [offsets |-> job.raw, written |-> "no", out |-> <<>>,
                   scratch |-> <<>>, upload |-> "none", ready |-> FALSE,
                   capturing |-> FALSE]
      /\ saved = [offsets |-> <<>>, version |-> 0, forward |-> <<>>, gradient |-> <<>>]
      /\ mode = IF job.path \in Public THEN "front"
                ELSE IF job.path = "fixed" THEN "plan" ELSE "shapes"
      /\ queue = <<>> /\ job \in Jobs
  BY DEF Init
<1>2. job.kind \in {"sum", "max"} /\ (job.recording => job.path \in Public)
  BY <1>1, CallsOf
<1>. QED
  BY <1>1, <1>2 DEF GradientInv
-------------------------------------------------------------------------------
(* The theorems. *)

\* The inductive invariant: the steps a call has left, the leases it owes, the
\* memory its queued work touches, the writes it counts and the errors it keeps
\* fit together in every state.
THEOREM CallInvariance == Spec => []IInv
<1>1. Init => IInv
  BY InitHolds
<1>2. IInv /\ [Next]_vars => IInv'
  BY NextKeeps
<1>. QED
  BY <1>1, <1>2, PTL DEF Spec

\* A call that is over holds no lease but one whose release raised.
THEOREM LeasesAreReturned == Spec => []LeasesReturned
<1>1. IInv => LeasesReturned
  <2>1. SUFFICES ASSUME IInv, Over, NEW k \in held
                 PROVE  <<"release", k>> \in log.lost
    BY DEF LeasesReturned
  <2>2. Owed = {}
    BY <2>1 DEF IInv, LeaseInv, Over
  <2>. QED
    BY <2>2 DEF Owed
<1>. QED
  BY <1>1, CallInvariance, PTL

\* Queued work keeps the memory it touches, but for a record_stream that raised,
\* and a prepared object whose storage was rebound queues nothing more.
THEOREM QueuedWorkIsSafe == Spec => []QueuedWorkKeepsItsMemory
<1>1. Init => IInv /\ GradientInv /\ ReboundInv
  <2>1. Init => ReboundInv
    BY DEF Init, ReboundInv
  <2>. QED
    BY <2>1, InitHolds, InitHasNoGradient
<1>2. (IInv /\ GradientInv /\ ReboundInv) /\ [Next]_vars => (IInv /\ GradientInv /\ ReboundInv)'
  BY NextKeeps, NextKeepsGradient, NextKeepsRebound
<1>3. IInv /\ ReboundInv => QueuedWorkKeepsItsMemory
  <2>1. ASSUME IInv, NEW i \in DOMAIN queue, NEW x \in Touches(queue[i]) \cap memory.reused
        PROVE  <<"retain", x>> \in log.lost
    <3>1. /\ mode = "dropped" /\ memory.reused \cap memory.recorded = {} /\ x \in Foreign
      BY <2>1 DEF IInv, MemoryInv
    <3>2. ~Pending(x)
      BY <3>1 DEF Pending
    <3>3. queue[i] \in ToSet(queue)
      BY DEF ToSet
    <3>4. x \in memory.recorded \/ <<"retain", x>> \in log.lost \/ Pending(x)
      BY <2>1, <3>1, <3>3 DEF IInv, MemoryInv
    <3>. QED
      BY <2>1, <3>1, <3>2, <3>4
  <2>2. ReboundInv => (device.written = "rebound" => queue = <<>>)
    BY DEF ReboundInv
  <2>. QED
    BY <2>1, <2>2 DEF QueuedWorkKeepsItsMemory
<1>. QED
  BY <1>1, <1>2, <1>3, PTL DEF Spec

\* The output version moves once for every launch that attempted to write.
THEOREM EveryWriteIsCounted == Spec => []WritesAreCounted
<1>1. IInv => WritesAreCounted
  <2>1. SUFFICES ASSUME IInv, mode \notin {"body", "finally"}
                 PROVE  counter.output + Cardinality(LostAdvances) = counter.writes
    BY DEF WritesAreCounted, LostAdvances
  <2>2. Due = 0
    BY <2>1 DEF Due
  <2>3. counter.output + Cardinality(LostAdvances) + 0 = counter.writes
    BY <2>1, <2>2 DEF IInv, CountInv
  <2>4. counter.output \in Nat /\ Cardinality(LostAdvances) \in Nat
    <3>1. IsFiniteSet(log.lost) /\ LostAdvances \subseteq log.lost
      BY <2>1 DEF IInv, StoreType, LostAdvances
    <3>2. IsFiniteSet(LostAdvances)
      BY <3>1, FS_Subset
    <3>3. Cardinality(LostAdvances) \in Nat
      BY <3>2, FS_CardinalityType
    <3>. QED
      BY <2>1, <3>3 DEF IInv, StoreType
  <2>. QED
    BY <2>3, <2>4
<1>. QED
  BY <1>1, CallInvariance, PTL

\* The caller sees the first error of the call, or of the launch.
THEOREM FirstErrorIsRaised == Spec => []FirstErrorRaised
<1>1. IInv => FirstErrorRaised
  BY DEF IInv, ErrorInv
<1>. QED
  BY <1>1, CallInvariance, PTL

\* A compile that is refused finds nothing uploaded and nothing leased, and a
\* call under capture is refused before the host copy.
THEOREM RefusalsTouchNothing == Spec => []RefusalTouchesNothing
<1>1. IInv => RefusalTouchesNothing
  BY DEF IInv, RefusalInv
<1>. QED
  BY <1>1, CallInvariance, PTL

\* Every form of the check of the offsets accepts the same ones.
THEOREM FormsAgree == Spec => []BothFormsAgree
<1>1. IInv => BothFormsAgree
  <2> DEFINE array == OffsetVerdict(job.raw, ValueCount)
  <2> DEFINE sequential == SequentialVerdict(job.raw, ValueCount)
  <2> DEFINE classified == ClassifierVerdict(job.raw, ValueCount, ChunkMax)
  <2>1. SUFFICES ASSUME IInv
                 PROVE  /\ array = "valid" <=> sequential = "valid"
                        /\ job.raw \in I32Lists => array = sequential
                        /\ job.raw \in I32Lists \ {<<>>} =>
                             (array = "valid" <=> classified \in {"valid", "plan size"})
    BY DEF BothFormsAgree
  <2>2. job.raw \in Seq(Int)
    BY <2>1 DEF IInv, CallType
  <2>3. array = "valid" <=> Valid(job.raw, ValueCount)
    BY <2>2, ArrayAccepts
  <2>4. sequential = "valid" <=> Valid(job.raw, ValueCount)
    BY <2>2, SequentialAccepts
  <2>5. job.raw \in I32Lists => array = sequential
    <3>1. SUFFICES ASSUME job.raw \in I32Lists
                   PROVE  array = sequential
      OBVIOUS
    <3>2. \A i \in 1..Len(job.raw) : job.raw[i] \in Int /\ Narrow(job.raw[i]) = job.raw[i]
      BY <2>2, <3>1 DEF I32Lists
    <3>3. \A i \in 1..Len(job.raw) : Word32(job.raw[i])
      <4>1. SUFFICES ASSUME NEW i \in 1..Len(job.raw)
                     PROVE  Word32(job.raw[i])
        OBVIOUS
      <4>2. Word32(Narrow(job.raw[i]))
        BY <3>2, NarrowIsWord
      <4>. QED
        BY <3>2, <4>2
    <3>. QED
      BY <2>2, <3>3, SameVerdict
  <2>6. job.raw # <<>> =>
          (classified \in {"valid", "plan size"} <=> Valid(job.raw, ValueCount))
    BY <2>2, ClassifierAccepts
  <2>. QED
    BY <2>3, <2>4, <2>5, <2>6
<1>. QED
  BY <1>1, CallInvariance, PTL

\* A gradient is the one of the segments the forward reduced, unless the offsets
\* were written behind the back of PyTorch.
THEOREM GradientIsOfForward == Spec => []GradientUsesForwardOffsets
<1>1. Init => IInv /\ GradientInv
  BY InitHolds, InitHasNoGradient
<1>2. (IInv /\ GradientInv) /\ [Next]_vars => (IInv /\ GradientInv)'
  BY NextKeeps, NextKeepsGradient
<1>3. GradientInv => GradientUsesForwardOffsets
  <2>1. SUFFICES ASSUME GradientInv, saved.gradient # <<>>, device.written # "uncounted",
                        NEW row \in DOMAIN saved.gradient
                 PROVE  saved.gradient[row] = GradientOfRow(row)
    BY DEF GradientUsesForwardOffsets, GradientOfRow
  <2>. QED
    BY <2>1 DEF GradientInv, RightGradient
<1>. QED
  BY <1>1, <1>2, <1>3, PTL DEF Spec

-------------------------------------------------------------------------------
(* The invariant. *)

\* The offsets a plan was made from.
Sound == host \in Seq(Int) /\ Valid(host, ValueCount) /\ Len(host) = Len(job.raw)

\* Results and their places.
Within(content, places, results) ==
    \A k \in DOMAIN content : k \in places /\ content[k] \in results
Results == Seq({-1} \cup 0..(ValueCount - 1))
Parts == Seq(0..(ValueCount - 1))

\* The fused, the partial and the merge kernel read the task records, which are
\* uploaded before they run: their launch waits for them, or their call uploads
\* them first.
Readers == {"fused", "partial", "merge"}
ReaderSteps == {"enqueue"} \X Readers
ReadersWait ==
    \A i \in DOMAIN queue : queue[i] \in Readers =>
        device.upload = "done" \/ \E j \in 1..(i - 1) : queue[j] = "wait"
ReadersFollow(steps) ==
    \A i \in DOMAIN steps : steps[i] \in ReaderSteps =>
        device.upload = "done" \/ \E j \in 1..(i - 1) : steps[j] = <<"upload", "records">>
RecordsSent == device.upload = "done" \/ "wait" \in ToSet(queue)
RecordsNeeded == Len(host) # 1 /\ ~ChoosesCta

\* The calls that split segments.
Splitting == job.path \in {"reduce", "prepared"}

PlaceInv ==
    /\ device.offsets \in Seq(Int) /\ Len(device.offsets) = Len(job.raw)
    /\ mode \in {"plan", "body", "finally", "prepared", "recorded"} \/ queue # <<>> =>
         job.path = "fixed" \/ Sound
    /\ job.path = "fixed" => ToSet(queue) \subseteq {"fixed"}
    /\ Within(device.out, Segments(host), Results)
ScratchInv ==
    /\ mode \in {"front", "shapes"} \/ ~Splitting =>
         device.scratch = <<>> /\ "partial" \notin ToSet(queue)
    /\ mode = "body" /\ ~Splitting => <<"enqueue", "partial">> \notin ToSet(todo)
    /\ Within(device.scratch, 0..(PartialCount(host, ChunkLimit) - 1), Parts)
UploadInv ==
    /\ device.upload \in {"none", "queued", "done"} /\ ReadersWait
    /\ mode = "body" /\ policy = "none" => ReadersFollow(todo)
    /\ mode = "body" /\ policy = "mixed" /\ ToSet(todo) \cap ReaderSteps # {} =>
         RecordsSent
    /\ device.ready => device.upload # "queued" /\ job.path = "prepared"
    /\ mode \in {"shapes", "plan"} \/ (mode = "body" /\ policy = "none") =>
         /\ ~device.ready
         /\ job.path = "prepared" => queue = <<>>
    /\ job.path = "prepared" /\ RecordsNeeded =>
         /\ mode = "prepared" \/ policy # "none" => device.upload # "none"
         /\ mode = "body" /\ policy = "none" =>
              device.upload # "none" \/ <<"upload", "records">> \in ToSet(todo)
         /\ mode = "finally" /\ policy = "none" =>
              device.upload # "none" \/ log.body # NoError
BoundInv == PlaceInv /\ ScratchInv /\ UploadInv

-------------------------------------------------------------------------------
(* What the device stores. *)

\* The limits of every plan.
LEMMA LimitsAre ==
  ASSUME Sound
  PROVE  Sizes(host, ValueCount, WarpLimit, ChunkLimit)
<1>1. WarpLimit \in Nat /\ ChunkLimit \in Nat \ {0} /\ WarpLimit <= ChunkLimit
  <2>1. CASE Rows
    <3>1. WarpLimit = RowChunk(job.features) /\ ChunkLimit = RowChunk(job.features)
      BY <2>1 DEF WarpLimit, ChunkLimit
    <3>2. RowChunk(job.features) \in Nat \ {0}
      BY RowChunkIs
    <3>. QED
      BY <3>1, <3>2
  <2>2. CASE ~Rows
    BY <2>2, PlanAssumption DEF WarpLimit, ChunkLimit
  <2>. QED
    BY <2>1, <2>2
<1>. QED
  BY <1>1 DEF Sizes, Sound

\* A list over a set is one over every larger set.
LEMMA ListOfMore ==
  ASSUME NEW S, NEW T, S \subseteq T, NEW s \in Seq(S)
  PROVE  s \in Seq(T)
OBVIOUS

\* Stores in bounds keep a content in bounds.
LEMMA StoreWithin ==
  ASSUME NEW places, NEW results, NEW content, Within(content, places, results),
         NEW pairs, pairs \subseteq places \X results
  PROVE  Within(Store(content, pairs), places, results)
<1> DEFINE keys == {p[1] : p \in pairs}
<1> DEFINE chosen(k) == CHOOSE p \in pairs : p[1] = k
<1>1. Store(content, pairs) = [k \in DOMAIN content \cup keys |->
                                 IF k \in keys THEN chosen(k)[2] ELSE content[k]]
  BY DEF Store
<1>2. ASSUME NEW k \in keys
      PROVE  k \in places /\ chosen(k)[2] \in results
  <2>1. \E p \in pairs : p[1] = k
    OBVIOUS
  <2>2. chosen(k) \in pairs /\ chosen(k)[1] = k
    BY <2>1
  <2> HIDE DEF chosen
  <2>. QED
    BY <2>2
<1> HIDE DEF keys, chosen
<1>. QED
  BY <1>1, <1>2 DEF Within

\* The arguments of a kernel of a valid call, with whatever offsets the device holds.
LEMMA KernelArgumentsAre ==
  ASSUME Sound, device.offsets \in Seq(Int), Len(device.offsets) = Len(job.raw)
  PROVE  /\ LaidOut(KernelArguments, host, WarpLimit, ChunkLimit)
         /\ Loadable(KernelArguments)
         /\ KernelArguments.values = ValueCount
<1> DEFINE A == Arguments(host, job.wide, WarpLimit, ChunkLimit, ValueCount)
<1> DEFINE K == KernelArguments
<1> DEFINE words == IF device.upload = "done" THEN A.words ELSE [i \in DOMAIN A.words |-> -1]
<1> DEFINE offsets == IF job.wide THEN A.offsets ELSE device.offsets
<1>1. /\ LaidOut(A, host, WarpLimit, ChunkLimit)
      /\ Loadable(A) /\ A.values = ValueCount /\ A.segments = Len(host) - 1
  <2>1. host \in Seq(Int) /\ Sizes(host, ValueCount, WarpLimit, ChunkLimit)
    BY LimitsAre DEF Sound
  <2>. QED
    BY <2>1, ArgumentsAre
<1>2. DOMAIN A = {"words", "ids", "offsets", "base", "warps", "ctas", "partials", "merges",
                  "ranges", "mergeRecords", "mergeIds", "values", "segments"}
      /\ (~job.wide => A.base = 0)
  BY DEF Arguments
<1>3. K = [A EXCEPT !.offsets = offsets, !.words = words]
  BY DEF KernelArguments
<1> HIDE DEF A, K, words, offsets
<1>4. /\ K.words = words /\ K.offsets = offsets /\ K.base = A.base /\ K.ranges = A.ranges
      /\ K.mergeRecords = A.mergeRecords /\ K.partials = A.partials /\ K.merges = A.merges
      /\ K.values = A.values /\ K.segments = A.segments
  BY <1>2, <1>3
<1>5. words \in Seq(Int) /\ Len(words) = Len(A.words)
  <2>1. A.words \in Seq(Int)
    BY <1>1 DEF LaidOut
  <2>2. CASE device.upload = "done"
    BY <2>1, <2>2 DEF words
  <2>3. CASE device.upload # "done"
    <3> DEFINE n == Len(A.words)
    <3>1. n \in Nat /\ DOMAIN A.words = 1..n
      BY <2>1
    <3>2. words = [i \in 1..n |-> -1]
      BY <2>3, <3>1 DEF words
    <3> HIDE DEF n
    <3>3. words \in Seq(Int) /\ Len(words) = n
      BY <3>1, <3>2
    <3>. QED
      BY <3>3 DEF n
  <2>. QED
    BY <2>2, <2>3
<1>6. LaidOut(K, host, WarpLimit, ChunkLimit)
  BY <1>1, <1>4, <1>5 DEF LaidOut
<1>7. Loadable(K)
  <2>1. CASE job.wide
    BY <1>1, <1>4, <2>1 DEF Loadable, offsets
  <2>2. CASE ~job.wide
    <3>1. Len(host) \in Nat /\ Len(host) = Len(device.offsets)
      BY DEF Sound
    <3>2. K.segments \in Nat /\ K.values \in Nat /\ K.base = 0 /\ K.segments = Len(host) - 1
      BY <1>1, <1>2, <1>4, <2>2 DEF Loadable
    <3>3. ASSUME NEW i \in 0..K.segments
          PROVE  K.offsets[K.base + i + 1] \in Int
      <4>1. K.base + i + 1 = i + 1 /\ i + 1 \in 1..Len(device.offsets)
        BY <3>1, <3>2
      <4>2. K.offsets = device.offsets
        BY <1>4, <2>2 DEF offsets
      <4>. QED
        BY <4>1, <4>2
    <3>. QED
      BY <3>2, <3>3 DEF Loadable
  <2>. QED
    BY <2>1, <2>2
<1>8. K.values = ValueCount
  BY <1>1, <1>4
<1>. QED
  BY <1>6, <1>7, <1>8 DEF K

\* What a kernel of a valid call stores to the output.
LEMMA StoredInOutput ==
  ASSUME Sound, device.offsets \in Seq(Int), Len(device.offsets) = Len(job.raw),
         Within(device.scratch, 0..(PartialCount(host, ChunkLimit) - 1), Parts),
         NEW kernel, kernel # "partial"
  PROVE  Stored(kernel) \subseteq Segments(host) \X Results
<1> DEFINE K == KernelArguments
<1> DEFINE T == TaskArguments
<1>1. /\ LaidOut(K, host, WarpLimit, ChunkLimit) /\ Loadable(K) /\ K.values = ValueCount
  BY KernelArgumentsAre
<1>2. K.segments = Len(host) - 1 /\ K.partials = PartialCount(host, ChunkLimit)
  BY <1>1 DEF LaidOut
<1>3. Loadable(T) /\ T.values = K.values /\ T.segments = K.segments
  <2>1. CASE Rows /\ Splits
    BY <1>1, <2>1 DEF TaskArguments
  <2>2. CASE ~(Rows /\ Splits)
    <3> DEFINE ids == IF job.path = "tasks" THEN job.tasks ELSE SegmentSeq(host)
    <3>1. T = [K EXCEPT !.words = ids, !.warps = Len(ids), !.ctas = 0]
      BY <2>2 DEF TaskArguments
    <3> HIDE DEF T, K, ids
    <3>2. /\ T.offsets = K.offsets /\ T.base = K.base /\ T.values = K.values
          /\ T.segments = K.segments
      BY <3>1
    <3>. QED
      BY <1>1, <3>2 DEF Loadable
  <2>. QED
    BY <2>1, <2>2
<1> DEFINE X == {-1} \cup 0..(ValueCount - 1)
<1>4. Parts \subseteq Results
  BY ListOfMore DEF Parts, Results
<1> HIDE DEF K, T
<1>5. \A a : Loadable(a) /\ a.values = K.values /\ a.segments = K.segments =>
        DirectWrites(a) \cup TaskListWrites(a) \cup FusedWrites(a) \subseteq Segments(host) \X Results
  <2>1. SUFFICES ASSUME NEW a, Loadable(a), a.values = K.values, a.segments = K.segments
                 PROVE  DirectWrites(a) \cup TaskListWrites(a) \cup FusedWrites(a)
                          \subseteq Segments(host) \X Results
    OBVIOUS
  <2>2. DirectWrites(a) \cup TaskListWrites(a) \cup FusedWrites(a)
          \subseteq (0..(a.segments - 1)) \X Seq(0..(a.values - 1))
    BY <2>1, TasksStoreLists
  <2>3. 0..(a.segments - 1) = Segments(host)
    <3>1. Len(host) \in Nat
      BY DEF Sound
    <3>. QED
      BY <1>2, <2>1, <3>1 DEF Segments
  <2>4. Seq(0..(a.values - 1)) \subseteq Results
    BY <1>1, <1>4, <2>1 DEF Parts
  <2>. QED
    BY <2>2, <2>3, <2>4
<1>6. CASE kernel = "direct"
  BY <1>1, <1>5, <1>6 DEF Stored, K
<1>7. CASE kernel \in {"warp", "cta"}
  BY <1>3, <1>5, <1>7 DEF Stored, T
<1>8. CASE kernel = "fused"
  BY <1>1, <1>5, <1>8 DEF Stored, K
<1>9. CASE kernel = "merge"
  <2> DEFINE scratch == ScratchNow(K)
  <2>1. scratch \in [0..(K.partials - 1) -> Seq(X)]
    <3>1. Unwritten \in Seq(X)
      BY DEF Unwritten
    <3>2. \A p \in DOMAIN device.scratch : device.scratch[p] \in Seq(X)
      BY <1>4 DEF Within, Results
    <3> HIDE DEF X
    <3>. QED
      BY <3>1, <3>2 DEF ScratchNow
  <2>2. Stored(kernel) = MergeWrites(K, scratch)
    BY <1>9 DEF Stored, K
  <2> HIDE DEF scratch
  <2>3. MergeWrites(K, scratch) \subseteq Segments(host) \X Seq(X)
    <3> HIDE DEF X
    <3>1. host \in Seq(Int) /\ Sizes(host, ValueCount, WarpLimit, ChunkLimit)
      BY LimitsAre DEF Sound
    <3>. QED
      BY <1>1, <2>1, <3>1, MergesStoreLists
  <2>. QED
    BY <2>2, <2>3 DEF Results
<1>10. CASE kernel \notin {"direct", "warp", "cta", "fused", "merge"}
  BY <1>10 DEF Stored
<1>. QED
  BY <1>6, <1>7, <1>8, <1>9, <1>10

\* What a partial kernel of a valid call stores to the scratch.
LEMMA StoredInScratch ==
  ASSUME Sound, device.offsets \in Seq(Int), Len(device.offsets) = Len(job.raw)
  PROVE  Stored("partial") \subseteq (0..(PartialCount(host, ChunkLimit) - 1)) \X Parts
<1>1. /\ LaidOut(KernelArguments, host, WarpLimit, ChunkLimit)
      /\ KernelArguments.values = ValueCount
  BY KernelArgumentsAre
<1>2. PartialWrites(KernelArguments)
        \subseteq (0..(PartialCount(host, ChunkLimit) - 1)) \X Seq(0..(KernelArguments.values - 1))
  BY <1>1, LimitsAre, PartialsStoreLists DEF Sound
<1>3. Stored("partial") = PartialWrites(KernelArguments)
  BY DEF Stored
<1>. QED
  BY <1>1, <1>2, <1>3 DEF Parts

-------------------------------------------------------------------------------
(* Results stay in their places. *)

\* A step that leaves the output, the offsets and the queue.
LEMMA PlaceKept ==
  ASSUME PlaceInv, UNCHANGED <<host, queue>>, job'.path = job.path, job'.raw = job.raw,
         device'.offsets = device.offsets, device'.out = device.out,
         \/ mode \in {"plan", "body", "finally", "prepared", "recorded"}
         \/ mode' \notin {"plan", "body", "finally", "prepared", "recorded"}
  PROVE  PlaceInv'
<1>1. Sound' <=> Sound
  BY DEF Sound
<1>2. Within(device.out, Segments(host), Results)' <=> Within(device.out, Segments(host), Results)
  BY DEF Within, Results
<1>. QED
  BY <1>1, <1>2 DEF PlaceInv

\* The host copy: the offsets that are validated are as many as the call was given.
LEMMA ValidateShapesKeepsPlace ==
  ASSUME IInv, GradientInv, PlaceInv, ValidateShapes
  PROVE  PlaceInv'
<1> DEFINE raw == IF saved.forward = <<>> THEN device.offsets ELSE Kept
<1>1. /\ mode = "shapes" /\ device' = [device EXCEPT !.out = <<>>]
      /\ queue = <<>> /\ UNCHANGED <<job, saved, queue>>
  BY DEF ValidateShapes
<1>2. \/ mode' = "ended"
      \/ mode' = "plan" /\ CallVerdict(raw) = "valid" /\ host' = HostOffsets(raw, job.wide)
  BY DEF ValidateShapes, Refuse
<1>3. device'.out = <<>> /\ device'.offsets = device.offsets
  BY <1>1 DEF GradientInv
<1>4. raw \in Seq(Int) /\ Len(raw) = Len(job.raw)
  <2>1. job.raw \in Seq(Int) /\ device.offsets \in Seq(Int)
        /\ Len(device.offsets) = Len(job.raw)
    BY DEF IInv, CallType, PlaceInv
  <2>2. saved.forward # <<>> => saved.offsets = job.raw
    BY <1>1 DEF GradientInv
  <2>. QED
    BY <2>1, <2>2 DEF Kept
<1>5. CASE mode' = "plan" /\ CallVerdict(raw) = "valid" /\ host' = HostOffsets(raw, job.wide)
  <2> DEFINE planned == job.path \in {"reduce", "prepared"}
  <2> DEFINE verdict == HostVerdict(raw, job.wide, ValueCount, planned, ChunkLimit)
  <2> HIDE DEF raw
  <2>1. CallVerdict(raw)
          = IF verdict = "valid" /\ job.path = "softmax" /\ Last(raw) # ValueCount
            THEN "does not cover" ELSE verdict
    BY DEF CallVerdict
  <2>2. verdict = "valid"
    <3> HIDE DEF verdict
    <3>. QED
      BY <1>5, <2>1
  <2>3. HostVerdict(raw, job.wide, ValueCount, planned, ChunkLimit) = "valid"
    BY <2>2
  <2> HIDE DEF planned, verdict
  <2>4. Valid(raw, ValueCount) /\ HostOffsets(raw, job.wide) = raw
    BY <1>4, <2>3, HostAdmits
  <2>5. Sound'
    BY <1>1, <1>4, <1>5, <2>4 DEF Sound
  <2>. QED
    BY <1>1, <1>3, <2>5 DEF PlaceInv, Within
<1>6. CASE mode' = "ended"
  BY <1>1, <1>3, <1>6 DEF PlaceInv, Within
<1>. QED
  BY <1>2, <1>5, <1>6

\* An enqueue: only the fixed launch enqueues the fixed kernel.
LEMMA EnqueueKeepsPlace ==
  ASSUME IInv, PlaceInv, Enqueue
  PROVE  PlaceInv'
<1> DEFINE kernel == Head(todo)[2]
<1>1. /\ mode = "body" /\ todo # <<>> /\ Head(todo)[1] = "enqueue"
      /\ mode' \in {"body", "finally"} /\ UNCHANGED <<job, host, device>>
      /\ queue' = queue \/ queue' = Append(queue, kernel)
  BY DEF Enqueue, At, Go, Raise
<1>2. queue \in Seq(Kernels \cup {"wait"})
  BY DEF IInv, CallType
<1>3. job.path = "fixed" => kernel = "fixed"
  <2>1. SUFFICES ASSUME job.path = "fixed"
                 PROVE  kernel = "fixed"
    OBVIOUS
  <2>2. policy = "none"
    BY <2>1 DEF IInv, PathInv
  <2>3. todo \in Seq(Allowed)
    BY <1>1, <2>2 DEF IInv, BodyInv
  <2>4. Head(todo) \in Allowed
    BY <1>1, <2>3
  <2>. QED
    BY <1>1, <2>1, <2>4 DEF Allowed
<1> HIDE DEF kernel
<1>4. ToSet(queue') \subseteq ToSet(queue) \cup {kernel}
  <2>1. CASE queue' = queue
    BY <2>1
  <2>2. CASE queue' = Append(queue, kernel)
    BY <1>2, <2>2 DEF ToSet
  <2>. QED
    BY <1>1, <2>1, <2>2
<1>5. Sound' <=> Sound
  BY <1>1 DEF Sound
<1>6. Within(device.out, Segments(host), Results)' <=> Within(device.out, Segments(host), Results)
  BY <1>1 DEF Within, Results
<1>. QED
  BY <1>1, <1>3, <1>4, <1>5, <1>6 DEF PlaceInv

\* A launch may put a wait in the queue.
LEMMA LaunchKeepsPlace ==
  ASSUME IInv, GradientInv, PlaceInv, NEW p, NEW c, Launch(p, c)
  PROVE  PlaceInv'
<1> DEFINE complete == device.ready \/ device.upload # "queued"
<1>1. /\ mode = "prepared" /\ UNCHANGED <<job, host>>
      /\ mode' \in {"prepared", "body"}
      /\ \/ device' = device
         \/ device' = [device EXCEPT !.ready = complete, !.capturing = c]
  BY DEF Launch, RefuseLaunch
<1>2. device'.offsets = device.offsets /\ device'.out = device.out
  <2> HIDE DEF complete
  <2>. QED
    BY <1>1 DEF GradientInv
<1>3. job.path = "prepared"
  BY <1>1 DEF IInv, PathInv
<1>4. Sound' <=> Sound
  BY <1>1 DEF Sound
<1>5. Within(device.out, Segments(host), Results)' <=> Within(device.out, Segments(host), Results)
  BY <1>1, <1>2 DEF Within, Results
<1>. QED
  BY <1>1, <1>2, <1>3, <1>4, <1>5 DEF PlaceInv

\* The device runs a kernel: what it stores lies within the output.
LEMMA RunKeepsPlace ==
  ASSUME IInv, GradientInv, PlaceInv, ScratchInv, Run
  PROVE  PlaceInv'
<1> DEFINE kernel == Head(queue)
<1>1. /\ queue # <<>>
      /\ kernel = "wait" => device.upload = "done"
      /\ UNCHANGED <<job, mode, host>> /\ queue' = Tail(queue)
      /\ device' = CASE kernel \in {"wait", "fixed"} -> device
                     [] kernel = "partial" ->
                          [device EXCEPT !.scratch = Store(@, Stored("partial"))]
                     [] OTHER -> [device EXCEPT !.out = Store(@, Stored(kernel))]
  BY DEF Run
<1>2. queue \in Seq(Kernels \cup {"wait"})
  BY DEF IInv, CallType
<1>3. kernel \in ToSet(queue) /\ ToSet(queue') \subseteq ToSet(queue)
  <2>1. queue[1] = kernel /\ 1 \in DOMAIN queue
    BY <1>1, <1>2
  <2>2. \A i \in DOMAIN Tail(queue) : i + 1 \in DOMAIN queue /\ Tail(queue)[i] = queue[i + 1]
    BY <1>1, <1>2
  <2>. QED
    BY <1>1, <2>1, <2>2 DEF ToSet
<1> HIDE DEF kernel
<1>4. /\ device'.offsets = device.offsets
      /\ Within(device'.out, Segments(host), Results)
  <2>1. CASE kernel \in {"wait", "fixed"}
    <3>1. device' = device
      BY <1>1, <2>1
    <3>. QED
      BY <3>1 DEF PlaceInv
  <2>2. CASE kernel = "partial"
    <3>1. device' = [device EXCEPT !.scratch = Store(@, Stored("partial"))]
      BY <1>1, <2>2
    <3>2. device'.offsets = device.offsets /\ device'.out = device.out
      BY <3>1 DEF GradientInv
    <3>. QED
      BY <3>2 DEF PlaceInv
  <2>3. CASE kernel \notin {"wait", "fixed", "partial"}
    <3>1. device' = [device EXCEPT !.out = Store(@, Stored(kernel))]
      BY <1>1, <2>3
    <3>2. device'.offsets = device.offsets /\ device'.out = Store(device.out, Stored(kernel))
      BY <3>1 DEF GradientInv
    <3>3. Sound
      <4>1. job.path # "fixed"
        BY <1>3, <2>3 DEF PlaceInv
      <4>. QED
        BY <1>1, <4>1 DEF PlaceInv
    <3>4. Stored(kernel) \subseteq Segments(host) \X Results
      BY <2>3, <3>3, StoredInOutput DEF PlaceInv, ScratchInv
    <3>5. Within(Store(device.out, Stored(kernel)), Segments(host), Results)
      BY <3>4, StoreWithin DEF PlaceInv
    <3>. QED
      BY <3>2, <3>5
  <2>. QED
    BY <2>1, <2>2, <2>3
<1>5. Within(device.out, Segments(host), Results)' <=> Within(device'.out, Segments(host), Results)
  BY <1>1 DEF Within, Results
<1>6. Sound' <=> Sound
  BY <1>1 DEF Sound
<1>. QED
  BY <1>1, <1>3, <1>4, <1>5, <1>6 DEF PlaceInv

\* The end of a call, its backward, and what happens to its tensors.
LEMMA OthersKeepPlace ==
  ASSUME IInv, GradientInv, PlaceInv,
         \/ FrontDoor \/ Plan \/ RefuseProgram \/ Compile \/ Lease \/ Upload \/ EndPhase
         \/ EndBody \/ Retain \/ Advance \/ Release \/ Conclude \/ Backward \/ CompleteUpload
         \/ Rebind \/ Drop \/ (\E x \in Foreign : Reuse(x)) \/ UNCHANGED vars
  PROVE  PlaceInv'
<1>0. DOMAIN device = {"offsets", "written", "out", "scratch", "upload", "ready", "capturing"}
  BY DEF GradientInv
<1>1. CASE FrontDoor \/ Drop
  <2>1. UNCHANGED <<job, host, queue, device>> /\ mode' \in {"shapes", "ended", "dropped"}
    BY <1>1 DEF FrontDoor, Drop, Refuse
  <2>. QED
    BY <2>1, PlaceKept
<1>2. CASE Plan \/ RefuseProgram \/ Compile \/ Lease \/ EndPhase \/ EndBody \/ Retain
           \/ Advance \/ Release \/ Conclude
  <2>1. UNCHANGED <<job, host, queue, device>> /\ mode \in {"plan", "body", "finally"}
    BY <1>2 DEF Plan, RefuseProgram, Compile, Lease, EndPhase, EndBody, Retain, Advance,
                Release, Conclude, At, In
  <2>. QED
    BY <2>1, PlaceKept
<1>3. CASE Upload
  <2>1. \/ device' = device
        \/ \E u : device' = [device EXCEPT !.upload = u]
    <3>1. \/ UNCHANGED device
          \/ device' = [device EXCEPT !.upload =
                IF Head(todo)[2] # "records" THEN @
                ELSE IF job.path = "prepared" THEN "queued" ELSE "done"]
      BY <1>3 DEF Upload
    <3>. QED
      BY <3>1
  <2>2. UNCHANGED <<job, host, queue>> /\ mode = "body"
    BY <1>3 DEF Upload, At
  <2>3. device'.offsets = device.offsets /\ device'.out = device.out
    BY <1>0, <2>1
  <2>. QED
    BY <2>2, <2>3, PlaceKept
<1>4. CASE Backward
  <2>1. /\ UNCHANGED <<host, queue, device>> /\ mode = "recorded"
        /\ job' = job \/ job' = [job EXCEPT !.path = "reduce", !.recording = FALSE]
    BY <1>4 DEF Backward, Refuse
  <2>2. job.path # "fixed" /\ job'.path # "fixed" /\ job'.raw = job.raw
    BY <2>1 DEF IInv, PathInv, CallType, Public
  <2>3. Sound' <=> Sound
    BY <2>1, <2>2 DEF Sound
  <2>4. Within(device.out, Segments(host), Results)' <=> Within(device.out, Segments(host), Results)
    BY <2>1 DEF Within, Results
  <2>. QED
    BY <2>1, <2>2, <2>3, <2>4 DEF PlaceInv
<1>5. CASE CompleteUpload \/ Rebind
  <2>1. /\ UNCHANGED <<job, host, queue, mode>>
        /\ \/ device' = [device EXCEPT !.upload = "done"]
           \/ device' = [device EXCEPT !.written = "rebound"]
    BY <1>5 DEF CompleteUpload, Rebind
  <2>2. device'.offsets = device.offsets /\ device'.out = device.out
    BY <1>0, <2>1
  <2>. QED
    BY <2>1, <2>2, PlaceKept
<1>6. CASE (\E x \in Foreign : Reuse(x)) \/ UNCHANGED vars
  <2>1. UNCHANGED <<job, host, queue, device, mode>>
    BY <1>6 DEF Reuse, vars
  <2>. QED
    BY <2>1, PlaceKept
<1>. QED
  BY <1>1, <1>2, <1>3, <1>4, <1>5, <1>6

\* A write to the offsets leaves as many words as there were.
LEMMA WriteOffsetsKeepsPlace ==
  ASSUME IInv, GradientInv, PlaceInv, WriteOffsets
  PROVE  PlaceInv'
<1>1. /\ UNCHANGED <<job, mode, host, queue>>
      /\ \/ device' = [device EXCEPT !.offsets = Scrambled, !.written = "counted"]
         \/ device' = [device EXCEPT !.offsets = Scrambled, !.written = "uncounted"]
  BY DEF WriteOffsets
<1>2. device'.offsets = Scrambled /\ device'.out = device.out
  BY <1>1 DEF GradientInv
<1>3. Scrambled \in Seq(Int) /\ Len(Scrambled) = Len(device.offsets)
  <2>1. device.offsets \in Seq(Int) /\ I32Limit \in Int
    BY PlanAssumption DEF PlaceInv
  <2>2. DOMAIN device.offsets = 1..Len(device.offsets) /\ Len(device.offsets) \in Nat
    BY <2>1
  <2>3. \A i : (IF i % 2 = 1 THEN -1 ELSE I32Limit - 1) \in Int
    BY <2>1
  <2> DEFINE word(i) == IF i % 2 = 1 THEN -1 ELSE I32Limit - 1
  <2> DEFINE n == Len(device.offsets)
  <2>4. Scrambled = [i \in 1..n |-> word(i)]
    BY <2>2 DEF Scrambled
  <2>5. n \in Nat /\ \A i : word(i) \in Int
    BY <2>2, <2>3
  <2> HIDE DEF word, n
  <2>6. Scrambled \in Seq(Int) /\ Len(Scrambled) = n
    BY <2>4, <2>5
  <2>. QED
    BY <2>6 DEF n
<1>4. Sound' <=> Sound
  BY <1>1 DEF Sound
<1>5. Within(device.out, Segments(host), Results)' <=> Within(device.out, Segments(host), Results)
  BY <1>1, <1>2 DEF Within, Results
<1>. QED
  BY <1>1, <1>2, <1>3, <1>4, <1>5 DEF PlaceInv

-------------------------------------------------------------------------------
(* Uploads and enqueues of the bodies. *)

\* The enqueues of a kernel that reads the records.
LEMMA ReaderStepsAre ==
  /\ \A x \in ReaderSteps : x[1] = "enqueue" /\ x[2] \in Readers
  /\ \A k : <<"enqueue", k>> \in ReaderSteps <=> k \in Readers
BY DEF ReaderSteps

\* Steps that enqueue other kernels, or none.
LEMMA OtherKernels ==
  ASSUME NEW X, \A x \in X : x[1] = "enqueue" => x[2] \notin Readers
  PROVE  X \cap ReaderSteps = {}
BY ReaderStepsAre

\* A script without an enqueue.
LEMMA NoEnqueueNoReader ==
  ASSUME NEW s, ~Has(s, "enqueue")
  PROVE  ToSet(s) \cap ReaderSteps = {}
<1>1. \A x \in ToSet(s) : x[1] # "enqueue"
  BY DEF Has, ToSet
<1>. QED
  BY <1>1, OtherKernels

\* No kernel that reads the records, or an upload of the records before it.
LEMMA NoReaderFollows ==
  ASSUME NEW steps, ToSet(steps) \cap ReaderSteps = {}
  PROVE  ReadersFollow(steps)
BY DEF ReadersFollow, ToSet

\* Scripts in a row, where the first uploads the records.
LEMMA UploadThenReaders ==
  ASSUME NEW S, NEW s \in Seq(S), NEW t \in Seq(S),
         <<"upload", "records">> \in ToSet(s), ToSet(s) \cap ReaderSteps = {}
  PROVE  ReadersFollow(s \o t)
<1> DEFINE u == s \o t
<1>1. /\ DOMAIN u = 1..(Len(s) + Len(t)) /\ DOMAIN s = 1..Len(s)
      /\ Len(s) \in Nat /\ Len(t) \in Nat
      /\ \A i \in 1..Len(s) : u[i] = s[i]
  BY Joined
<1>2. PICK j \in 1..Len(s) : s[j] = <<"upload", "records">>
  BY <1>1 DEF ToSet
<1> HIDE DEF u
<1>3. ASSUME NEW i \in DOMAIN u, u[i] \in ReaderSteps
      PROVE  \E k \in 1..(i - 1) : u[k] = <<"upload", "records">>
  <2>1. i > Len(s)
    <3>1. i \in 1..Len(s) => s[i] \in ToSet(s)
      BY <1>1 DEF ToSet
    <3>2. i \in 1..Len(s) => s[i] \in ReaderSteps
      BY <1>1, <1>3
    <3>. QED
      BY <1>1, <3>1, <3>2
  <2>2. j \in 1..(i - 1) /\ u[j] = <<"upload", "records">>
    BY <1>1, <1>2, <2>1
  <2>. QED
    BY <2>2
<1>. QED
  BY <1>3 DEF ReadersFollow, u

\* Two scripts in a row.
LEMMA Chained ==
  ASSUME NEW S, NEW s \in Seq(S), NEW t \in Seq(S), ~Has(s, "enqueue"), ~Has(t, "enqueue")
  PROVE  s \o t \in Seq(S) /\ ~Has(s \o t, "enqueue")
<1>1. s \o t \in Seq(S)
  BY Joined
<1>2. ~Has(s \o t, "enqueue")
  BY HasJoined
<1>. QED
  BY <1>1, <1>2

\* A step of one of them is a step of both.
LEMMA StepOfJoined ==
  ASSUME NEW S, NEW s \in Seq(S), NEW t \in Seq(S), NEW x, x \in ToSet(s) \/ x \in ToSet(t)
  PROVE  x \in ToSet(s \o t)
<1>1. ToSet(s \o t) = ToSet(s) \cup ToSet(t)
  BY Joined
<1>. QED
  BY <1>1

\* A launch of one kernel enqueues that kernel, and nothing else does.
LEMMA OneEnqueue ==
  ASSUME NEW S, NEW before \in Seq(S), ~Has(before, "enqueue"), NEW kernel,
         <<"lease", kernel>> \in S, <<"enqueue", kernel>> \in S,
         NEW s \in ToSet(LaunchOne(before, kernel)), s[1] = "enqueue"
  PROVE  s = <<"enqueue", kernel>>
<1> DEFINE t == <<<<"lease", kernel>>, <<"enqueue", kernel>>>>
<1>1. t \in Seq(S) /\ ToSet(t) = {<<"lease", kernel>>, <<"enqueue", kernel>>}
  <2> DEFINE x == <<"lease", kernel>>
  <2> DEFINE y == <<"enqueue", kernel>>
  <2>1. x \in S /\ y \in S
    OBVIOUS
  <2> HIDE DEF x, y
  <2>2. <<x, y>> \in Seq(S) /\ ToSet(<<x, y>>) = {x, y}
    BY <2>1 DEF ToSet
  <2>. QED
    BY <2>2 DEF x, y
<1>2. LaunchOne(before, kernel) = before \o t
  BY DEF LaunchOne
<1> HIDE DEF t
<1>3. ToSet(before \o t) = ToSet(before) \cup ToSet(t)
  BY <1>1, Joined
<1>4. s \notin ToSet(before)
  BY DEF Has, ToSet
<1>. QED
  BY <1>1, <1>2, <1>3, <1>4

\* The launches of one kernel enqueue no partial and no merge kernel.
LEMMA OneKernelEnqueues ==
  \A b \in {ColumnsBody, SoftmaxBody, DirectBody, TasksBody} :
    \A s \in ToSet(b) : s[1] = "enqueue" => s[2] \in {"cta", "direct"}
<1>1. /\ <<"compile", "cta">> \in Ordinary /\ <<"compile", "direct">> \in Ordinary
      /\ \A k \in {"cta", "direct"} : <<"lease", k>> \in Ordinary /\ <<"enqueue", k>> \in Ordinary
  BY DEF Ordinary, Kernels, Writers
<1> HIDE DEF Ordinary
<1> DEFINE a == <<<<"compile", "cta">>>>
<1> DEFINE b == <<<<"compile", "direct">>>>
<1> DEFINE i == <<<<"upload", "ids">>>>
<1>2. /\ a \in Seq(Ordinary) /\ ~Has(a, "enqueue") /\ b \in Seq(Ordinary) /\ ~Has(b, "enqueue")
      /\ ~Has(i, "enqueue")
  <2>1. a \in Seq(Ordinary) /\ ~Has(a, "enqueue")
    BY <1>1, OneStep
  <2>2. b \in Seq(Ordinary) /\ ~Has(b, "enqueue")
    BY <1>1, OneStep
  <2>3. DOMAIN i = {1} /\ i[1] = <<"upload", "ids">>
    OBVIOUS
  <2>4. ~Has(i, "enqueue")
    BY <2>3 DEF Has
  <2>. QED
    BY <2>1, <2>2, <2>4
<1>3. i \in Seq(Ordinary)
  BY Uploads
<1>4. /\ ColumnsBody = IF job.path = "softmax" THEN LaunchOne((a \o Narrowed) \o i, "cta")
                                              ELSE LaunchOne(b, "direct")
      /\ SoftmaxBody = LaunchOne(Narrowed \o b, "direct")
      /\ DirectBody = LaunchOne(b, "direct") /\ TasksBody = LaunchOne(a, "cta")
  BY DEF ColumnsBody, SoftmaxBody, DirectBody, TasksBody
<1> HIDE DEF a, b, i
<1>5. Narrowed \in Seq(Ordinary) /\ ~Has(Narrowed, "enqueue")
  BY Uploads
<1>6. a \o Narrowed \in Seq(Ordinary) /\ ~Has(a \o Narrowed, "enqueue")
  BY <1>2, <1>5, Chained
<1>7. (a \o Narrowed) \o i \in Seq(Ordinary) /\ ~Has((a \o Narrowed) \o i, "enqueue")
  BY <1>2, <1>3, <1>6, Chained
<1>8. Narrowed \o b \in Seq(Ordinary) /\ ~Has(Narrowed \o b, "enqueue")
  BY <1>2, <1>5, Chained
<1> DEFINE Only(steps) == \A s \in ToSet(steps) : s[1] = "enqueue" => s[2] \in {"cta", "direct"}
<1>9. ASSUME NEW before \in Seq(Ordinary), ~Has(before, "enqueue"), NEW k \in {"cta", "direct"}
      PROVE  Only(LaunchOne(before, k))
  <2>1. ASSUME NEW s \in ToSet(LaunchOne(before, k)), s[1] = "enqueue"
        PROVE  s = <<"enqueue", k>>
    BY <1>1, <1>9, <2>1, OneEnqueue
  <2>. QED
    BY <2>1
<1> HIDE DEF Only
<1>10. /\ Only(LaunchOne((a \o Narrowed) \o i, "cta")) /\ Only(LaunchOne(b, "direct"))
       /\ Only(LaunchOne(Narrowed \o b, "direct")) /\ Only(LaunchOne(a, "cta"))
  BY <1>2, <1>7, <1>8, <1>9
<1>11. Only(ColumnsBody) /\ Only(SoftmaxBody) /\ Only(DirectBody) /\ Only(TasksBody)
  BY <1>4, <1>10
<1>. QED
  BY <1>11 DEF Only

\* _launch_planned_reduction uploads the records before it enqueues a merge.
LEMMA PlannedReaders ==
  ReadersFollow(PlannedBody)
<1>1. CASE ChoosesCta
  <2>1. /\ <<"compile", "cta">> \in Ordinary /\ <<"upload", "ids">> \in Ordinary
        /\ <<"lease", "cta">> \in Ordinary /\ <<"enqueue", "cta">> \in Ordinary
    BY DEF Ordinary, Kernels, Writers, Tensors
  <2> DEFINE s == <<<<"compile", "cta">>, <<"upload", "ids">>>>
  <2> HIDE DEF Ordinary
  <2>2. s \in Seq(Ordinary) /\ ~Has(s, "enqueue")
    <3>1. /\ s \in Seq(Ordinary) /\ DOMAIN s = {1, 2}
          /\ s[1] = <<"compile", "cta">> /\ s[2] = <<"upload", "ids">>
      BY <2>1
    <3>. QED
      BY <3>1 DEF Has
  <2>3. PlannedBody = LaunchOne(s \o Narrowed, "cta")
    BY <1>1 DEF PlannedBody
  <2> HIDE DEF s
  <2>4. s \o Narrowed \in Seq(Ordinary) /\ ~Has(s \o Narrowed, "enqueue")
    BY <2>2, Uploads, Joined, HasJoined
  <2>5. ToSet(PlannedBody) \cap ReaderSteps = {}
    <3>1. \A e \in ToSet(PlannedBody) : e[1] = "enqueue" => e = <<"enqueue", "cta">>
      BY <2>1, <2>3, <2>4, OneEnqueue
    <3>2. \A e \in ToSet(PlannedBody) : e[1] = "enqueue" => e[2] \notin Readers
      BY <3>1 DEF Readers
    <3>. QED
      BY <3>2, OtherKernels
  <2>. QED
    BY <2>5, NoReaderFollows
<1>2. CASE ~ChoosesCta
  <2> DEFINE K == (IF Directs THEN <<"fused">> ELSE <<>>) \o SplitKernels
  <2> DEFINE a == Each("compile", K)
  <2> DEFINE b == Each("lease", K)
  <2> DEFINE c == <<<<"upload", "records">>>>
  <2> DEFINE d == Each("enqueue", K)
  <2>1. K \in Seq(Kernels \ {"fixed"})
    BY PlanKernels
  <2>2. PlannedBody = (((a \o b) \o c) \o Scratch) \o d
    BY <1>2 DEF PlannedBody
  <2> HIDE DEF K
  <2>3. /\ a \in Seq(Ordinary) /\ b \in Seq(Ordinary) /\ d \in Seq(Ordinary)
    BY <2>1, EachOrdinary
  <2>4. ~Has(a, "enqueue") /\ ~Has(b, "enqueue")
    BY <2>1, EachHas
  <2>5. /\ c \in Seq(Ordinary) /\ ~Has(c, "enqueue") /\ <<"upload", "records">> \in ToSet(c)
    <3>1. c \in Seq(Ordinary) /\ <<"upload", "records">> \in Ordinary
      BY Uploads DEF Ordinary, Tensors
    <3>2. DOMAIN c = {1} /\ c[1] = <<"upload", "records">>
      OBVIOUS
    <3>. QED
      BY <3>1, <3>2 DEF Has, ToSet
  <2>6. Scratch \in Seq(Ordinary) /\ ~Has(Scratch, "enqueue")
    BY Uploads
  <2> HIDE DEF a, b, c, d
  <2>7. a \o b \in Seq(Ordinary) /\ ~Has(a \o b, "enqueue")
    BY <2>3, <2>4, Joined, HasJoined
  <2>8. /\ (a \o b) \o c \in Seq(Ordinary) /\ ~Has((a \o b) \o c, "enqueue")
        /\ <<"upload", "records">> \in ToSet((a \o b) \o c)
    <3>1. (a \o b) \o c \in Seq(Ordinary) /\ ~Has((a \o b) \o c, "enqueue")
      BY <2>5, <2>7, Chained
    <3>2. <<"upload", "records">> \in ToSet((a \o b) \o c)
      BY <2>5, <2>7, StepOfJoined
    <3>. QED
      BY <3>1, <3>2
  <2> DEFINE s == ((a \o b) \o c) \o Scratch
  <2>9. /\ s \in Seq(Ordinary) /\ ~Has(s, "enqueue") /\ <<"upload", "records">> \in ToSet(s)
    <3>1. s \in Seq(Ordinary) /\ ~Has(s, "enqueue")
      BY <2>6, <2>8, Chained
    <3>2. <<"upload", "records">> \in ToSet(s)
      BY <2>6, <2>8, StepOfJoined
    <3>. QED
      BY <3>1, <3>2
  <2> HIDE DEF s
  <2>10. ToSet(s) \cap ReaderSteps = {}
    BY <2>9, NoEnqueueNoReader
  <2>11. ReadersFollow(s \o d)
    BY <2>3, <2>9, <2>10, UploadThenReaders
  <2>. QED
    BY <2>2, <2>11 DEF s
<1>. QED
  BY <1>1, <1>2

\* So does _launch_planned_rows, and it enqueues a merge only for a split segment.
LEMMA RowsReaders ==
  ReadersFollow(RowsBody)
<1> DEFINE K == (IF Directs THEN <<"cta">> ELSE <<>>) \o SplitKernels
<1> DEFINE a == Each("compile", K)
<1> DEFINE b == Each("lease", K)
<1> DEFINE r == <<<<"upload", "records">>>>
<1> DEFINE i == <<<<"upload", "ids">>>>
<1> DEFINE c == IF Splits THEN r \o Scratch ELSE i \o Narrowed
<1> DEFINE d == Each("enqueue", K)
<1>1. K \in Seq(Kernels \ {"fixed"})
  BY PlanKernels
<1>2. RowsBody = ((a \o b) \o c) \o d
  BY DEF RowsBody
<1>3. ~Splits => ToSet(K) \cap Readers = {}
  <2>1. SUFFICES ASSUME ~Splits
                 PROVE  ToSet(K) \cap Readers = {}
    OBVIOUS
  <2>2. SplitKernels = <<>>
    BY <2>1 DEF SplitKernels
  <2>3. <<"cta">> \in Seq({"cta"}) /\ <<>> \in Seq({"cta"})
    OBVIOUS
  <2>4. K \in Seq({"cta"})
    BY <2>2, <2>3, Joined
  <2>5. ToSet(K) \subseteq {"cta"}
    BY <2>4 DEF ToSet
  <2>6. "cta" \notin Readers
    BY DEF Readers
  <2> HIDE DEF K
  <2>. QED
    BY <2>5, <2>6
<1> HIDE DEF K
<1>4. /\ a \in Seq(Ordinary) /\ b \in Seq(Ordinary) /\ d \in Seq(Ordinary)
  BY <1>1, EachOrdinary
<1>5. ~Has(a, "enqueue") /\ ~Has(b, "enqueue")
  BY <1>1, EachHas
<1>6. /\ r \in Seq(Ordinary) /\ ~Has(r, "enqueue") /\ <<"upload", "records">> \in ToSet(r)
      /\ i \in Seq(Ordinary) /\ ~Has(i, "enqueue")
  <2>1. r \in Seq(Ordinary) /\ i \in Seq(Ordinary)
    BY Uploads
  <2>2. /\ DOMAIN r = {1} /\ r[1] = <<"upload", "records">>
        /\ DOMAIN i = {1} /\ i[1] = <<"upload", "ids">>
    OBVIOUS
  <2>. QED
    BY <2>1, <2>2 DEF Has, ToSet
<1>7. /\ Scratch \in Seq(Ordinary) /\ ~Has(Scratch, "enqueue")
      /\ Narrowed \in Seq(Ordinary) /\ ~Has(Narrowed, "enqueue")
  BY Uploads
<1>d. ToSet(d) \cap ReaderSteps # {} => ToSet(K) \cap Readers # {}
  <2>1. SUFFICES ASSUME NEW x \in ToSet(d), x \in ReaderSteps
                 PROVE  ToSet(K) \cap Readers # {}
    OBVIOUS
  <2>2. PICK k \in Readers : x = <<"enqueue", k>>
    BY <2>1 DEF ReaderSteps
  <2>3. k \in ToSet(K)
    BY <1>1, <2>1, <2>2, EachOf
  <2>. QED
    BY <2>3
<1> HIDE DEF a, b, r, i, d
<1>8. /\ r \o Scratch \in Seq(Ordinary) /\ ~Has(r \o Scratch, "enqueue")
      /\ <<"upload", "records">> \in ToSet(r \o Scratch)
  BY <1>6, <1>7, Joined, HasJoined
<1>9. i \o Narrowed \in Seq(Ordinary) /\ ~Has(i \o Narrowed, "enqueue")
  BY <1>6, <1>7, Joined, HasJoined
<1>10. /\ c \in Seq(Ordinary) /\ ~Has(c, "enqueue")
       /\ Splits => <<"upload", "records">> \in ToSet(c)
  BY <1>8, <1>9
<1> HIDE DEF c
<1>11. a \o b \in Seq(Ordinary) /\ ~Has(a \o b, "enqueue")
  BY <1>4, <1>5, Joined, HasJoined
<1> DEFINE s == (a \o b) \o c
<1>12. /\ s \in Seq(Ordinary) /\ ~Has(s, "enqueue")
       /\ Splits => <<"upload", "records">> \in ToSet(s)
  <2>1. s \in Seq(Ordinary) /\ ~Has(s, "enqueue")
    BY <1>10, <1>11, Chained
  <2>2. ToSet(s) = ToSet(a \o b) \cup ToSet(c)
    <3> DEFINE x == a \o b
    <3>1. x \in Seq(Ordinary) /\ c \in Seq(Ordinary)
      BY <1>10, <1>11
    <3> HIDE DEF x
    <3>2. ToSet(x \o c) = ToSet(x) \cup ToSet(c)
      BY <3>1, StepsOfJoined
    <3>. QED
      BY <3>2 DEF x
  <2> HIDE DEF s
  <2>. QED
    BY <1>10, <2>1, <2>2
<1> HIDE DEF s
<1>13. ToSet(s) \cap ReaderSteps = {}
  BY <1>12, NoEnqueueNoReader
<1>14. CASE Splits
  <2>1. ReadersFollow(s \o d)
    BY <1>4, <1>12, <1>13, <1>14, UploadThenReaders
  <2>. QED
    BY <1>2, <2>1 DEF s
<1>15. CASE ~Splits
  <2>1. ToSet(s \o d) = ToSet(s) \cup ToSet(d)
    BY <1>4, <1>12, Joined
  <2>2. ToSet(s \o d) \cap ReaderSteps = {}
    BY <1>3, <1>13, <1>15, <1>d, <2>1
  <2>. QED
    BY <1>2, <2>2, NoReaderFollows DEF s
<1>. QED
  BY <1>14, <1>15

\* A preparation enqueues nothing, and uploads the records that its launches need.
LEMMA PrepareUploads ==
  /\ ReadersFollow(PrepareBody)
  /\ RecordsNeeded => <<"upload", "records">> \in ToSet(PrepareBody)
<1> DEFINE S == Preparing \cup {<<"advance", 0>>}
<1>1. PrepareBody \in Seq(S) /\ S \cap ReaderSteps = {}
  <2>1. \A x \in S : x[1] # "enqueue"
    BY DEF Preparing
  <2>2. S \cap ReaderSteps = {}
    BY <2>1, OtherKernels
  <2>. QED
    BY <2>2, PrepareShape
<1>2. ReadersFollow(PrepareBody)
  <2> HIDE DEF S
  <2>1. ToSet(PrepareBody) \cap ReaderSteps = {}
    BY <1>1 DEF ToSet
  <2>. QED
    BY <2>1, NoReaderFollows
<1>3. ASSUME RecordsNeeded
      PROVE  <<"upload", "records">> \in ToSet(PrepareBody)
  <2> DEFINE K == <<"warp", "cta">> \o (IF Directs THEN <<"fused">> ELSE <<>>)
                    \o (IF ChoosesCta THEN <<>> ELSE SplitKernels)
  <2> DEFINE a == Each("compile", K)
  <2> DEFINE b == Each("lease", K)
  <2> DEFINE v == <<<<"advance", 0>>>>
  <2> DEFINE i == <<<<"upload", "ids">>>>
  <2> DEFINE r == <<<<"upload", "records">>>>
  <2>1. PrepareBody = (((v \o a) \o b) \o i) \o (r \o Scratch)
    BY <1>3 DEF PrepareBody, RecordsNeeded
  <2>2. K \in Seq(Kernels)
    <3>1. /\ "warp" \in Kernels /\ "cta" \in Kernels /\ "fused" \in Kernels
          /\ "partial" \in Kernels /\ "merge" \in Kernels
      BY DEF Kernels, Writers
    <3> HIDE DEF Kernels
    <3> DEFINE f == IF Directs THEN <<"fused">> ELSE <<>>
    <3> DEFINE g == IF ChoosesCta THEN <<>> ELSE SplitKernels
    <3>2. <<"warp", "cta">> \in Seq(Kernels) /\ f \in Seq(Kernels) /\ g \in Seq(Kernels)
      BY <3>1 DEF SplitKernels
    <3> HIDE DEF f, g
    <3>3. <<"warp", "cta">> \o f \in Seq(Kernels)
      BY <3>2, Joined
    <3>4. (<<"warp", "cta">> \o f) \o g \in Seq(Kernels)
      BY <3>2, <3>3, Joined
    <3>. QED
      BY <3>4 DEF f, g
  <2> HIDE DEF K
  <2> DEFINE T == ({"advance", "compile", "lease", "upload", "alloc"})
                    \X (Kernels \cup Tensors \cup Nat)
  <2>3. /\ {"compile"} \X Kernels \subseteq T /\ {"lease"} \X Kernels \subseteq T
        /\ <<"advance", 0>> \in T /\ <<"upload", "ids">> \in T /\ <<"upload", "records">> \in T
        /\ <<"alloc", "scratch">> \in T
    BY DEF Tensors
  <2> HIDE DEF T
  <2>4. a \in Seq(T) /\ b \in Seq(T)
    <3>1. a \in Seq({"compile"} \X Kernels) /\ b \in Seq({"lease"} \X Kernels)
      BY <2>2, EachOf
    <3>. QED
      BY <2>3, <3>1, SeqMonotonic
  <2>5. /\ v \in Seq(T) /\ i \in Seq(T) /\ r \in Seq(T)
        /\ <<"upload", "records">> \in ToSet(r)
    <3>1. v \in Seq(T) /\ i \in Seq(T) /\ r \in Seq(T)
      BY <2>3, OneStep
    <3>2. DOMAIN r = {1} /\ r[1] = <<"upload", "records">>
      OBVIOUS
    <3>. QED
      BY <3>1, <3>2 DEF ToSet
  <2>6. Scratch \in Seq(T)
    BY <2>3, OneStep, NoStep DEF Scratch
  <2> HIDE DEF a, b, v, i, r
  <2>7. r \o Scratch \in Seq(T) /\ <<"upload", "records">> \in ToSet(r \o Scratch)
    BY <2>5, <2>6, Joined
  <2>8. ((v \o a) \o b) \o i \in Seq(T)
    <3>1. v \o a \in Seq(T)
      BY <2>4, <2>5, Joined
    <3>2. (v \o a) \o b \in Seq(T)
      BY <2>4, <3>1, Joined
    <3>. QED
      BY <2>5, <3>2, Joined
  <2>9. <<"upload", "records">> \in ToSet((((v \o a) \o b) \o i) \o (r \o Scratch))
    <3> DEFINE front == ((v \o a) \o b) \o i
    <3> DEFINE back == r \o Scratch
    <3>1. front \in Seq(T) /\ back \in Seq(T) /\ <<"upload", "records">> \in ToSet(back)
      BY <2>7, <2>8
    <3> HIDE DEF front, back
    <3>2. <<"upload", "records">> \in ToSet(front \o back)
      BY <3>1, StepsOfJoined
    <3>. QED
      BY <3>2 DEF front, back
  <2>. QED
    BY <2>1, <2>9
<1>. QED
  BY <1>2, <1>3

\* The body of every call.
LEMMA BodyUploads ==
  ASSUME job.path \in Paths
  PROVE  /\ ReadersFollow(Body)
         /\ ~Splitting => <<"enqueue", "partial">> \notin ToSet(Body)
         /\ job.path = "prepared" /\ RecordsNeeded => <<"upload", "records">> \in ToSet(Body)
<1>1. job.path \in {"reduce", "softmax", "direct", "prepared", "tasks", "fixed"}
  BY DEF Paths, Public
<1>2. CASE job.path = "reduce"
  <2>1. CASE job.features = 1
    <3>1. Body = PlannedBody
      BY <1>2, <2>1 DEF Body, Rows
    <3>. QED
      BY <1>2, <3>1, PlannedReaders DEF Splitting
  <2>2. CASE job.features # 1
    <3>1. Body = RowsBody
      BY <1>2, <2>2 DEF Body, Rows
    <3>. QED
      BY <1>2, <3>1, RowsReaders DEF Splitting
  <2>. QED
    BY <2>1, <2>2
<1>3. CASE job.path = "prepared"
  <2>1. Body = PrepareBody
    BY <1>3 DEF Body, Rows
  <2>. QED
    BY <1>3, <2>1, PrepareUploads DEF Splitting
<1>4. CASE job.path \in {"softmax", "direct", "tasks"}
  <2>1. Body \in {ColumnsBody, SoftmaxBody, DirectBody, TasksBody}
    <3>1. CASE job.path = "softmax" /\ job.features = 1
      BY <3>1 DEF Body, Rows
    <3>2. CASE job.path = "direct" /\ job.features = 1
      BY <3>2 DEF Body, Rows
    <3>3. CASE job.path \in {"softmax", "direct"} /\ job.features # 1
      BY <3>3 DEF Body, Rows
    <3>4. CASE job.path = "tasks"
      BY <3>4 DEF Body, Rows
    <3>. QED
      BY <1>4, <3>1, <3>2, <3>3, <3>4
  <2>2. \A s \in ToSet(Body) : s[1] = "enqueue" => s[2] \in {"cta", "direct"}
    BY <2>1, OneKernelEnqueues
  <2>3. ToSet(Body) \cap ReaderSteps = {} /\ <<"enqueue", "partial">> \notin ToSet(Body)
    <3>1. "cta" \notin Readers /\ "direct" \notin Readers
      BY DEF Readers
    <3>2. ToSet(Body) \cap ReaderSteps = {}
      BY <2>2, <3>1, OtherKernels
    <3>3. <<"enqueue", "partial">> \notin ToSet(Body)
      BY <2>2
    <3>. QED
      BY <3>2, <3>3
  <2>. QED
    BY <1>4, <2>3, NoReaderFollows
<1>5. CASE job.path = "fixed"
  <2>1. Body = <<<<"compile", "fixed">>, <<"lease", "fixed">>, <<"enqueue", "fixed">>>>
    BY <1>5, FixedSteps DEF Body, Rows
  <2>2. \A s \in ToSet(Body) : s[2] = "fixed"
    BY <2>1 DEF ToSet
  <2>3. ToSet(Body) \cap ReaderSteps = {} /\ <<"enqueue", "partial">> \notin ToSet(Body)
    <3>1. "fixed" \notin Readers
      BY DEF Readers
    <3>2. ToSet(Body) \cap ReaderSteps = {}
      BY <2>2, <3>1, OtherKernels
    <3>3. <<"enqueue", "partial">> \notin ToSet(Body)
      BY <2>2
    <3>. QED
      BY <3>2, <3>3
  <2>. QED
    BY <1>5, <2>3, NoReaderFollows
<1>. QED
  BY <1>1, <1>2, <1>3, <1>4, <1>5

-------------------------------------------------------------------------------
(* Partial results stay in the scratch. *)

\* A step of a script goes on with the rest of it, or ends the body with an error.
LEMMA ScriptStep ==
  ASSUME IInv, Compile \/ Lease \/ Upload \/ Enqueue \/ EndPhase \/ Retain \/ Advance \/ Release
  PROVE  /\ mode \in {"body", "finally"} /\ todo # <<>> /\ UNCHANGED <<job, host, policy>>
         /\ todo \in Seq(BodySteps \cup CleanupSteps)
         /\ \/ mode' = mode /\ todo' = Tail(todo) /\ log'.body = log.body
            \/ mode = "body" /\ mode' = "finally" /\ log'.body # NoError
<1>0. DOMAIN log = {"errors", "body", "cleanup", "raised", "lost", "faults"}
  BY DEF IInv, StoreType
<1>1. /\ mode \in {"body", "finally"} /\ todo # <<>> /\ UNCHANGED <<job, host, policy>>
  BY DEF Compile, Lease, Upload, Enqueue, EndPhase, Retain, Advance, Release, At, In
<1>2. todo \in Seq(BodySteps \cup CleanupSteps)
  <2>1. todo \in Seq(BodySteps) \/ todo \in Seq(CleanupSteps)
    BY <1>1 DEF IInv, CallType
  <2>. QED
    BY <2>1, ListOfMore
<1>3. Head(todo) # NoError
  <2>1. Head(todo) \in BodySteps \cup CleanupSteps
    BY <1>1, <1>2, Rest
  <2>2. Head(todo)[1] # NoError[1]
    BY <2>1 DEF BodySteps, CleanupSteps, NoError
  <2>. QED
    BY <2>2
<1>4. ASSUME NEW cleanup, Raise(Head(todo), cleanup), mode = "body"
      PROVE  mode = "body" /\ mode' = "finally" /\ log'.body # NoError
  BY <1>0, <1>3, <1>4 DEF Raise
<1>5. Slip => log'.body = log.body
  BY <1>0 DEF Slip
<1>6. Go => mode' = mode /\ todo' = Tail(todo) /\ log'.body = log.body
  BY DEF Go
<1>7. CASE Compile \/ Lease \/ Upload
  <2>1. mode = "body" /\ (Go \/ Raise(Head(todo), Finish(attempted)))
    BY <1>7 DEF Compile, Lease, Upload, At
  <2>. QED
    BY <1>1, <1>2, <1>4, <1>6, <2>1
<1>8. CASE Enqueue
  <2>1. mode = "body" /\ (Go \/ \E cleanup : Raise(Head(todo), cleanup))
    BY <1>8 DEF Enqueue, At
  <2>. QED
    BY <1>1, <1>2, <1>4, <1>6, <2>1
<1>9. CASE EndPhase
  <2>1. /\ mode = "body"
        /\ \/ Go
           \/ /\ log.cleanup # NoError /\ log' = [log EXCEPT !.body = log.cleanup]
              /\ mode' = "finally"
    BY <1>9 DEF EndPhase, At
  <2>. QED
    BY <1>0, <1>1, <1>2, <1>6, <2>1
<1>10. CASE Retain \/ Release
  <2>1. mode' = mode /\ todo' = Tail(todo) /\ (UNCHANGED log \/ Slip)
    BY <1>10 DEF Retain, Release
  <2>. QED
    BY <1>1, <1>2, <1>5, <2>1
<1>11. CASE Advance
  <2>1. \/ mode' = mode /\ todo' = Tail(todo) /\ (UNCHANGED log \/ Slip)
        \/ mode = "body" /\ Raise(Head(todo), <<>>)
    BY <1>11 DEF Advance
  <2>. QED
    BY <1>1, <1>2, <1>4, <1>5, <2>1
<1>. QED
  BY <1>7, <1>8, <1>9, <1>10, <1>11

\* A step that leaves the queue and the scratch.
LEMMA ScratchKept ==
  ASSUME ScratchInv, UNCHANGED <<job, host, queue>>, device'.scratch = device.scratch,
         mode' \in {"front", "shapes"} => mode \in {"front", "shapes"},
         mode' = "body" /\ ~Splitting => <<"enqueue", "partial">> \notin ToSet(todo')
  PROVE  ScratchInv'
<1>1. Splitting' <=> Splitting
  BY DEF Splitting
<1>2. Within(device.scratch, 0..(PartialCount(host, ChunkLimit) - 1), Parts)'
        <=> Within(device.scratch, 0..(PartialCount(host, ChunkLimit) - 1), Parts)
  BY DEF Within, Parts, ChunkLimit, Rows
<1>. QED
  BY <1>1, <1>2 DEF ScratchInv

\* A call that is validated starts with no scratch, and so does a backward.
LEMMA ScratchEmpty ==
  ASSUME device'.scratch = <<>>, queue' = queue, "partial" \notin ToSet(queue), mode' # "body"
  PROVE  ScratchInv'
BY DEF ScratchInv, Within

\* Only the calls that split segments enqueue a partial kernel.
LEMMA EnqueueKeepsScratch ==
  ASSUME IInv, ScratchInv, Enqueue
  PROVE  ScratchInv'
<1> DEFINE kernel == Head(todo)[2]
<1>1. /\ mode = "body" /\ todo # <<>> /\ Head(todo)[1] = "enqueue" /\ UNCHANGED device
      /\ queue' = queue \/ queue' = Append(queue, kernel)
  BY DEF Enqueue, At
<1>2. /\ UNCHANGED <<job, host>> /\ mode' \in {"body", "finally"}
      /\ mode' = "body" => todo' = Tail(todo)
      /\ todo \in Seq(BodySteps \cup CleanupSteps)
  BY <1>1, ScriptStep
<1>3. Head(todo) \in ToSet(todo) /\ ToSet(Tail(todo)) \subseteq ToSet(todo)
  BY <1>1, <1>2, Rest
<1>4. ~Splitting => kernel # "partial"
  <2>1. todo \in Seq(BodySteps)
    BY <1>1 DEF IInv, CallType
  <2>2. Head(todo) \in BodySteps
    BY <1>1, <2>1, Rest
  <2>3. Head(todo) = <<"enqueue", kernel>>
    BY <1>1, <2>2 DEF BodySteps
  <2>. QED
    BY <1>1, <1>3, <2>3 DEF ScratchInv
<1> HIDE DEF kernel
<1>5. ToSet(queue') \subseteq ToSet(queue) \cup {kernel}
  <2>1. CASE queue' = queue
    BY <2>1
  <2>2. CASE queue' = Append(queue, kernel)
    <3>1. queue \in Seq(Kernels \cup {"wait"})
      BY DEF IInv, CallType
    <3>. QED
      BY <2>2, <3>1 DEF ToSet
  <2>. QED
    BY <1>1, <2>1, <2>2
<1>6. Splitting' <=> Splitting
  BY <1>2 DEF Splitting
<1>7. Within(device.scratch, 0..(PartialCount(host, ChunkLimit) - 1), Parts)'
        <=> Within(device.scratch, 0..(PartialCount(host, ChunkLimit) - 1), Parts)
  BY <1>1, <1>2 DEF Within, Parts, ChunkLimit, Rows
<1>8. mode' \notin {"front", "shapes"}
  BY <1>2
<1>9. ~Splitting => device.scratch = <<>> /\ "partial" \notin ToSet(queue')
  BY <1>4, <1>5 DEF ScratchInv
<1>10. mode' = "body" /\ ~Splitting => <<"enqueue", "partial">> \notin ToSet(todo')
  BY <1>1, <1>2, <1>3 DEF ScratchInv
<1>. QED
  BY <1>1, <1>6, <1>7, <1>8, <1>9, <1>10 DEF ScratchInv

\* The device runs a kernel: what it stores lies within the scratch.
LEMMA RunKeepsScratch ==
  ASSUME IInv, GradientInv, PlaceInv, ScratchInv, Run
  PROVE  ScratchInv'
<1> DEFINE kernel == Head(queue)
<1>1. /\ queue # <<>> /\ UNCHANGED <<job, mode, host, todo>> /\ queue' = Tail(queue)
      /\ mode # "body"
      /\ device' = CASE kernel \in {"wait", "fixed"} -> device
                     [] kernel = "partial" ->
                          [device EXCEPT !.scratch = Store(@, Stored("partial"))]
                     [] OTHER -> [device EXCEPT !.out = Store(@, Stored(kernel))]
  BY DEF Run, Between
<1>2. queue \in Seq(Kernels \cup {"wait"})
  BY DEF IInv, CallType
<1>3. kernel \in ToSet(queue) /\ ToSet(queue') \subseteq ToSet(queue)
  BY <1>1, <1>2, Rest
<1> HIDE DEF kernel
<1> DEFINE places == 0..(PartialCount(host, ChunkLimit) - 1)
<1>4. Within(device.scratch, 0..(PartialCount(host, ChunkLimit) - 1), Parts)'
        <=> Within(device'.scratch, places, Parts)
  BY <1>1 DEF Within, Parts, ChunkLimit, Rows
<1>5. Splitting' <=> Splitting
  BY <1>1 DEF Splitting
<1>6. CASE kernel = "partial"
  <2>1. device' = [device EXCEPT !.scratch = Store(@, Stored("partial"))]
    BY <1>1, <1>6
  <2>2. device'.scratch = Store(device.scratch, Stored("partial"))
    BY <2>1 DEF GradientInv
  <2>3. Splitting /\ mode \notin {"front", "shapes"}
    BY <1>3, <1>6 DEF ScratchInv
  <2>4. Sound
    BY <1>1, <2>3 DEF Splitting, PlaceInv
  <2>5. Stored("partial") \subseteq places \X Parts
    BY <2>4, StoredInScratch DEF PlaceInv
  <2> HIDE DEF places
  <2>6. Within(device.scratch, places, Parts)
    BY DEF ScratchInv, places
  <2>7. Within(device'.scratch, places, Parts)
    BY <2>2, <2>5, <2>6, StoreWithin
  <2>. QED
    BY <1>1, <1>4, <1>5, <2>3, <2>7 DEF ScratchInv
<1>7. CASE kernel # "partial"
  <2>1. device'.scratch = device.scratch
    <3>1. CASE kernel \in {"wait", "fixed"}
      BY <1>1, <3>1
    <3>2. CASE kernel \notin {"wait", "fixed"}
      <4>1. device' = [device EXCEPT !.out = Store(@, Stored(kernel))]
        BY <1>1, <1>7, <3>2
      <4>. QED
        BY <4>1 DEF GradientInv
    <3>. QED
      BY <3>1, <3>2
  <2>2. Within(device'.scratch, places, Parts)
    BY <2>1 DEF ScratchInv
  <2>. QED
    BY <1>1, <1>3, <1>4, <1>5, <2>1, <2>2 DEF ScratchInv
<1>. QED
  BY <1>6, <1>7

\* The other steps.
LEMMA OthersKeepScratch ==
  ASSUME IInv, GradientInv, ScratchInv,
         \/ FrontDoor \/ ValidateShapes \/ Plan \/ RefuseProgram \/ Compile \/ Lease \/ Upload
         \/ EndPhase \/ EndBody \/ Retain \/ Advance \/ Release \/ Conclude
         \/ (\E p, c : Launch(p, c)) \/ Backward \/ WriteOffsets \/ Rebind
         \/ CompleteUpload \/ Drop \/ (\E x \in Foreign : Reuse(x)) \/ UNCHANGED vars
  PROVE  ScratchInv'
<1>0. DOMAIN device = {"offsets", "written", "out", "scratch", "upload", "ready", "capturing"}
  BY DEF GradientInv
<1>1. CASE FrontDoor \/ RefuseProgram \/ EndBody \/ Conclude \/ Drop
  <2>1. /\ UNCHANGED <<job, host, queue, device>> /\ mode' # "body"
        /\ mode' = "shapes" => mode = "front"
        /\ mode' # "front"
    BY <1>1 DEF FrontDoor, RefuseProgram, EndBody, Conclude, Drop, Refuse
  <2>. QED
    BY <2>1, ScratchKept
<1>2. CASE ValidateShapes
  <2>1. mode = "shapes" /\ queue = <<>> /\ queue' = queue /\ mode' \in {"ended", "plan"}
        /\ device' = [device EXCEPT !.out = <<>>]
    BY <1>2 DEF ValidateShapes, Refuse
  <2>2. device'.scratch = <<>> /\ "partial" \notin ToSet(queue)
    BY <1>0, <2>1 DEF ScratchInv
  <2>. QED
    BY <2>1, <2>2, ScratchEmpty
<1>3. CASE Plan
  <2>1. /\ mode = "plan" /\ UNCHANGED <<job, host, queue, device>>
        /\ \/ mode' \in {"ended", "finally"}
           \/ mode' = "body" /\ todo' = Body
    BY <1>3 DEF Plan, Refuse
  <2>2. job.path \in Paths
    BY DEF IInv, CallType
  <2>3. ~Splitting => <<"enqueue", "partial">> \notin ToSet(Body)
    BY <2>2, BodyUploads
  <2>. QED
    BY <2>1, <2>3, ScratchKept
<1>4. CASE Compile \/ Lease \/ Upload \/ EndPhase \/ Retain \/ Advance \/ Release
  <2>1. /\ mode \in {"body", "finally"} /\ todo # <<>> /\ UNCHANGED <<job, host>>
        /\ todo \in Seq(BodySteps \cup CleanupSteps)
        /\ mode' \in {"body", "finally"}
        /\ mode' = "body" => mode = "body" /\ todo' = Tail(todo)
    BY <1>4, ScriptStep
  <2>2. queue' = queue
    BY <1>4 DEF Compile, Lease, Upload, EndPhase, Retain, Advance, Release
  <2>3. device'.scratch = device.scratch
    <3>1. CASE Upload
      <4>1. \/ UNCHANGED device
            \/ device' = [device EXCEPT !.upload =
                  IF Head(todo)[2] # "records" THEN @
                  ELSE IF job.path = "prepared" THEN "queued" ELSE "done"]
        BY <3>1 DEF Upload
      <4>. QED
        BY <1>0, <4>1
    <3>2. CASE ~Upload
      BY <1>4, <3>2 DEF Compile, Lease, EndPhase, Retain, Advance, Release
    <3>. QED
      BY <3>1, <3>2
  <2>4. ToSet(Tail(todo)) \subseteq ToSet(todo)
    BY <2>1, Rest
  <2>5. mode' = "body" /\ ~Splitting => <<"enqueue", "partial">> \notin ToSet(todo')
    BY <2>1, <2>4 DEF ScratchInv
  <2>. QED
    BY <2>1, <2>2, <2>3, <2>5, ScratchKept
<1>5. CASE \E p, c : Launch(p, c)
  <2>1. PICK p, c : Launch(p, c)
    BY <1>5
  <2> DEFINE complete == device.ready \/ device.upload # "queued"
  <2>2. /\ mode = "prepared" /\ UNCHANGED <<job, host>> /\ mode' \in {"prepared", "body"}
        /\ device' = device \/ device' = [device EXCEPT !.ready = complete, !.capturing = c]
    BY <2>1 DEF Launch, RefuseLaunch
  <2>3. device'.scratch = device.scratch
    <3> HIDE DEF complete
    <3>. QED
      BY <1>0, <2>2
  <2>4. Splitting /\ Splitting'
    BY <2>2 DEF Splitting, IInv, PathInv
  <2>5. Within(device.scratch, 0..(PartialCount(host, ChunkLimit) - 1), Parts)'
          <=> Within(device.scratch, 0..(PartialCount(host, ChunkLimit) - 1), Parts)
    BY <2>2, <2>3 DEF Within, Parts, ChunkLimit, Rows
  <2>. QED
    BY <2>2, <2>4, <2>5 DEF ScratchInv
<1>6. CASE Backward
  <2>1. /\ UNCHANGED <<host, queue, device>> /\ mode = "recorded"
        /\ \/ UNCHANGED job /\ mode' = "ended"
           \/ job.path = "softmax" /\ mode' = "shapes"
    BY <1>6 DEF Backward, Refuse
  <2>2. CASE UNCHANGED job /\ mode' = "ended"
    BY <2>1, <2>2, ScratchKept
  <2>3. CASE job.path = "softmax" /\ mode' = "shapes"
    <3>1. ~Splitting
      BY <2>3 DEF Splitting
    <3>2. device'.scratch = <<>> /\ "partial" \notin ToSet(queue)
      BY <2>1, <3>1 DEF ScratchInv
    <3>. QED
      BY <2>1, <2>3, <3>2, ScratchEmpty
  <2>. QED
    BY <2>1, <2>2, <2>3
<1>7. CASE WriteOffsets \/ Rebind \/ CompleteUpload
  <2>1. /\ UNCHANGED <<job, mode, host, todo, queue>> /\ mode # "body"
        /\ \/ device' = [device EXCEPT !.offsets = Scrambled, !.written = "counted"]
           \/ device' = [device EXCEPT !.offsets = Scrambled, !.written = "uncounted"]
           \/ device' = [device EXCEPT !.upload = "done"]
           \/ device' = [device EXCEPT !.written = "rebound"]
    BY <1>7 DEF WriteOffsets, Rebind, CompleteUpload, Between
  <2>2. device'.scratch = device.scratch
    BY <1>0, <2>1
  <2>. QED
    BY <2>1, <2>2, ScratchKept
<1>8. CASE (\E x \in Foreign : Reuse(x)) \/ UNCHANGED vars
  <2>1. UNCHANGED <<job, host, queue, device, mode, todo>>
    BY <1>8 DEF Reuse, vars
  <2>. QED
    BY <2>1, ScratchKept DEF ScratchInv
<1>. QED
  BY <1>1, <1>2, <1>3, <1>4, <1>5, <1>6, <1>7, <1>8

-------------------------------------------------------------------------------
(* Merges find their records. *)

\* What a script has left after a step that uploads no records.
LEMMA TailFollows ==
  ASSUME NEW S, NEW steps \in Seq(S), steps # <<>>, ReadersFollow(steps),
         Head(steps) # <<"upload", "records">>
  PROVE  ReadersFollow(Tail(steps))
<1>1. /\ DOMAIN steps = 1..Len(steps) /\ Len(steps) \in Nat /\ Len(steps) >= 1
      /\ DOMAIN Tail(steps) = 1..(Len(steps) - 1) /\ Head(steps) = steps[1]
      /\ \A i \in 1..(Len(steps) - 1) : Tail(steps)[i] = steps[i + 1]
  BY Rest
<1> DEFINE t == Tail(steps)
<1> HIDE DEF t
<1>2. ASSUME NEW i \in DOMAIN t, t[i] \in ReaderSteps, device.upload # "done"
      PROVE  \E j \in 1..(i - 1) : t[j] = <<"upload", "records">>
  <2>1. i \in 1..(Len(steps) - 1) /\ i + 1 \in DOMAIN steps
        /\ steps[i + 1] \in ReaderSteps
    BY <1>1, <1>2 DEF t
  <2>2. PICK j \in 1..i : steps[j] = <<"upload", "records">>
    <3>1. PICK j \in 1..((i + 1) - 1) : steps[j] = <<"upload", "records">>
      BY <1>2, <2>1 DEF ReadersFollow
    <3>. QED
      BY <2>1, <3>1
  <2>3. j # 1
    BY <1>1, <2>2
  <2>4. j - 1 \in 1..(i - 1) /\ j - 1 \in 1..(Len(steps) - 1) /\ (j - 1) + 1 = j
    BY <2>1, <2>2, <2>3
  <2>5. t[j - 1] = <<"upload", "records">>
    BY <1>1, <2>2, <2>4 DEF t
  <2>. QED
    BY <2>4, <2>5
<1>3. ReadersFollow(t)
  BY <1>2 DEF ReadersFollow
<1>. QED
  BY <1>3 DEF t

\* What is queued after what is there does not go before it.
LEMMA WaitsKept ==
  ASSUME NEW S, queue \in Seq(S), ReadersWait, NEW kernel,
         queue' = queue \/ queue' = Append(queue, kernel),
         device'.upload = device.upload, kernel \in Readers => RecordsSent
  PROVE  ReadersWait' /\ (RecordsSent => RecordsSent')
<1> DEFINE n == Len(queue)
<1>1. n \in Nat /\ DOMAIN queue = 1..n
  OBVIOUS
<1>2. CASE queue' = queue
  BY <1>2 DEF ReadersWait, RecordsSent
<1>3. CASE queue' = Append(queue, kernel)
  <2>1. /\ DOMAIN queue' = 1..(n + 1) /\ queue'[n + 1] = kernel
        /\ \A i \in 1..n : queue'[i] = queue[i]
    BY <1>3
  <2> HIDE DEF n
  <2>2. RecordsSent => RecordsSent'
    <3>1. "wait" \in ToSet(queue) => "wait" \in ToSet(queue')
      BY <1>1, <2>1 DEF ToSet
    <3>. QED
      BY <3>1 DEF RecordsSent
  <2>3. ASSUME NEW i \in DOMAIN queue', queue'[i] \in Readers, device.upload # "done"
        PROVE  \E j \in 1..(i - 1) : queue'[j] = "wait"
    <3>1. CASE i \in 1..n
      <4>1. PICK j \in 1..(i - 1) : queue[j] = "wait"
        BY <1>1, <2>1, <2>3, <3>1 DEF ReadersWait
      <4>2. j \in 1..n
        BY <1>1, <3>1
      <4>. QED
        BY <2>1, <4>1, <4>2
    <3>2. CASE i = n + 1
      <4>1. "wait" \in ToSet(queue)
        BY <2>1, <2>3, <3>2 DEF RecordsSent
      <4>2. PICK j \in 1..n : queue[j] = "wait"
        BY <1>1, <4>1 DEF ToSet
      <4>3. j \in 1..(i - 1)
        BY <1>1, <3>2
      <4>. QED
        BY <2>1, <4>2, <4>3
    <3>. QED
      BY <1>1, <2>1, <3>1, <3>2
  <2>4. ReadersWait'
    BY <2>3 DEF ReadersWait
  <2>. QED
    BY <2>2, <2>4
<1>. QED
  BY <1>2, <1>3

\* A step outside the bodies.
LEMMA UploadsKept ==
  ASSUME UploadInv, UNCHANGED <<job, host, queue>>, device'.upload = device.upload,
         device'.ready = device.ready, mode' # "body",
         mode' \in {"shapes", "plan"} => mode \in {"shapes", "plan"} \/ job.path # "prepared",
         job.path = "prepared" /\ RecordsNeeded =>
           /\ mode' = "prepared" \/ policy' # "none" => device.upload # "none"
           /\ mode' = "finally" /\ policy' = "none" =>
                device.upload # "none" \/ log'.body # NoError
  PROVE  UploadInv'
<1>1. RecordsNeeded' <=> RecordsNeeded
  BY DEF RecordsNeeded, ChoosesCta, ChunkLimit, Rows
<1>2. ReadersWait'
  BY DEF UploadInv, ReadersWait
<1>. QED
  BY <1>1, <1>2 DEF UploadInv

\* A step of a script that uploads nothing.
LEMMA ScriptKeepsUpload ==
  ASSUME IInv, UploadInv, Compile \/ Lease \/ EndPhase \/ Retain \/ Advance \/ Release
  PROVE  UploadInv'
<1>1. /\ mode \in {"body", "finally"} /\ todo # <<>> /\ UNCHANGED <<job, host, policy>>
      /\ todo \in Seq(BodySteps \cup CleanupSteps)
      /\ \/ mode' = mode /\ todo' = Tail(todo) /\ log'.body = log.body
         \/ mode = "body" /\ mode' = "finally" /\ log'.body # NoError
  BY ScriptStep
<1>2. UNCHANGED <<queue, device>> /\ Head(todo)[1] # "upload"
  BY DEF Compile, Lease, EndPhase, Retain, Advance, Release, At, In
<1>3. CASE mode' = "finally"
  BY <1>1, <1>2, <1>3, UploadsKept DEF UploadInv
<1>4. CASE mode' = "body"
  <2>1. mode = "body" /\ todo' = Tail(todo)
    BY <1>1, <1>4
  <2>2. Head(todo) # <<"upload", "records">>
    BY <1>2
  <2>3. ToSet(todo) = {Head(todo)} \cup ToSet(Tail(todo))
    BY <1>1, Rest
  <2>4. RecordsNeeded' <=> RecordsNeeded
    BY <1>1 DEF RecordsNeeded, ChoosesCta, ChunkLimit, Rows
  <2>5. ReadersWait' /\ (RecordsSent' <=> RecordsSent)
    BY <1>2 DEF UploadInv, ReadersWait, RecordsSent
  <2>6. policy = "none" => ReadersFollow(todo)'
    <3>1. SUFFICES ASSUME policy = "none"
                   PROVE  ReadersFollow(todo)'
      OBVIOUS
    <3>2. ReadersFollow(todo)
      BY <2>1, <3>1 DEF UploadInv
    <3>3. ReadersFollow(Tail(todo))
      BY <1>1, <2>2, <3>2, TailFollows
    <3>. QED
      BY <1>2, <2>1, <3>3 DEF ReadersFollow
  <2>7. \A s : s \in ToSet(todo') <=> s \in ToSet(Tail(todo))
    BY <2>1
  <2>. QED
    BY <1>1, <1>2, <1>4, <2>1, <2>2, <2>3, <2>4, <2>5, <2>6, <2>7 DEF UploadInv
<1>. QED
  BY <1>1, <1>3, <1>4

\* An upload: the records of a one-shot call are there for the kernels behind
\* it, and a preparation enqueues nothing.
LEMMA UploadKeepsUpload ==
  ASSUME IInv, GradientInv, UploadInv, Upload
  PROVE  UploadInv'
<1>1. /\ mode \in {"body", "finally"} /\ todo # <<>> /\ UNCHANGED <<job, host, policy>>
      /\ todo \in Seq(BodySteps \cup CleanupSteps)
      /\ \/ mode' = mode /\ todo' = Tail(todo) /\ log'.body = log.body
         \/ mode = "body" /\ mode' = "finally" /\ log'.body # NoError
  BY ScriptStep
<1>2. /\ mode = "body" /\ UNCHANGED queue /\ Head(todo)[1] \in {"upload", "alloc"}
      /\ \/ /\ mode' = mode
            /\ device' = [device EXCEPT !.upload =
                  IF Head(todo)[2] # "records" THEN @
                  ELSE IF job.path = "prepared" THEN "queued" ELSE "done"]
         \/ mode' = "finally" /\ UNCHANGED device
  BY DEF Upload, At, Go, Raise
<1>3. CASE mode' = "finally"
  <2>1. UNCHANGED device
    BY <1>2, <1>3
  <2>. QED
    BY <1>1, <1>2, <1>3, <2>1, UploadsKept DEF UploadInv
<1>4. CASE mode' = "body"
  <2>1. policy = "none" /\ todo \in Seq(Allowed)
    BY <1>1, <1>2, HeadOfBody DEF IInv
  <2>2. todo' = Tail(todo) /\ Tail(todo) \in Seq(Allowed)
    BY <1>1, <1>4, <2>1, Rest
  <2>3. device' = [device EXCEPT !.upload =
                  IF Head(todo)[2] # "records" THEN @
                  ELSE IF job.path = "prepared" THEN "queued" ELSE "done"]
    BY <1>2, <1>4
  <2>4. /\ device'.ready = device.ready
        /\ device'.upload = IF Head(todo)[2] # "records" THEN device.upload
                            ELSE IF job.path = "prepared" THEN "queued" ELSE "done"
    BY <2>3 DEF GradientInv
  <2>5. RecordsNeeded' <=> RecordsNeeded
    BY <1>1 DEF RecordsNeeded, ChoosesCta, ChunkLimit, Rows
  <2>6. ~device.ready /\ (job.path = "prepared" => queue = <<>>)
    BY <1>2, <2>1 DEF UploadInv
  <2>7. CASE Head(todo)[2] # "records"
    <3>1. device'.upload = device.upload /\ Head(todo) # <<"upload", "records">>
      BY <2>4, <2>7
    <3>2. ReadersFollow(todo)
      BY <1>2, <2>1 DEF UploadInv
    <3>3. ReadersFollow(Tail(todo))
      BY <1>1, <3>1, <3>2, TailFollows
    <3>4. ReadersFollow(todo)'
      BY <2>2, <3>1, <3>3 DEF ReadersFollow
    <3>5. ReadersWait'
      BY <1>2, <3>1 DEF UploadInv, ReadersWait
    <3>6. ToSet(todo) = {Head(todo)} \cup ToSet(Tail(todo))
      BY <1>1, Rest
    <3>7. \A s : s \in ToSet(todo') <=> s \in ToSet(Tail(todo))
      BY <2>2
    <3>. QED
      BY <1>1, <1>2, <1>4, <2>1, <2>4, <2>5, <2>6, <3>1, <3>4, <3>5, <3>6, <3>7 DEF UploadInv
  <2>8. CASE Head(todo)[2] = "records" /\ job.path # "prepared"
    <3>1. device'.upload = "done"
      BY <2>4, <2>8
    <3>2. ReadersWait' /\ ReadersFollow(todo)'
      BY <3>1 DEF ReadersWait, ReadersFollow
    <3>. QED
      BY <1>1, <1>2, <1>4, <2>1, <2>4, <2>6, <2>8, <3>1, <3>2 DEF UploadInv
  <2>9. CASE Head(todo)[2] = "records" /\ job.path = "prepared"
    <3>1. device'.upload = "queued" /\ queue' = <<>>
      BY <1>2, <2>4, <2>6, <2>9
    <3>2. ReadersWait'
      BY <3>1 DEF ReadersWait
    <3>3. ToSet(Tail(todo)) \cap ReaderSteps = {}
      <4>1. Allowed \cap ReaderSteps = {}
        <5>1. \A x \in Allowed : x[1] # "enqueue"
          BY <2>9 DEF Allowed
        <5>. QED
          BY <5>1, OtherKernels
      <4>. QED
        BY <2>2, <4>1 DEF ToSet
    <3>4. ReadersFollow(todo)'
      BY <2>2, <3>3 DEF ReadersFollow, ToSet
    <3>. QED
      BY <1>1, <1>2, <1>4, <2>1, <2>4, <2>6, <2>9, <3>1, <3>2, <3>4 DEF UploadInv
  <2>. QED
    BY <2>7, <2>8, <2>9
<1>. QED
  BY <1>1, <1>2, <1>3, <1>4

\* An enqueue of a merge finds its records uploaded, or the launch waiting for them.
LEMMA EnqueueKeepsUpload ==
  ASSUME IInv, UploadInv, Enqueue
  PROVE  UploadInv'
<1> DEFINE kernel == Head(todo)[2]
<1>1. /\ mode = "body" /\ todo # <<>> /\ Head(todo)[1] = "enqueue" /\ UNCHANGED device
      /\ queue' = queue \/ queue' = Append(queue, kernel)
  BY DEF Enqueue, At
<1>2. /\ UNCHANGED <<job, host, policy>>
      /\ todo \in Seq(BodySteps \cup CleanupSteps)
      /\ \/ mode' = mode /\ todo' = Tail(todo) /\ log'.body = log.body
         \/ mode = "body" /\ mode' = "finally" /\ log'.body # NoError
  BY ScriptStep
<1>3. /\ Head(todo) = todo[1] /\ 1 \in DOMAIN todo
      /\ ToSet(todo) = {Head(todo)} \cup ToSet(Tail(todo))
  BY <1>1, <1>2, Rest
<1>4. Head(todo) = <<"enqueue", kernel>>
  <2>1. todo \in Seq(BodySteps)
    BY <1>1 DEF IInv, CallType
  <2>2. Head(todo) \in BodySteps
    BY <1>1, <2>1, Rest
  <2>. QED
    BY <1>1, <2>2 DEF BodySteps
<1>5. policy \in {"none", "warp", "cta", "mixed"} /\ queue \in Seq(Kernels \cup {"wait"})
  BY DEF IInv, CallType
<1>6. kernel \in Readers => RecordsSent
  <2>1. SUFFICES ASSUME kernel \in Readers
                 PROVE  RecordsSent
    OBVIOUS
  <2>2. CASE policy = "none"
    <3>1. ReadersFollow(todo)
      BY <1>1, <2>2 DEF UploadInv
    <3>2. todo[1] \in ReaderSteps
      BY <1>3, <1>4, <2>1, ReaderStepsAre
    <3>3. device.upload = "done" \/ \E j \in 1..(1 - 1) : todo[j] = <<"upload", "records">>
      BY <1>3, <3>1, <3>2 DEF ReadersFollow
    <3>4. 1..(1 - 1) = {}
      OBVIOUS
    <3>. QED
      BY <3>3, <3>4 DEF RecordsSent
  <2>3. CASE policy \in {"warp", "cta"}
    <3>1. todo = <<<<"enqueue", policy>>>>
      BY <1>1, <2>3, HeadOfBody DEF IInv
    <3>2. Head(todo)[2] = policy
      BY <3>1
    <3>. QED
      BY <2>1, <2>3, <3>2 DEF Readers
  <2>4. CASE policy = "mixed"
    <3>1. todo[1] \in ToSet(todo) /\ todo[1] \in ReaderSteps
      BY <1>3, <1>4, <2>1, ReaderStepsAre DEF ToSet
    <3>. QED
      BY <1>1, <2>4, <3>1 DEF UploadInv
  <2>. QED
    BY <1>5, <2>2, <2>3, <2>4
<1>7. ReadersWait' /\ (RecordsSent => RecordsSent')
  <2>1. ReadersWait /\ device'.upload = device.upload
    BY <1>1 DEF UploadInv
  <2> HIDE DEF kernel
  <2>. QED
    BY <1>1, <1>5, <1>6, <2>1, WaitsKept
<1>8. policy = "none" => job.path # "prepared"
  <2>1. SUFFICES ASSUME policy = "none"
                 PROVE  job.path # "prepared"
    OBVIOUS
  <2>2. todo \in Seq(Allowed)
    BY <1>1, <2>1 DEF IInv, BodyInv
  <2>3. Head(todo) \in Allowed
    BY <1>1, <2>2, Rest
  <2>. QED
    BY <1>1, <2>3 DEF Allowed
<1>9. RecordsNeeded' <=> RecordsNeeded
  BY <1>2 DEF RecordsNeeded, ChoosesCta, ChunkLimit, Rows
<1>10. CASE mode' = "finally"
  BY <1>1, <1>2, <1>7, <1>8, <1>9, <1>10 DEF UploadInv
<1>11. CASE mode' = "body"
  <2>1. todo' = Tail(todo)
    BY <1>2, <1>11
  <2>2. policy = "none" => ReadersFollow(todo)'
    <3>1. SUFFICES ASSUME policy = "none"
                   PROVE  ReadersFollow(todo)'
      OBVIOUS
    <3>2. ReadersFollow(todo)
      BY <1>1, <3>1 DEF UploadInv
    <3>3. Head(todo) # <<"upload", "records">>
      BY <1>4
    <3>4. ReadersFollow(Tail(todo))
      BY <1>1, <1>2, <3>2, <3>3, TailFollows
    <3>. QED
      BY <1>1, <2>1, <3>4 DEF ReadersFollow
  <2>3. \A s : s \in ToSet(todo') => s \in ToSet(todo)
    BY <1>3, <2>1
  <2>. QED
    BY <1>1, <1>2, <1>7, <1>8, <1>9, <1>11, <2>2, <2>3 DEF UploadInv
<1>. QED
  BY <1>1, <1>2, <1>10, <1>11

\* A launch of a prepared reduction that needs records waits for them.
LEMMA LaunchKeepsUpload ==
  ASSUME IInv, GradientInv, UploadInv, NEW p \in {"warp", "cta", "mixed"}, NEW c, Launch(p, c)
  PROVE  UploadInv'
<1> DEFINE q == IF p = "mixed" /\ ChoosesCta THEN "cta" ELSE p
<1> DEFINE complete == device.ready \/ device.upload # "queued"
<1>1. /\ mode = "prepared" /\ UNCHANGED <<job, host>>
      /\ \/ UNCHANGED <<mode, todo, policy, queue, device>>
         \/ /\ mode' = "body" /\ policy' = q
            /\ todo' = IF Len(host) = 1 THEN <<>> ELSE LaunchBody(q)
            /\ queue' = IF complete THEN queue ELSE Append(queue, "wait")
            /\ device' = [device EXCEPT !.ready = complete, !.capturing = c]
  BY DEF Launch, RefuseLaunch
<1>2. job.path = "prepared" /\ policy = "none"
  BY <1>1 DEF IInv, PathInv
<1>3. queue \in Seq(Kernels \cup {"wait"})
  BY DEF IInv, CallType
<1>4. RecordsNeeded' <=> RecordsNeeded
  BY <1>1 DEF RecordsNeeded, ChoosesCta, ChunkLimit, Rows
<1>5. CASE UNCHANGED <<mode, todo, policy, queue, device>>
  BY <1>1, <1>2, <1>5, UploadsKept DEF UploadInv
<1>6. CASE mode' = "body" /\ ~UNCHANGED <<mode, todo, policy, queue, device>>
  <2>1. /\ policy' = q /\ todo' = IF Len(host) = 1 THEN <<>> ELSE LaunchBody(q)
        /\ queue' = IF complete THEN queue ELSE Append(queue, "wait")
        /\ device' = [device EXCEPT !.ready = complete, !.capturing = c]
    BY <1>1, <1>6
  <2> HIDE DEF complete
  <2>2. device'.upload = device.upload /\ device'.ready = complete
    BY <2>1 DEF GradientInv
  <2>3. q \in {"warp", "cta", "mixed"} /\ (q = "mixed" => ~ChoosesCta)
    OBVIOUS
  <2>4. ReadersWait'
    <3>1. ReadersWait /\ (queue' = queue \/ queue' = Append(queue, "wait"))
      BY <2>1 DEF UploadInv
    <3>2. "wait" \in Readers => RecordsSent
      BY DEF Readers
    <3>. QED
      BY <1>3, <2>2, <3>1, <3>2, WaitsKept
  <2>5. RecordsNeeded => RecordsSent'
    <3>1. SUFFICES ASSUME RecordsNeeded
                   PROVE  RecordsSent'
      OBVIOUS
    <3>2. device.upload \in {"queued", "done"}
      BY <1>1, <1>2, <3>1 DEF UploadInv
    <3>3. complete => device.upload = "done"
      BY <3>2 DEF complete, UploadInv
    <3>4. ~complete => "wait" \in ToSet(queue')
      BY <1>3, <2>1 DEF ToSet
    <3>. QED
      BY <2>2, <3>3, <3>4 DEF RecordsSent
  <2>6. policy' = "mixed" /\ ToSet(todo') \cap ReaderSteps # {} => RecordsSent'
    <3>1. SUFFICES ASSUME policy' = "mixed", ToSet(todo') \cap ReaderSteps # {}
                   PROVE  RecordsSent'
      OBVIOUS
    <3>2. ~ChoosesCta
      BY <2>1, <2>3, <3>1
    <3>3. Len(host) # 1
      <4>1. ToSet(<<>>) = {}
        BY DEF ToSet
      <4>. QED
        BY <2>1, <3>1, <4>1
    <3>. QED
      BY <2>5, <3>2, <3>3 DEF RecordsNeeded
  <2>7. complete => device.upload # "queued"
    BY DEF complete, UploadInv
  <2>8. RecordsNeeded => device.upload # "none"
    BY <1>1, <1>2 DEF UploadInv
  <2>9. policy' # "none"
    BY <2>1, <2>3
  <2> HIDE DEF q
  <2>. QED
    BY <1>1, <1>2, <1>4, <1>6, <2>2, <2>4, <2>6, <2>7, <2>8, <2>9 DEF UploadInv
<1>. QED
  BY <1>1, <1>5, <1>6

\* A plan: the body uploads the records before it enqueues a merge.
LEMMA PlanKeepsUpload ==
  ASSUME IInv, UploadInv, Plan
  PROVE  UploadInv'
<1>1. /\ mode = "plan" /\ UNCHANGED <<job, host, queue, device, policy>>
      /\ \/ mode' = "ended"
         \/ mode' = "finally" /\ NothingToDo
         \/ mode' = "body" /\ todo' = Body
  BY DEF Plan, Refuse
<1>2. policy = "none" /\ job.path \in Paths
  BY <1>1 DEF IInv, PathInv, CallType
<1>3. CASE mode' = "ended"
  BY <1>1, <1>2, <1>3, UploadsKept
<1>4. CASE mode' = "finally" /\ NothingToDo
  <2>1. job.path # "prepared"
    BY <1>4 DEF NothingToDo
  <2>. QED
    BY <1>1, <1>2, <1>4, <2>1, UploadsKept
<1>5. CASE mode' = "body" /\ todo' = Body
  <2>1. /\ ReadersFollow(Body)
        /\ job.path = "prepared" /\ RecordsNeeded => <<"upload", "records">> \in ToSet(Body)
    BY <1>2, BodyUploads
  <2>2. RecordsNeeded' <=> RecordsNeeded
    BY <1>1 DEF RecordsNeeded, ChoosesCta, ChunkLimit, Rows
  <2>3. ReadersWait'
    BY <1>1 DEF UploadInv, ReadersWait
  <2>4. ReadersFollow(todo)'
    BY <1>1, <1>5, <2>1 DEF ReadersFollow
  <2>5. ToSet(todo') = ToSet(Body)
    BY <1>5
  <2>. QED
    BY <1>1, <1>2, <1>5, <2>1, <2>2, <2>3, <2>4, <2>5 DEF UploadInv
<1>. QED
  BY <1>1, <1>3, <1>4, <1>5

\* The device runs what is oldest, a wait when the upload is complete.
LEMMA RunKeepsUpload ==
  ASSUME IInv, GradientInv, UploadInv, Run
  PROVE  UploadInv'
<1>1. /\ queue # <<>> /\ UNCHANGED <<job, mode, host, todo, policy, log>>
      /\ mode # "body" /\ mode # "finally" /\ queue' = Tail(queue)
      /\ Head(queue) = "wait" => device.upload = "done"
      /\ device' = CASE Head(queue) \in {"wait", "fixed"} -> device
                     [] Head(queue) = "partial" ->
                          [device EXCEPT !.scratch = Store(@, Stored("partial"))]
                     [] OTHER -> [device EXCEPT !.out = Store(@, Stored(Head(queue)))]
  BY DEF Run, Between
<1>2. device'.upload = device.upload /\ device'.ready = device.ready
  <2>1. \/ device' = device
        \/ device' = [device EXCEPT !.scratch = Store(@, Stored("partial"))]
        \/ device' = [device EXCEPT !.out = Store(@, Stored(Head(queue)))]
    BY <1>1
  <2>. QED
    BY <2>1 DEF GradientInv
<1>3. queue \in Seq(Kernels \cup {"wait"})
  BY DEF IInv, CallType
<1>4. /\ DOMAIN queue = 1..Len(queue) /\ Len(queue) \in Nat /\ Len(queue) >= 1
      /\ DOMAIN Tail(queue) = 1..(Len(queue) - 1) /\ Head(queue) = queue[1]
      /\ \A i \in 1..(Len(queue) - 1) : Tail(queue)[i] = queue[i + 1]
  BY <1>1, <1>3, Rest
<1> DEFINE t == Tail(queue)
<1> HIDE DEF t
<1>5. ASSUME NEW i \in DOMAIN t, t[i] \in Readers, device.upload # "done"
      PROVE  \E j \in 1..(i - 1) : t[j] = "wait"
  <2>1. i \in 1..(Len(queue) - 1) /\ i + 1 \in DOMAIN queue /\ queue[i + 1] \in Readers
    BY <1>4, <1>5 DEF t
  <2>2. PICK j \in 1..((i + 1) - 1) : queue[j] = "wait"
    BY <1>5, <2>1 DEF UploadInv, ReadersWait
  <2>3. j # 1
    BY <1>1, <1>4, <1>5, <2>2
  <2>4. j - 1 \in 1..(i - 1) /\ j - 1 \in 1..(Len(queue) - 1) /\ (j - 1) + 1 = j
    BY <2>1, <2>2, <2>3
  <2>5. t[j - 1] = "wait"
    BY <1>4, <2>2, <2>4 DEF t
  <2>. QED
    BY <2>4, <2>5
<1>6. ReadersWait'
  <2>1. queue' = t
    BY <1>1 DEF t
  <2>. QED
    BY <1>2, <1>5, <2>1 DEF ReadersWait
<1>7. RecordsNeeded' <=> RecordsNeeded
  BY <1>1 DEF RecordsNeeded, ChoosesCta, ChunkLimit, Rows
<1>. QED
  BY <1>1, <1>2, <1>6, <1>7 DEF UploadInv

\* The other steps.
LEMMA OthersKeepUpload ==
  ASSUME IInv, GradientInv, UploadInv,
         \/ FrontDoor \/ ValidateShapes \/ RefuseProgram \/ EndBody \/ Conclude \/ Backward
         \/ WriteOffsets \/ Rebind \/ CompleteUpload \/ Drop
         \/ (\E x \in Foreign : Reuse(x)) \/ UNCHANGED vars
  PROVE  UploadInv'
<1>0. /\ DOMAIN device = {"offsets", "written", "out", "scratch", "upload", "ready", "capturing"}
      /\ mode \notin {"body", "finally"} => policy = "none"
  BY DEF GradientInv, IInv, PathInv
<1>1. CASE FrontDoor \/ RefuseProgram
  <2>1. /\ UNCHANGED <<job, host, queue, device, policy>> /\ mode \in {"front", "plan"}
        /\ mode' \in {"shapes", "ended"} /\ (mode' = "shapes" => mode = "front")
    BY <1>1 DEF FrontDoor, RefuseProgram, Refuse
  <2>2. mode = "front" => job.path # "prepared"
    BY DEF IInv, PathInv, Public
  <2>. QED
    BY <1>0, <2>1, <2>2, UploadsKept
<1>2. CASE ValidateShapes
  <2>1. /\ UNCHANGED <<job, queue, policy>> /\ mode = "shapes"
        /\ mode' \in {"ended", "plan"} /\ device' = [device EXCEPT !.out = <<>>]
    BY <1>2 DEF ValidateShapes, Refuse
  <2>2. device'.upload = device.upload /\ device'.ready = device.ready
    BY <1>0, <2>1
  <2>3. ReadersWait'
    BY <2>1, <2>2 DEF UploadInv, ReadersWait
  <2>. QED
    BY <1>0, <2>1, <2>2, <2>3 DEF UploadInv
<1>3. CASE EndBody
  <2>1. /\ UNCHANGED <<job, host, queue, device, policy>> /\ mode = "body" /\ todo = <<>>
        /\ mode' = "finally"
    BY <1>3 DEF EndBody
  <2>2. ToSet(todo) = {}
    BY <2>1 DEF ToSet
  <2>. QED
    BY <2>1, <2>2, UploadsKept DEF UploadInv
<1>4. CASE Conclude
  <2>1. /\ UNCHANGED <<job, host, queue, device>> /\ mode = "finally" /\ policy' = "none"
        /\ mode' \in {"prepared", "recorded", "ended"}
        /\ mode' = "prepared" => policy # "none" \/ Raised = NoError
    BY <1>4 DEF Conclude
  <2>2. Raised = NoError => log.body = NoError
    BY DEF Raised
  <2>. QED
    BY <2>1, <2>2, UploadsKept DEF UploadInv
<1>5. CASE Backward
  <2>1. /\ UNCHANGED <<host, queue, device, policy>> /\ mode = "recorded"
        /\ mode' \in {"ended", "shapes"}
        /\ job' = job \/ job' = [job EXCEPT !.path = "reduce", !.recording = FALSE]
    BY <1>5 DEF Backward, Refuse
  <2>2. job.path # "prepared" /\ job'.path # "prepared"
    BY <2>1 DEF IInv, PathInv, CallType, Public
  <2>3. ReadersWait'
    BY <2>1 DEF UploadInv, ReadersWait
  <2>. QED
    BY <1>0, <2>1, <2>2, <2>3 DEF UploadInv
<1>6. CASE WriteOffsets \/ Rebind
  <2>1. /\ UNCHANGED <<job, mode, host, queue, policy, log>> /\ mode \notin {"body", "finally"}
        /\ \/ device' = [device EXCEPT !.offsets = Scrambled, !.written = "counted"]
           \/ device' = [device EXCEPT !.offsets = Scrambled, !.written = "uncounted"]
           \/ device' = [device EXCEPT !.written = "rebound"]
    BY <1>6 DEF WriteOffsets, Rebind, Between
  <2>2. device'.upload = device.upload /\ device'.ready = device.ready
    BY <1>0, <2>1
  <2>. QED
    BY <1>0, <2>1, <2>2, UploadsKept DEF UploadInv
<1>7. CASE CompleteUpload
  <2>1. /\ UNCHANGED <<job, mode, host, queue, policy>> /\ mode \notin {"body", "finally"}
        /\ device' = [device EXCEPT !.upload = "done"]
    BY <1>7 DEF CompleteUpload, Between
  <2>2. device'.upload = "done" /\ device'.ready = device.ready
    BY <1>0, <2>1
  <2>3. ReadersWait'
    BY <2>2 DEF ReadersWait
  <2>. QED
    BY <1>0, <2>1, <2>2, <2>3 DEF UploadInv
<1>8. CASE Drop
  <2>1. UNCHANGED <<job, host, queue, device, policy>> /\ mode' = "dropped"
        /\ mode \notin {"body", "finally"}
    BY <1>8 DEF Drop
  <2>. QED
    BY <1>0, <2>1, UploadsKept
<1>9. CASE (\E x \in Foreign : Reuse(x)) \/ UNCHANGED vars
  <2>1. UNCHANGED <<job, mode, host, todo, policy, log, queue, device>>
    BY <1>9 DEF Reuse, vars
  <2>2. (ReadersWait' <=> ReadersWait) /\ (ReadersFollow(todo)' <=> ReadersFollow(todo))
        /\ (RecordsSent' <=> RecordsSent) /\ (RecordsNeeded' <=> RecordsNeeded)
    BY <2>1 DEF ReadersWait, ReadersFollow, RecordsSent, RecordsNeeded, ChoosesCta, ChunkLimit, Rows
  <2>. QED
    BY <2>1, <2>2 DEF UploadInv
<1>. QED
  BY <1>1, <1>2, <1>3, <1>4, <1>5, <1>6, <1>7, <1>8, <1>9

-------------------------------------------------------------------------------
(* Every access is in bounds. *)

\* The rows of a list.
LEMMA ListRows ==
  \A S : \A s \in Seq(S) : ToSet(s) \subseteq S
BY DEF ToSet

\* At first nothing is stored.
LEMMA InitIsInBounds ==
  ASSUME Init
  PROVE  BoundInv
<1>1. /\ device = [offsets |-> job.raw, written |-> "no", out |-> <<>>,
                   scratch |-> <<>>, upload |-> "none", ready |-> FALSE,
                   capturing |-> FALSE]
      /\ mode = IF job.path \in Public THEN "front"
                ELSE IF job.path = "fixed" THEN "plan" ELSE "shapes"
      /\ queue = <<>> /\ policy = "none" /\ job \in Jobs
  BY DEF Init
<1>2. job.raw \in Seq(Int)
  BY <1>1, CallsOf
<1>3. /\ device.offsets = job.raw /\ device.out = <<>> /\ device.scratch = <<>>
      /\ device.upload = "none" /\ device.ready = FALSE
  BY <1>1
<1>4. DOMAIN <<>> = {}
  OBVIOUS
<1>5. ToSet(queue) = {} /\ DOMAIN queue = {}
  BY <1>1 DEF ToSet
<1>6. mode \in {"front", "shapes", "plan"} /\ (mode = "plan" => job.path = "fixed")
  BY <1>1
<1>7. PlaceInv
  <2>1. Within(device.out, Segments(host), Results)
    BY <1>3, <1>4 DEF Within
  <2>. QED
    BY <1>1, <1>2, <1>3, <1>5, <1>6, <2>1 DEF PlaceInv
<1>8. ScratchInv
  BY <1>3, <1>4, <1>5, <1>6 DEF ScratchInv, Within
<1>9. UploadInv
  BY <1>1, <1>3, <1>5, <1>6 DEF UploadInv, ReadersWait
<1>. QED
  BY <1>7, <1>8, <1>9 DEF BoundInv

\* Every step keeps results in their places, partial results in the scratch, and
\* the records before the merges that read them.
LEMMA NextKeepsBounds ==
  ASSUME IInv, GradientInv, BoundInv, [Next]_vars
  PROVE  BoundInv'
<1>0. PlaceInv /\ ScratchInv /\ UploadInv
  BY DEF BoundInv
<1>1. CASE Enqueue
  BY <1>0, <1>1, EnqueueKeepsPlace, EnqueueKeepsScratch, EnqueueKeepsUpload DEF BoundInv
<1>2. CASE Run
  BY <1>0, <1>2, RunKeepsPlace, RunKeepsScratch, RunKeepsUpload DEF BoundInv
<1>3. ASSUME NEW p \in {"warp", "cta", "mixed"}, NEW c \in BOOLEAN, Launch(p, c)
      PROVE  BoundInv'
  <2>1. PlaceInv'
    BY <1>0, <1>3, LaunchKeepsPlace
  <2>2. ScratchInv'
    BY <1>0, <1>3, OthersKeepScratch
  <2>3. UploadInv'
    BY <1>0, <1>3, LaunchKeepsUpload
  <2>. QED
    BY <2>1, <2>2, <2>3 DEF BoundInv
<1>4. CASE WriteOffsets
  BY <1>0, <1>4, WriteOffsetsKeepsPlace, OthersKeepScratch, OthersKeepUpload DEF BoundInv
<1>5. CASE ValidateShapes
  BY <1>0, <1>5, ValidateShapesKeepsPlace, OthersKeepScratch, OthersKeepUpload DEF BoundInv
<1>6. CASE Plan
  BY <1>0, <1>6, OthersKeepPlace, OthersKeepScratch, PlanKeepsUpload DEF BoundInv
<1>7. CASE Upload
  BY <1>0, <1>7, OthersKeepPlace, OthersKeepScratch, UploadKeepsUpload DEF BoundInv
<1>8. CASE Compile \/ Lease \/ EndPhase \/ Retain \/ Advance \/ Release
  BY <1>0, <1>8, OthersKeepPlace, OthersKeepScratch, ScriptKeepsUpload DEF BoundInv
<1>9. CASE \/ FrontDoor \/ RefuseProgram \/ EndBody \/ Conclude \/ Backward
           \/ Rebind \/ CompleteUpload \/ Drop \/ (\E x \in Foreign : Reuse(x))
           \/ UNCHANGED vars
  BY <1>0, <1>9, OthersKeepPlace, OthersKeepScratch, OthersKeepUpload DEF BoundInv
<1>. QED
  BY <1>1, <1>2, <1>3, <1>4, <1>5, <1>6, <1>7, <1>8, <1>9 DEF Next

\* The records of a plan fill their buffer, and no kernel stores outside the
\* output or the scratch, or takes a row outside the values, whatever is written
\* to the offsets after they were validated.
THEOREM AccessesAreInBounds == Spec => []AccessInBounds
<1>1. Init => IInv /\ GradientInv /\ BoundInv
  BY InitHolds, InitHasNoGradient, InitIsInBounds
<1>2. (IInv /\ GradientInv /\ BoundInv) /\ [Next]_vars => (IInv /\ GradientInv /\ BoundInv)'
  BY NextKeeps, NextKeepsGradient, NextKeepsBounds
<1>3. BoundInv => AccessInBounds
  <2>1. SUFFICES ASSUME BoundInv
                 PROVE  AccessInBounds
    OBVIOUS
  <2>2. mode = "plan" /\ Planned => RecordsFilled
    <3>1. SUFFICES ASSUME mode = "plan", Planned
                   PROVE  RecordsFilled
      OBVIOUS
    <3>2. Sound
      BY <2>1, <3>1 DEF BoundInv, PlaceInv, Planned
    <3>3. Sizes(host, ValueCount, WarpLimit, ChunkLimit) /\ host \in Seq(Int)
      BY <3>2, LimitsAre DEF Sound
    <3>4. /\ RecordWords(host, WarpLimit, ChunkLimit) \in Nat
          /\ Fills(Stores(host, WarpLimit, ChunkLimit),
                   0..(RecordWords(host, WarpLimit, ChunkLimit) - 1))
      BY <3>3, StoresFill
    <3> DEFINE stores == Stores(host, WarpLimit, ChunkLimit)
    <3> DEFINE words == RecordWords(host, WarpLimit, ChunkLimit)
    <3>5. words \in Nat /\ Fills(stores, 0..(words - 1))
      BY <3>4
    <3> HIDE DEF stores, words
    <3>6. Cardinality(stores) = words /\ {p[1] : p \in stores} = 0..(words - 1)
      BY <3>5, FillsCount
    <3>. QED
      BY <3>6 DEF RecordsFilled, stores, words
  <2>3. ASSUME NEW s \in DOMAIN device.out
        PROVE  /\ s \in 0..(Len(host) - 2)
               /\ ToSet(device.out[s]) \ {-1} \subseteq 0..(ValueCount - 1)
    <3>1. s \in Segments(host) /\ device.out[s] \in Results
      BY <2>1 DEF BoundInv, PlaceInv, Within
    <3>. QED
      BY <3>1, ListRows DEF Segments, Results
  <2>4. ASSUME NEW p \in DOMAIN device.scratch
        PROVE  /\ p \in 0..(PartialCount(host, ChunkLimit) - 1)
               /\ ToSet(device.scratch[p]) \subseteq 0..(ValueCount - 1)
    <3>1. /\ p \in 0..(PartialCount(host, ChunkLimit) - 1)
          /\ device.scratch[p] \in Parts
      BY <2>1 DEF BoundInv, ScratchInv, Within
    <3>. QED
      BY <3>1, ListRows DEF Parts
  <2>. QED
    BY <2>2, <2>3, <2>4 DEF AccessInBounds
<1>. QED
  BY <1>1, <1>2, <1>3, PTL DEF Spec

\* A kernel that reads the task records never runs before they are uploaded: a
\* one-shot call uploads them ahead of it, and a launch of a prepared reduction
\* waits for tasks_ready unless the upload is known to be complete.
RecordsAwaited == queue # <<>> /\ Head(queue) \in Readers => device.upload = "done"

\* So it is for every call, of whatever length, and for any launches after it.
THEOREM RecordsAreThere == Spec => []RecordsAwaited
<1>1. Init => IInv /\ GradientInv /\ BoundInv
  BY InitHolds, InitHasNoGradient, InitIsInBounds
<1>2. (IInv /\ GradientInv /\ BoundInv) /\ [Next]_vars => (IInv /\ GradientInv /\ BoundInv)'
  BY NextKeeps, NextKeepsGradient, NextKeepsBounds
<1>3. IInv /\ BoundInv => RecordsAwaited
  <2>1. SUFFICES ASSUME IInv, BoundInv, queue # <<>>, Head(queue) \in Readers
                 PROVE  device.upload = "done"
    BY DEF RecordsAwaited
  <2>2. queue \in Seq(Kernels \cup {"wait"})
    BY <2>1 DEF IInv, CallType
  <2>3. 1 \in DOMAIN queue /\ queue[1] = Head(queue) /\ 1..(1 - 1) = {}
    BY <2>1, <2>2
  <2>. QED
    BY <2>1, <2>3 DEF BoundInv, UploadInv, ReadersWait
<1>. QED
  BY <1>1, <1>2, <1>3, PTL DEF Spec
===============================================================================
