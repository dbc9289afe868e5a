------------------------------ MODULE PlanProofs ------------------------------
(***************************************************************************)
(* What PlanExecutor promises, for plans of every size and steps of every  *)
(* shape: the repair leaves no cycle and cuts nothing else, every step of  *)
(* an executed plan is answered, and steps in flight together share no     *)
(* resource.                                                               *)
(***************************************************************************)
EXTENDS PlanExecutor, SequenceTheorems, TLAPS

-------------------------------------------------------------------------------
(* Reachability along dependencies. *)

\* A dependency is below its step.
LEMMA BelowDirect ==
    ASSUME NEW f \in [Step -> SUBSET Step], NEW s \in Step, NEW t \in f[s]
    PROVE  t \in Below(f, s)
BY DEF Below

\* What is below a step that is below s is below s.
LEMMA BelowTransitive ==
    ASSUME NEW f \in [Step -> SUBSET Step], NEW s \in Step,
           NEW t \in Below(f, s), NEW u \in Below(f, t)
    PROVE  u \in Below(f, s)
<1>1. t \in Step /\ u \in Step
  BY DEF Below
<1>2. ASSUME NEW S \in SUBSET Step, f[s] \subseteq S,
             \A v \in S : f[v] \subseteq S
      PROVE  u \in S
  <2>1. t \in S
    BY <1>2 DEF Below
  <2>2. f[t] \subseteq S
    BY <1>2, <2>1
  <2> QED
    BY <1>2, <2>2 DEF Below
<1> QED
  BY <1>1, <1>2 DEF Below

-------------------------------------------------------------------------------
(* The search. *)

\* The more steps are known to be on cycles, the fewer edges are left.
LEMMA AcyclicKept ==
    ASSUME AcyclicInv, deps \in [Step -> SUBSET Step], visited \subseteq Step,
           deps' = deps, visited' = visited, cyclic \subseteq cyclic'
    PROVE  AcyclicInv'
<1>1. ASSUME NEW s \in Step PROVE WithoutCycles'[s] \subseteq WithoutCycles[s]
  BY DEF WithoutCycles
<1>2. ASSUME NEW S \in SUBSET visited, S # {}
      PROVE  \E s \in S : WithoutCycles'[s] \cap S = {}
  <2>1. PICK s \in S : WithoutCycles[s] \cap S = {}
    BY <1>2 DEF AcyclicInv
  <2> QED
    BY <1>1, <2>1
<1> QED
  BY <1>2 DEF AcyclicInv

\* The search starts with a clean plan and nothing looked at.
LEMMA RepairInit == PlanInit => RepairInv
<1> SUFFICES ASSUME PlanInit PROVE RepairInv
  OBVIOUS
<1>1. deps \in [Step -> SUBSET Step]
  BY DEF PlanInit, Cleaned
<1>2. PlanTypeOK
  <2>1. path \in Seq(Step)
    BY DEF PlanInit
  <2>2. /\ todo \in [Step -> SUBSET Step]
        /\ visited \subseteq Step /\ cyclic \subseteq Step
        /\ optional \subseteq Step /\ live \subseteq Step
        /\ exceeded \in BOOLEAN /\ stage = "search"
        /\ raw \in [Step -> SUBSET (Step \cup {UnknownId})]
    BY <1>1 DEF PlanInit
  <2> QED
    BY <1>1, <2>1, <2>2 DEF PlanTypeOK
<1>3. OnPath = {} /\ Len(path) = 0
  BY DEF PlanInit, OnPath
<1>4. SearchInv /\ AcyclicInv /\ PathInv /\ CyclicInv
  BY <1>1, <1>3 DEF PlanInit, SearchInv, AcyclicInv, PathInv, CyclicInv
<1> QED
  BY <1>2, <1>4 DEF RepairInv, PlanInit

\* A new root has none of its dependencies looked at.
LEMMA RepairRoot == RepairInv /\ Root => RepairInv'
<1> SUFFICES ASSUME RepairInv, Root PROVE RepairInv'
  OBVIOUS
<1> USE DEF RepairInv
<1>1. PICK s \in Step \ visited : path' = <<s>>
  BY DEF Root
<1>2. /\ Len(path) = 0 /\ OnPath = {}
      /\ Len(path') = 1 /\ path'[1] = s /\ OnPath' = {s}
  BY <1>1 DEF Root, OnPath
<1>3. /\ stage = "search" /\ stage' = "search" /\ live' = live
      /\ deps' = deps /\ todo' = todo /\ visited' = visited /\ cyclic' = cyclic
  BY DEF Root
<1>4. PlanTypeOK'
  BY <1>1, <1>3 DEF Root, PlanTypeOK
<1>5. todo[s] = deps[s]
  BY <1>2, <1>3 DEF PathInv
<1>6. SearchInv'
  BY <1>2, <1>3, <1>5 DEF SearchInv
<1>7. PathInv'
  BY <1>2, <1>3 DEF PathInv
<1>8. CyclicInv'
  BY <1>3 DEF CyclicInv
<1>9. AcyclicInv'
  BY <1>3, AcyclicKept DEF PlanTypeOK
<1> QED
  BY <1>3, <1>4, <1>6, <1>7, <1>8, <1>9

\* What From collects are the steps visited since d.
LEMMA FromOnPath ==
    ASSUME PlanTypeOK, NEW d \in OnPath
    PROVE  /\ Len(path) \in Nat \ {0} /\ Top \in Step /\ Top \in From(d)
           /\ d \in From(d) /\ From(d) \subseteq Step
           /\ \A u \in From(d) : \E j, k \in 1 .. Len(path) :
                 k <= j /\ path[k] = d /\ path[j] = u
<1>1. path \in Seq(Step) /\ Len(path) \in Nat
  BY DEF PlanTypeOK
<1>2. PICK k \in 1 .. Len(path) : path[k] = d
  BY DEF OnPath
<1>3. k \in 1 .. k /\ k \in 1 .. Len(path) /\ Len(path) \in 1 .. Len(path)
  BY <1>1, <1>2
<1>4. \A i \in 1 .. Len(path) : path[i] \in Step
  BY <1>1
<1> QED
  BY <1>1, <1>2, <1>3, <1>4 DEF From, Top

\* Looking at a dependency: a step on the path closes a cycle, a new one is
\* visited next.
LEMMA RepairLook == ASSUME RepairInv, NEW d \in Step, Look(d) PROVE RepairInv'
<1> USE DEF RepairInv
<1>1. /\ stage = "search" /\ stage' = "search" /\ live' = live
      /\ deps' = deps /\ visited' = visited
      /\ path \in Seq(Step) /\ Len(path) \in Nat \ {0}
      /\ deps \in [Step -> SUBSET Step] /\ todo \in [Step -> SUBSET Step]
  BY DEF Look, PlanTypeOK
<1>2. /\ Top \in Step /\ Top = path[Len(path)] /\ Len(path) \in 1 .. Len(path)
      /\ Top \in OnPath /\ \A i \in 1 .. Len(path) : path[i] \in OnPath
      /\ d \in todo[Top] /\ d \in deps[Top]
      /\ todo' = [todo EXCEPT ![Top] = @ \ {d}]
  BY <1>1 DEF Look, Top, OnPath, PathInv
<1>3. /\ cyclic \subseteq cyclic'
      /\ \A s \in Step : s # Top => todo'[s] = todo[s]
      /\ todo'[Top] = todo[Top] \ {d}
  BY <1>1, <1>2 DEF Look
<1>a. AcyclicInv'
  BY <1>1, <1>3, AcyclicKept DEF PlanTypeOK
<1>4. CASE d \in OnPath \cup visited
  <2>1. path' = path /\ OnPath' = OnPath
    BY <1>4 DEF Look, OnPath
  <2>2. d \in OnPath => /\ cyclic' = cyclic \cup From(d)
                        /\ Top \in cyclic' /\ d \in cyclic'
    BY FromOnPath DEF Look
  <2>3. d \notin OnPath => cyclic' = cyclic /\ d \in visited
    BY <1>4 DEF Look
  <2>4. SearchInv'
    <3>1. \A s \in visited' : \A e \in deps'[s] :
             e \in visited' \/ (s \in cyclic' /\ e \in cyclic')
      BY <1>1, <1>3 DEF SearchInv
    <3>2. ASSUME NEW i \in 1 .. Len(path'),
                 NEW e \in deps'[path'[i]] \ todo'[path'[i]]
          PROVE  \/ e \in visited'
                 \/ path'[i] \in cyclic' /\ e \in cyclic'
                 \/ i < Len(path') /\ path'[i + 1] = e
      <4>1. i \in 1 .. Len(path) /\ path[i] \in Step /\ path'[i] = path[i]
        BY <1>1, <2>1
      <4>2. CASE path[i] = Top /\ e = d
        BY <1>1, <2>1, <2>2, <2>3, <4>2
      <4>3. CASE ~(path[i] = Top /\ e = d)
        <5>1. e \in deps[path[i]] \ todo[path[i]]
          BY <1>1, <1>2, <1>3, <2>1, <4>1, <4>3
        <5> QED
          BY <1>1, <1>3, <2>1, <4>1, <5>1 DEF SearchInv
      <4> QED
        BY <4>2, <4>3
    <3> QED
      BY <3>1, <3>2 DEF SearchInv
  <2>5. PathInv'
    BY <1>1, <1>2, <1>3, <2>1 DEF PathInv
  <2>6. CyclicInv'
    <3>1. ASSUME NEW u \in From(d), d \in OnPath
          PROVE  u \in Below(deps, u)
      <4>1. PICK j \in 1 .. Len(path), k \in 1 .. Len(path) :
               k <= j /\ path[k] = d /\ path[j] = u
        BY <3>1, FromOnPath
      <4>2. u \in Step /\ d \in Below(deps, Top)
        BY <1>1, <1>2, <4>1, BelowDirect
      <4>3. d \in Below(deps, u)
        <5>1. CASE j = Len(path)
          BY <1>2, <4>1, <4>2, <5>1
        <5>2. CASE j < Len(path)
          <6>1. Top \in Below(deps, u)
            BY <1>2, <4>1, <5>2 DEF PathInv
          <6> QED
            BY <1>1, <4>2, <6>1, BelowTransitive
        <5> QED
          BY <1>1, <5>1, <5>2
      <4>4. CASE k = j
        BY <4>1, <4>3, <4>4
      <4>5. CASE k < j
        <5>1. u \in Below(deps, d)
          BY <1>1, <4>1, <4>5 DEF PathInv
        <5> QED
          BY <1>1, <4>2, <4>3, <5>1, BelowTransitive
      <4> QED
        BY <1>1, <4>1, <4>4, <4>5
    <3>2. \A u \in cyclic : u \in Below(deps, u)
      BY <1>1 DEF CyclicInv
    <3>3. ASSUME NEW u \in cyclic' PROVE u \in Below(deps, u)
      BY <2>2, <2>3, <3>1, <3>2, <3>3
    <3> QED
      BY <1>1, <3>3 DEF CyclicInv
  <2>7. PlanTypeOK'
    <3>1. cyclic' \subseteq Step
      BY <2>2, <2>3, FromOnPath DEF PlanTypeOK
    <3> QED
      BY <1>1, <1>2, <2>1, <3>1 DEF Look, PlanTypeOK
  <2> QED
    BY <1>1, <1>a, <2>4, <2>5, <2>6, <2>7
<1>5. CASE d \notin OnPath \cup visited
  <2>1. /\ path' = Append(path, d) /\ path' \in Seq(Step)
        /\ Len(path') = Len(path) + 1 /\ path'[Len(path')] = d
        /\ \A i \in 1 .. Len(path) : path'[i] = path[i]
    BY <1>1, <1>5 DEF Look
  <2>2. cyclic' = cyclic /\ d # Top
    BY <1>2, <1>5 DEF Look
  <2>3. OnPath' = OnPath \cup {d}
    BY <1>1, <2>1 DEF OnPath
  <2>4. todo'[d] = deps[d] /\ todo[d] = deps[d]
    BY <1>1, <1>3, <1>5, <2>2 DEF PathInv
  <2>5. SearchInv'
    <3>1. \A s \in visited' : \A e \in deps'[s] :
             e \in visited' \/ (s \in cyclic' /\ e \in cyclic')
      BY <1>1, <1>3 DEF SearchInv
    <3>2. ASSUME NEW i \in 1 .. Len(path'),
                 NEW e \in deps'[path'[i]] \ todo'[path'[i]]
          PROVE  \/ e \in visited'
                 \/ path'[i] \in cyclic' /\ e \in cyclic'
                 \/ i < Len(path') /\ path'[i + 1] = e
      <4>1. CASE i = Len(path')
        BY <1>1, <2>1, <2>4, <4>1
      <4>2. CASE i \in 1 .. Len(path)
        <5>1. path'[i] = path[i] /\ path[i] \in Step /\ i < Len(path')
          BY <1>1, <2>1, <4>2
        <5>2. CASE path[i] = Top /\ e = d
          <6>1. i = Len(path)
            BY <1>1, <1>2, <4>2, <5>2 DEF PathInv
          <6> QED
            BY <1>1, <2>1, <5>1, <5>2, <6>1
        <5>3. CASE ~(path[i] = Top /\ e = d)
          <6>1. e \in deps[path[i]] \ todo[path[i]]
            BY <1>1, <1>2, <1>3, <5>1, <5>3
          <6>2. \/ e \in visited
                \/ path[i] \in cyclic /\ e \in cyclic
                \/ i < Len(path) /\ path[i + 1] = e
            BY <1>1, <4>2, <6>1 DEF SearchInv
          <6>3. i < Len(path) => i + 1 \in 1 .. Len(path)
            BY <1>1, <4>2
          <6> QED
            BY <1>1, <2>1, <2>2, <5>1, <6>2, <6>3
        <5> QED
          BY <5>2, <5>3
      <4> QED
        BY <1>1, <2>1, <4>1, <4>2
    <3> QED
      BY <3>1, <3>2 DEF SearchInv
  <2>6. PathInv'
    <3>1. ASSUME NEW i \in 1 .. Len(path'), NEW j \in 1 .. Len(path')
          PROVE  path'[i] = path'[j] => i = j
      <4>1. \A k \in 1 .. Len(path) : path'[k] # d
        BY <1>2, <1>5, <2>1
      <4>2. \A k \in 1 .. Len(path') : k = Len(path') \/ k \in 1 .. Len(path)
        BY <1>1, <2>1
      <4> QED
        BY <1>1, <2>1, <4>1, <4>2 DEF PathInv
    <3>2. ASSUME NEW i \in 1 .. Len(path'), NEW j \in 1 .. Len(path'), i < j
          PROVE  path'[j] \in Below(deps, path'[i])
      <4>1. i \in 1 .. Len(path) /\ path'[i] = path[i] /\ path[i] \in Step
        BY <1>1, <2>1, <3>2
      <4>2. CASE j \in 1 .. Len(path)
        BY <1>1, <2>1, <3>2, <4>1, <4>2 DEF PathInv
      <4>3. CASE j = Len(path')
        <5>1. d \in Below(deps, Top)
          BY <1>1, <1>2, BelowDirect
        <5>2. CASE i = Len(path)
          BY <1>2, <2>1, <4>1, <4>3, <5>1, <5>2
        <5>3. CASE i < Len(path)
          <6>1. Top \in Below(deps, path[i])
            BY <1>1, <1>2, <4>1, <5>3 DEF PathInv
          <6> QED
            BY <1>1, <2>1, <4>1, <4>3, <5>1, <6>1, BelowTransitive
        <5> QED
          BY <1>1, <4>1, <5>2, <5>3
      <4> QED
        BY <1>1, <2>1, <4>2, <4>3
    <3>3. \A s \in Step \ (visited' \cup OnPath') : todo'[s] = deps'[s]
      BY <1>1, <1>2, <1>3, <2>3 DEF PathInv
    <3>4. \A s \in Step : todo'[s] \subseteq deps'[s]
      BY <1>1, <1>2, <1>3 DEF PathInv
    <3> QED
      BY <1>1, <3>1, <3>2, <3>3, <3>4 DEF PathInv
  <2>7. CyclicInv'
    BY <1>1, <2>2 DEF CyclicInv
  <2>8. PlanTypeOK'
    BY <1>1, <1>2, <2>1, <2>2 DEF Look, PlanTypeOK
  <2> QED
    BY <1>1, <1>a, <2>5, <2>6, <2>7, <2>8
<1> QED
  BY <1>4, <1>5

\* A step is left when all of its dependencies have been looked at.
LEMMA RepairLeave == RepairInv /\ Leave => RepairInv'
<1> SUFFICES ASSUME RepairInv, Leave PROVE RepairInv'
  OBVIOUS
<1> USE DEF RepairInv
<1>1. /\ stage = "search" /\ stage' = "search" /\ live' = live
      /\ deps' = deps /\ todo' = todo /\ cyclic' = cyclic
      /\ path \in Seq(Step) /\ Len(path) \in Nat \ {0}
      /\ deps \in [Step -> SUBSET Step] /\ todo \in [Step -> SUBSET Step]
  BY DEF Leave, PlanTypeOK
<1>2. /\ Top \in Step /\ Top = path[Len(path)] /\ Len(path) \in 1 .. Len(path)
      /\ todo[Top] = {} /\ visited' = visited \cup {Top}
  BY <1>1 DEF Leave, Top
<1>3. /\ path' \in Seq(Step) /\ Len(path') = Len(path) - 1
      /\ \A i \in 1 .. Len(path') :
            i \in 1 .. Len(path) /\ i < Len(path) /\ path'[i] = path[i]
            /\ path[i] \in Step
  <2> DEFINE n == Len(path) - 1
  <2>1. path' = SubSeq(path, 1, n) /\ n \in 0 .. Len(path)
    BY <1>1 DEF Leave
  <2>2. /\ SubSeq(path, 1, n) \in Seq(Step) /\ Len(SubSeq(path, 1, n)) = n
        /\ \A i \in 1 .. n : SubSeq(path, 1, n)[i] = path[i]
    <3>1. 1 \in Int /\ n \in Int /\ \A i \in 1 .. n : path[i] \in Step
      BY <1>1
    <3> HIDE DEF n
    <3>2. /\ SubSeq(path, 1, n) \in Seq(Step)
          /\ Len(SubSeq(path, 1, n)) = IF 1 <= n THEN n - 1 + 1 ELSE 0
          /\ \A i \in 1 .. n - 1 + 1 : SubSeq(path, 1, n)[i] = path[1 + i - 1]
      BY <3>1, SubSeqProperties
    <3> QED
      BY <1>1, <2>1, <3>2
  <2>3. \A i \in 1 .. n : i \in 1 .. Len(path) /\ i < Len(path)
    BY <1>1
  <2> QED
    BY <1>1, <2>1, <2>2, <2>3
<1>4. OnPath' \cup {Top} = OnPath
  <2>1. ASSUME NEW i \in 1 .. Len(path)
        PROVE  path[i] \in OnPath' \cup {Top}
    <3>1. CASE i = Len(path)
      BY <3>1 DEF Top
    <3>2. CASE i # Len(path)
      <4>1. i \in 1 .. Len(path')
        BY <1>1, <1>3, <3>2
      <4> QED
        BY <1>3, <4>1 DEF OnPath
    <3> QED
      BY <3>1, <3>2
  <2>2. ASSUME NEW i \in 1 .. Len(path')
        PROVE  path'[i] \in OnPath
    BY <1>3, <2>2 DEF OnPath
  <2>3. Top \in OnPath
    <3>1. Len(path) \in 1 .. Len(path)
      BY <1>1
    <3> QED
      BY <3>1 DEF OnPath, Top
  <2>4. OnPath \subseteq OnPath' \cup {Top}
    BY <2>1 DEF OnPath
  <2>5. OnPath' \subseteq OnPath
    BY <2>2 DEF OnPath
  <2> QED
    BY <2>3, <2>4, <2>5
<1>a. ASSUME NEW e \in deps[Top]
      PROVE  e \in visited \/ (Top \in cyclic /\ e \in cyclic)
  BY <1>1, <1>2 DEF SearchInv
<1>b. AcyclicInv'
  <2>1. WithoutCycles' = WithoutCycles
    BY <1>1 DEF WithoutCycles
  <2>2. ASSUME NEW S \in SUBSET visited', S # {}
        PROVE  \E s \in S : WithoutCycles[s] \cap S = {}
    <3>1. CASE S \subseteq visited
      BY <1>1, <2>2, <3>1 DEF AcyclicInv
    <3>2. CASE Top \in S /\ Top \notin visited
      <4>1. \A e \in WithoutCycles[Top] : e \in visited
        BY <1>1, <1>2, <1>a DEF WithoutCycles
      <4>2. CASE S = {Top}
        BY <3>2, <4>1, <4>2
      <4>3. CASE S # {Top}
        <5>1. S \ {Top} # {} /\ S \ {Top} \in SUBSET visited
          BY <1>2, <2>2, <4>3
        <5>2. PICK s \in S \ {Top} : WithoutCycles[s] \cap (S \ {Top}) = {}
          BY <1>1, <5>1 DEF AcyclicInv
        <5>3. s \in visited /\ s \in Step
          BY <5>1 DEF PlanTypeOK
        <5>4. \A e \in WithoutCycles[s] : e \in visited
          BY <1>1, <5>3 DEF SearchInv, WithoutCycles
        <5> QED
          BY <3>2, <5>2, <5>4
      <4> QED
        BY <4>2, <4>3
    <3> QED
      BY <1>2, <2>2, <3>1, <3>2
  <2> QED
    BY <2>1, <2>2 DEF AcyclicInv
<1>5. SearchInv'
  <2>2. \A s \in visited' : \A e \in deps'[s] :
           e \in visited' \/ (s \in cyclic' /\ e \in cyclic')
    BY <1>1, <1>2, <1>a DEF SearchInv
  <2>3. ASSUME NEW i \in 1 .. Len(path'),
               NEW e \in deps'[path'[i]] \ todo'[path'[i]]
        PROVE  \/ e \in visited'
               \/ path'[i] \in cyclic' /\ e \in cyclic'
               \/ i < Len(path') /\ path'[i + 1] = e
    <3>1. \/ e \in visited
          \/ path[i] \in cyclic /\ e \in cyclic
          \/ i < Len(path) /\ path[i + 1] = e
      BY <1>1, <1>3 DEF SearchInv
    <3>2. CASE i < Len(path')
      <4>1. i + 1 \in 1 .. Len(path')
        BY <1>1, <1>3, <3>2
      <4> QED
        BY <1>1, <1>2, <1>3, <3>1, <3>2, <4>1
    <3>3. CASE i = Len(path')
      <4>1. i + 1 = Len(path)
        BY <1>1, <1>3, <3>3
      <4> QED
        BY <1>1, <1>2, <1>3, <3>1, <4>1
    <3> QED
      BY <1>1, <1>3, <3>2, <3>3
  <2> QED
    BY <2>2, <2>3 DEF SearchInv
<1>6. PathInv'
  BY <1>1, <1>2, <1>3, <1>4 DEF PathInv
<1>7. CyclicInv'
  BY <1>1 DEF CyclicInv
<1>8. PlanTypeOK'
  BY <1>1, <1>2, <1>3 DEF Leave, PlanTypeOK
<1> QED
  BY <1>1, <1>b, <1>5, <1>6, <1>7, <1>8

\* The search has left every step, or the model has been asked again: the plan
\* has no cycle, and all its steps are there.
LEMMA RepairCut == RepairInv /\ Cut => RepairInv'
<1> SUFFICES ASSUME RepairInv, Cut PROVE RepairInv'
  OBVIOUS
<1> USE DEF RepairInv
<1>1. /\ stage = "search" /\ visited = Step /\ path = << >> /\ live = Step
      /\ stage' = "trim" /\ path' = path /\ live' = live
      /\ deps \in [Step -> SUBSET Step]
  BY DEF Cut, PlanTypeOK
<1>2. deps' \in [Step -> SUBSET Step] /\ Acyclic(deps')
  <2>1. CASE deps' = WithoutCycles
    <3>1. WithoutCycles \in [Step -> SUBSET Step]
      BY <1>1 DEF WithoutCycles
    <3>2. Acyclic(WithoutCycles)
      BY <1>1 DEF AcyclicInv, Acyclic
    <3> QED
      BY <2>1, <3>1, <3>2
  <2>2. CASE deps' \in {d \in [Step -> SUBSET Step] :
                          Acyclic(d) /\ Cleaned(d) = d}
    BY <2>2
  <2> QED
    BY <2>1, <2>2 DEF Cut
<1>3. PlanTypeOK'
  <2>1. raw' \in [Step -> SUBSET (Step \cup {UnknownId})]
    BY <1>2 DEF Cut
  <2>2. /\ todo' \in [Step -> SUBSET Step] /\ visited' = {} /\ cyclic' = {}
        /\ optional' \in SUBSET Step /\ exceeded' = exceeded
    BY DEF Cut
  <2> QED
    BY <1>1, <1>2, <2>1, <2>2 DEF PlanTypeOK
<1> QED
  BY <1>1, <1>2, <1>3

\* Only steps nobody depends on are dropped.
LEMMA RepairTrim == ASSUME RepairInv, NEW x \in Step, Trim(x) PROVE RepairInv'
<1> USE DEF RepairInv
<1>1. /\ stage = "trim" /\ stage' = "trim" /\ path' = path /\ deps' = deps
      /\ live' = live \ {x}
  BY DEF Trim, searchVars
<1>2. \A s \in live' : deps'[s] \subseteq live'
  <2>1. \A t \in live \ {x} : x \notin deps[t]
    BY DEF Trim, Droppable
  <2>2. \A s \in live : deps[s] \subseteq live
    BY <1>1
  <2> QED
    BY <1>1, <2>1, <2>2
<1>3. PlanTypeOK'
  BY <1>1 DEF Trim, searchVars, PlanTypeOK
<1>4. Acyclic(deps')
  BY <1>1
<1> QED
  BY <1>1, <1>2, <1>3, <1>4

\* The plan is handed over as it is.
LEMMA RepairPlanned == RepairInv /\ Planned => RepairInv'
<1> SUFFICES ASSUME RepairInv, Planned PROVE RepairInv'
  OBVIOUS
<1> USE DEF RepairInv
<1>1. /\ stage = "trim" /\ stage' = "planned" /\ path' = path /\ deps' = deps
      /\ live' = live
  BY DEF Planned, searchVars
<1>2. PlanTypeOK'
  BY <1>1 DEF Planned, searchVars, PlanTypeOK
<1> QED
  BY <1>1, <1>2

\* Every step of the planner keeps the invariant.
LEMMA RepairNext == RepairInv /\ [PlanNext]_planVars => RepairInv'
<1> SUFFICES ASSUME RepairInv, [PlanNext]_planVars PROVE RepairInv'
  OBVIOUS
<1>1. CASE UNCHANGED planVars
  <2>1. /\ raw' = raw /\ deps' = deps /\ stage' = stage /\ path' = path
        /\ todo' = todo /\ visited' = visited /\ cyclic' = cyclic
        /\ optional' = optional /\ live' = live /\ exceeded' = exceeded
    BY <1>1 DEF planVars
  <2>2. PlanTypeOK'
    BY <2>1 DEF RepairInv, PlanTypeOK
  <2>3. OnPath' = OnPath /\ WithoutCycles' = WithoutCycles
    BY <2>1 DEF OnPath, WithoutCycles
  <2>4. stage = "search" => SearchInv' /\ AcyclicInv' /\ CyclicInv'
    BY <2>1, <2>3 DEF RepairInv, SearchInv, AcyclicInv, CyclicInv
  <2>5. stage = "search" => PathInv'
    BY <2>1, <2>3 DEF RepairInv, PathInv
  <2> QED
    BY <2>1, <2>2, <2>4, <2>5 DEF RepairInv
<1>2. CASE Root
  BY <1>2, RepairRoot
<1>3. ASSUME NEW d \in Step, Look(d) PROVE RepairInv'
  BY <1>3, RepairLook
<1>4. CASE Leave
  BY <1>4, RepairLeave
<1>5. CASE Cut
  BY <1>5, RepairCut
<1>6. ASSUME NEW s \in Step, Trim(s) PROVE RepairInv'
  BY <1>6, RepairTrim
<1>7. CASE Planned
  BY <1>7, RepairPlanned
<1> QED
  BY <1>1, <1>2, <1>3, <1>4, <1>5, <1>6, <1>7 DEF PlanNext

\* The invariant implies that the repair is sound.
LEMMA RepairInvSound == RepairInv => RepairSound
<1> SUFFICES ASSUME RepairInv, stage = "search", path = << >>, visited = Step
             PROVE  /\ Acyclic(WithoutCycles)
                    /\ \A s \in Step :
                          /\ WithoutCycles[s] \subseteq deps[s]
                          /\ \A t \in deps[s] \ WithoutCycles[s] :
                                s \in Below(deps, s) /\ t \in Below(deps, t)
  BY DEF RepairSound
<1>1. Acyclic(WithoutCycles)
  BY DEF RepairInv, AcyclicInv, Acyclic
<1>2. ASSUME NEW s \in Step, NEW t \in deps[s] \ WithoutCycles[s]
      PROVE  s \in cyclic /\ t \in cyclic
  BY <1>2 DEF WithoutCycles, RepairInv, PlanTypeOK
<1>3. \A s \in Step : WithoutCycles[s] \subseteq deps[s]
  BY DEF WithoutCycles, RepairInv, PlanTypeOK
<1> QED
  BY <1>1, <1>2, <1>3 DEF RepairInv, CyclicInv

-------------------------------------------------------------------------------
(* The executor. *)

\* An action of the executor leaves the plan alone.
LEMMA PlanKept ==
    ASSUME RepairInv, UNCHANGED planVars
    PROVE  /\ RepairInv' /\ PlanTypeOK'
           /\ deps' = deps /\ live' = live /\ stage' = stage
           /\ exceeded' = exceeded
<1>1. RepairInv'
  BY RepairNext
<1> QED
  BY <1>1 DEF RepairInv, planVars

\* A batch is chosen among the steps that are ready.
LEMMA BatchReady == ASSUME NEW S \in SUBSET Step PROVE Batch(S) \subseteq S
BY DEF Batch, First

\* No two steps of a batch share a key, and one whose key is Exclusive is alone.
LEMMA BatchApart ==
    ASSUME NEW S \in SUBSET Step, S # {},
           NEW s \in Batch(S), NEW t \in Batch(S), s # t
    PROVE  /\ KeyAt(s) # Exclusive
           /\ KeyAt(s) # KeyAt(t) \/ KeyAt(s) = Free
<1> DEFINE lone == {u \in S : KeyAt(u) = Exclusive}
           before == {u \in S : \A x \in lone : u < x}
           first == {u \in before :
                       \/ KeyAt(u) = Free
                       \/ \A v \in before : KeyAt(v) = KeyAt(u) => u <= v}
<1>1. s \in Nat /\ t \in Nat
  <2>1. Batch(S) \subseteq S
    BY BatchReady
  <2>2. s \in Step /\ t \in Step
    BY <2>1
  <2> QED
    BY <2>2, NAssumption DEF Step
<1>2. CASE Batch(S) = First(S)
  <2>1. s <= t /\ t <= s
    BY <1>2 DEF First
  <2> QED
    BY <1>1, <2>1
<1>3. CASE Batch(S) \subseteq first
  <2>1. s \in first /\ t \in first
    BY <1>3
  <2>2. s \notin lone
    <3>1. s \in lone => s < s
      BY <2>1
    <3> QED
      BY <1>1, <2>1, <3>1
  <2>3. ASSUME KeyAt(s) = KeyAt(t), KeyAt(s) # Free PROVE FALSE
    <3>1. s <= t /\ t <= s
      BY <2>1, <2>3
    <3> QED
      BY <1>1, <3>1
  <2> QED
    BY <2>1, <2>2, <2>3
<1> QED
  BY <1>2, <1>3 DEF Batch

\* The keys of the steps are theirs for as long as the plan is.
LEMMA BatchKept ==
    ASSUME BatchInv, plan' = plan, result' = result, batch' = batch
    PROVE  BatchInv'
<1>1. \A s : KeyAt(s)' = KeyAt(s)
  BY DEF KeyAt
<1>2. \A S : Checks(S)' = Checks(S)
  BY DEF Checks
<1> QED
  BY <1>1, <1>2 DEF BatchInv

\* What the guard has done stands while nothing it looks at changes.
LEMMA GuardKept ==
    ASSUME GuardSound, live' = live, deps' = deps, plan' = plan, result' = result,
           said' = said, paper' = paper, batch' = batch
    PROVE  GuardSound'
<1>1. \A s, c : Asked(s, c)' <=> Asked(s, c)
  BY DEF Asked
<1>2. SkipJustified'
  BY <1>1 DEF GuardSound, SkipJustified
<1>3. GuardAsked'
  BY <1>1 DEF GuardSound, GuardAsked, Guarded
<1> QED
  BY <1>2, <1>3 DEF GuardSound

\* A plan about to be repaired, and nothing executed.
LEMMA ExecInit == Init => ExecInv
<1> SUFFICES ASSUME Init PROVE ExecInv
  OBVIOUS
<1>1. RepairInv
  BY RepairInit DEF Init
<1>2. plan \in [Step -> Shape]
  BY ShapeAssumption DEF Init
<1>3. TypeOK
  BY <1>1, <1>2 DEF Init, TypeOK, RepairInv, Outcome, Local, Verdict
<1>4. PhaseInv /\ BatchInv /\ SaidInv /\ GuardSound /\ PaperVerdictHonest
  <2>1. live = Step
    BY DEF Init, PlanInit
  <2> QED
    BY <2>1 DEF Init, PhaseInv, BatchInv, SaidInv, GuardSound, SkipJustified,
                GuardAsked, PaperVerdictHonest
<1> QED
  BY <1>1, <1>3, <1>4 DEF ExecInv

\* The planner works before anything is executed.
LEMMA ExecPlanning == ExecInv /\ Planning => ExecInv'
<1> SUFFICES ASSUME ExecInv, Planning PROVE ExecInv'
  OBVIOUS
<1>1. RepairInv' /\ PlanTypeOK'
  BY RepairNext DEF Planning, ExecInv, RepairInv
<1>2. /\ phase' = phase /\ plan' = plan /\ domain' = domain /\ result' = result
      /\ batch' = batch /\ out' = out /\ retried' = retried /\ said' = said
      /\ paper' = paper /\ asked' = asked /\ verdict' = verdict
  BY DEF Planning, execVars
<1>3. stage # "planned"
  BY DEF Planning, PlanNext, Root, Look, Leave, Cut, Trim, Planned
<1>4. /\ phase = "plan" /\ batch = {} /\ verdict = "none"
      /\ \A s \in Step : said[s] = "none" /\ result[s] = "none"
  BY <1>3 DEF ExecInv, PhaseInv, TypeOK
<1>5. TypeOK'
  BY <1>1, <1>2, <1>4 DEF ExecInv, TypeOK
<1>6. PhaseInv' /\ BatchInv' /\ SaidInv'
  BY <1>2, <1>4 DEF PhaseInv, BatchInv, SaidInv
<1>7. GuardSound' /\ PaperVerdictHonest'
  <2>1. live' \subseteq Step
    BY <1>1 DEF PlanTypeOK
  <2> QED
    BY <1>2, <1>4, <2>1 DEF GuardSound, SkipJustified, GuardAsked, PaperVerdictHonest
<1> QED
  BY <1>1, <1>5, <1>6, <1>7 DEF ExecInv

\* A finished plan is handed to the executor.
LEMMA ExecStart == ExecInv /\ Start => ExecInv'
<1> SUFFICES ASSUME ExecInv, Start PROVE ExecInv'
  OBVIOUS
<1>1. /\ RepairInv' /\ PlanTypeOK' /\ live' = live /\ stage' = stage
      /\ deps' = deps /\ exceeded' = exceeded
  BY PlanKept DEF ExecInv, Start
<1>2. /\ phase = "plan" /\ stage = "planned" /\ batch = {} /\ verdict = "none"
      /\ \A s \in Step : said[s] = "none" /\ result[s] = "none"
  BY DEF ExecInv, PhaseInv, Start
<1>3. TypeOK'
  BY <1>1, <1>2, NameAssumption DEF ExecInv, TypeOK, Start
<1>4. PhaseInv' /\ BatchInv' /\ SaidInv'
  BY <1>1, <1>2 DEF PhaseInv, BatchInv, SaidInv, Start
<1>5. GuardSound' /\ PaperVerdictHonest'
  <2>1. live' \subseteq Step
    BY <1>1 DEF PlanTypeOK
  <2> QED
    BY <1>2, <2>1 DEF GuardSound, SkipJustified, GuardAsked, PaperVerdictHonest, Start
<1> QED
  BY <1>1, <1>3, <1>4, <1>5 DEF ExecInv

\* Checks are started together, whatever their keys; no guard asks about them.
LEMMA ExecChecks == ExecInv /\ StartChecks => ExecInv'
<1> SUFFICES ASSUME ExecInv, StartChecks PROVE ExecInv'
  OBVIOUS
<1>1. /\ RepairInv' /\ PlanTypeOK' /\ live' = live /\ stage' = stage
      /\ deps' = deps /\ exceeded' = exceeded
  BY PlanKept DEF ExecInv, StartChecks
<1>2. /\ phase = "run" /\ phase' = "await" /\ plan' = plan /\ domain' = domain
      /\ result' = result /\ retried' = retried /\ said' = said
      /\ paper' = paper /\ asked' = asked /\ verdict' = verdict
      /\ batch' = Checks(Ready(result)) /\ out' = [s \in Step |-> "none"]
  BY DEF StartChecks, Await
<1>3. /\ batch' \subseteq live
      /\ \A s \in batch' : s \in Step /\ plan[s].kind = "check" /\ result[s] = "none"
  BY <1>2 DEF Checks, Ready, ExecInv, TypeOK, PlanTypeOK
<1>4. TypeOK'
  BY <1>1, <1>2, <1>3 DEF ExecInv, TypeOK, Outcome
<1>5. PhaseInv' /\ SaidInv' /\ PaperVerdictHonest'
  BY <1>1, <1>2 DEF ExecInv, PhaseInv, SaidInv, PaperVerdictHonest
<1>6. BatchInv'
  <2>1. ASSUME NEW s \in batch', NEW t \in batch' PROVE Checks({s, t})' = {s, t}
    BY <1>2, <1>3, <2>1 DEF Checks
  <2> QED
    BY <1>2, <1>3, <2>1 DEF BatchInv
<1>7. GuardSound'
  <2>1. SkipJustified'
    BY <1>1, <1>2 DEF ExecInv, GuardSound, SkipJustified, Asked
  <2>2. GuardAsked'
    BY <1>2, <1>3 DEF GuardAsked, Guarded, Asked, Brings
  <2> QED
    BY <2>1, <2>2 DEF GuardSound
<1> QED
  BY <1>1, <1>4, <1>5, <1>6, <1>7 DEF ExecInv

\* A step is skipped because of a check that was true and still is.
LEMMA ExecDispatch == ExecInv /\ Dispatch => ExecInv'
<1> SUFFICES ASSUME ExecInv, Dispatch PROVE ExecInv'
  OBVIOUS
<1> DEFINE res == [s \in Step |->
                     IF s \in Ready(result) /\ Guarded(s) THEN "skipped"
                                                          ELSE result[s]]
<1>1. /\ RepairInv' /\ PlanTypeOK' /\ live' = live /\ stage' = stage
      /\ deps' = deps /\ exceeded' = exceeded
  BY PlanKept DEF ExecInv, Dispatch
<1>2. /\ phase = "run" /\ plan' = plan /\ domain' = domain
      /\ result' = res /\ retried' = retried /\ said' = said
      /\ paper' = paper /\ asked' = asked /\ verdict' = verdict /\ batch = {}
  BY DEF Dispatch, ExecInv, PhaseInv
<1>3. \/ Ready(res) = {} /\ phase' = "verify" /\ batch' = batch /\ out' = out
      \/ /\ phase' = "await" /\ batch' = Batch(Ready(res))
         /\ out' = [s \in Step |-> "none"]
  BY DEF Dispatch, Await
<1>4. Ready(res) \in SUBSET Step /\ Ready(res) \subseteq live
  BY DEF Ready, ExecInv, TypeOK, PlanTypeOK
<1>5. res \in [Step -> Outcome]
  BY DEF ExecInv, TypeOK, Outcome
<1> HIDE DEF res
<1>6. TypeOK'
  <2>1. batch' \subseteq live
    BY <1>3, <1>4, BatchReady DEF ExecInv, TypeOK
  <2>2. out' \in [Step -> Outcome \ {"skipped"}]
    BY <1>3 DEF ExecInv, TypeOK, Outcome
  <2> QED
    BY <1>1, <1>2, <1>3, <1>5, <2>1, <2>2 DEF ExecInv, TypeOK
<1>7. PhaseInv'
  <2>1. Ready(result)' = Ready(res)
    BY <1>1, <1>2 DEF Ready
  <2> QED
    BY <1>1, <1>2, <1>3, <2>1 DEF ExecInv, PhaseInv
<1>8. BatchInv'
  <2>1. CASE Ready(res) = {} /\ batch' = batch
    BY <1>2, <2>1 DEF BatchInv
  <2>2. CASE batch' = Batch(Ready(res))
    <3>1. ASSUME NEW s \in Batch(Ready(res)), NEW t \in Batch(Ready(res)), s # t
          PROVE  /\ KeyAt(s) # Exclusive
                 /\ KeyAt(s) # KeyAt(t) \/ KeyAt(s) = Free
      <4>1. Ready(res) # {}
        BY <1>4, BatchReady
      <4> QED
        BY <1>4, <3>1, <4>1, BatchApart
    <3>2. \A s \in batch' : res[s] = "none"
      BY <1>4, <2>2, BatchReady DEF Ready
    <3>3. \A s \in Step : KeyAt(s)' = KeyAt(s)
      BY <1>2 DEF KeyAt
    <3>4. batch' \subseteq Step
      BY <1>4, <2>2, BatchReady
    <3> QED
      BY <1>2, <2>2, <3>1, <3>2, <3>3, <3>4 DEF BatchInv
  <2> QED
    BY <1>3, <2>1, <2>2
<1>9. SaidInv' /\ PaperVerdictHonest'
  BY <1>2 DEF ExecInv, PhaseInv, SaidInv, PaperVerdictHonest
<1>10. \A c \in Step : res[c] = "succeeded" <=> result[c] = "succeeded"
  BY DEF res, Ready
<1>11. \A s, c \in Step : Asked(s, c)' <=> Asked(s, c)
  BY <1>2, <1>10 DEF Asked
<1>12. SkipJustified'
  <2>1. ASSUME NEW s \in live, res[s] = "skipped"
        PROVE  \E c \in live :
                   /\ Asked(s, c)
                   /\ \E p \in Finds[plan[c].paper] :
                         /\ paper[p] \in {"downloaded", "indexed"}
                         /\ plan[s].kind = "ingest" => paper[p] = "indexed"
    <3>1. s \in Step
      BY DEF ExecInv, TypeOK, PlanTypeOK
    <3>2. CASE Guarded(s)
      <4>1. PICK c \in live :
               /\ Asked(s, c)
               /\ \/ said[c] = "indexed"
                  \/ said[c] = "downloaded" /\ plan[s].kind # "ingest"
        BY <3>2 DEF Guarded
      <4>2. c \in Step /\ plan[c].paper # None
        <5>1. c \in Step /\ plan[s] \in Shape
          BY <3>1 DEF ExecInv, TypeOK, PlanTypeOK
        <5>2. plan[c].paper \in Alike[plan[s].paper] /\ plan[s].paper \in Name
          BY <4>1, <5>1, ShapeAssumption DEF Asked
        <5> QED
          BY <5>1, <5>2, NameAssumption
      <4> QED
        BY <4>1, <4>2 DEF ExecInv, SaidInv
    <3>3. CASE ~Guarded(s)
      <4>1. result[s] = "skipped"
        BY <2>1, <3>1, <3>3 DEF res
      <4> QED
        BY <4>1 DEF ExecInv, GuardSound, SkipJustified
    <3> QED
      BY <3>2, <3>3
  <2>2. live \subseteq Step
    BY DEF ExecInv, TypeOK, PlanTypeOK
  <2> QED
    BY <1>1, <1>2, <1>11, <2>1, <2>2 DEF SkipJustified
<1>13. GuardAsked'
  <2>1. ASSUME NEW s \in batch', Guarded(s)' PROVE \E d \in deps[s] : res[d] = "skipped"
    <3>1. s \in Step /\ s \in live /\ live \subseteq Step
      BY <1>6, <2>1, <1>1 DEF TypeOK, PlanTypeOK
    <3>2. Guarded(s)
      BY <1>1, <1>2, <1>11, <2>1, <3>1 DEF Guarded
    <3>3. CASE Ready(res) = {}
      BY <1>2, <1>3, <2>1, <3>3, BatchReady
    <3>4. CASE Ready(res) # {}
      <4>1. s \in Ready(res)
        BY <1>3, <1>4, <2>1, <3>4, BatchReady
      <4>2. res[s] = "none" /\ \A d \in deps[s] : d \in live /\ res[d] # "none"
        BY <4>1 DEF Ready
      <4>3. s \notin Ready(result) /\ result[s] = "none"
        BY <3>1, <3>2, <4>2 DEF res
      <4>4. PICK d \in deps[s] : result[d] = "none"
        BY <3>1, <4>2, <4>3 DEF Ready
      <4>5. res[d] = "skipped"
        BY <3>1, <4>2, <4>4 DEF res
      <4> QED
        BY <4>5
    <3> QED
      BY <3>3, <3>4
  <2> QED
    BY <1>1, <1>2, <2>1 DEF GuardAsked
<1> QED
  BY <1>1, <1>6, <1>7, <1>8, <1>9, <1>12, <1>13 DEF ExecInv, GuardSound

\* Nothing is ready any more.
LEMMA ExecStop == ExecInv /\ Stop => ExecInv'
<1> SUFFICES ASSUME ExecInv, Stop PROVE ExecInv'
  OBVIOUS
<1>1. /\ RepairInv' /\ PlanTypeOK' /\ live' = live /\ stage' = stage
      /\ deps' = deps /\ exceeded' = exceeded
  BY PlanKept DEF ExecInv, Stop
<1>2. /\ phase = "run" /\ phase' = "verify" /\ plan' = plan /\ domain' = domain
      /\ result' = result /\ retried' = retried /\ said' = said
      /\ paper' = paper /\ asked' = asked /\ verdict' = verdict
      /\ batch' = batch /\ out' = out /\ Ready(result) = {}
  BY DEF Stop
<1>3. TypeOK'
  BY <1>1, <1>2 DEF ExecInv, TypeOK
<1>4. PhaseInv'
  <2>1. Ready(result)' = Ready(result)
    BY <1>1, <1>2 DEF Ready
  <2> QED
    BY <1>1, <1>2, <2>1 DEF ExecInv, PhaseInv
<1>5. BatchInv' /\ SaidInv' /\ PaperVerdictHonest'
  BY <1>1, <1>2 DEF ExecInv, PhaseInv, BatchInv, SaidInv, PaperVerdictHonest
<1>6. GuardSound'
  BY <1>1, <1>2, GuardKept DEF ExecInv
<1> QED
  BY <1>1, <1>3, <1>4, <1>5, <1>6 DEF ExecInv

\* A step of a batch goes on or ends: no result is given yet, and a paper that
\* is there stays there.
LEMMA ExecAct == ASSUME ExecInv, NEW x \in Step, Act(x) PROVE ExecInv'
<1>1. /\ RepairInv' /\ PlanTypeOK' /\ live' = live /\ stage' = stage
      /\ deps' = deps /\ exceeded' = exceeded
  BY PlanKept DEF ExecInv, Act, Succeed, Retry, Fail, Interrupt
<1>2. /\ phase = "await" /\ phase' = phase /\ plan' = plan /\ domain' = domain
      /\ result' = result /\ batch' = batch /\ verdict' = verdict
      /\ result[x] = "none" /\ plan[x] \in Shape
  BY DEF Act, Succeed, Retry, Fail, Interrupt, Running, ExecInv, BatchInv, TypeOK
<1>3. /\ paper' \in [Name -> Local]
      /\ \A n \in Name : /\ paper[n] = "indexed" => paper'[n] = "indexed"
                         /\ paper[n] = "downloaded" => paper'[n] \in {"downloaded", "indexed"}
  <2>1. paper \in [Name -> Local]
    BY DEF ExecInv, TypeOK
  <2>2. CASE Succeed(x)
    <3>1. paper' \in Does(x)
      BY <2>2 DEF Succeed
    <3>2. CASE paper' = paper
      BY <2>1, <3>2
    <3>3. CASE \E n \in Name : paper' = [paper EXCEPT ![n] = IF @ = "absent" THEN "downloaded" ELSE @]
      BY <2>1, <3>3 DEF Local
    <3>4. CASE \E n \in Name : paper' = [paper EXCEPT ![n] = "indexed"]
      BY <2>1, <3>4 DEF Local
    <3>5. plan[x].paper \in Name \cup {None}
      BY <1>2, ShapeAssumption
    <3> QED
      BY <3>1, <3>2, <3>3, <3>4, <3>5 DEF Does
  <2>3. CASE ~Succeed(x)
    BY <2>1, <2>3 DEF Act, Retry, Fail, Interrupt
  <2> QED
    BY <2>2, <2>3
<1>4. /\ said' \in [Step -> Local \cup {"none"}]
      /\ \A c \in Step : said'[c] = said[c] \/ (c = x /\ said'[c] = Found(plan[c].paper))
  <2>1. Found(plan[x].paper) \in Local
    BY DEF Found, Local
  <2> QED
    BY <2>1 DEF Act, Succeed, Retry, Fail, Interrupt, ExecInv, TypeOK
<1>5. out' \in [Step -> Outcome \ {"skipped"}] /\ retried' \subseteq Step /\ asked' \subseteq Step
  BY DEF Act, Succeed, Retry, Fail, Interrupt, Outcome, ExecInv, TypeOK
<1>6. TypeOK'
  BY <1>1, <1>2, <1>3, <1>4, <1>5 DEF ExecInv, TypeOK
<1>7. PhaseInv'
  <2>1. Ready(result)' = Ready(result)
    BY <1>1, <1>2 DEF Ready
  <2> QED
    BY <1>1, <1>2, <2>1 DEF ExecInv, PhaseInv
<1>8. BatchInv' /\ PaperVerdictHonest'
  BY <1>1, <1>2, BatchKept DEF ExecInv, PaperVerdictHonest
<1>9. SaidInv'
  <2> SUFFICES ASSUME NEW c \in Step, plan[c].paper # None
               PROVE  /\ said'[c] = "indexed" =>
                           \E p \in Finds[plan[c].paper] : paper'[p] = "indexed"
                      /\ said'[c] = "downloaded" =>
                           \E p \in Finds[plan[c].paper] : paper'[p] \in {"downloaded", "indexed"}
    BY <1>2 DEF SaidInv
  <2>1. Finds[plan[c].paper] \subseteq Name
    <3>1. plan[c] \in Shape
      BY DEF ExecInv, TypeOK
    <3> QED
      BY <3>1, ShapeAssumption, NameAssumption
  <2>2. /\ said'[c] = "indexed" =>
              \E p \in Finds[plan[c].paper] : paper[p] = "indexed"
        /\ said'[c] = "downloaded" =>
              \E p \in Finds[plan[c].paper] : paper[p] \in {"downloaded", "indexed"}
    <3>1. CASE said'[c] = said[c]
      BY <3>1 DEF ExecInv, SaidInv
    <3>2. CASE said'[c] = Found(plan[c].paper)
      BY <3>2 DEF Found
    <3> QED
      BY <1>4, <3>1, <3>2
  <2> QED
    BY <1>3, <2>1, <2>2
<1>10. SkipJustified'
  <2> SUFFICES ASSUME NEW s \in live, result[s] = "skipped"
               PROVE  \E c \in live :
                          /\ Asked(s, c)'
                          /\ \E p \in Finds[plan[c].paper] :
                                /\ paper'[p] \in {"downloaded", "indexed"}
                                /\ plan[s].kind = "ingest" => paper'[p] = "indexed"
    BY <1>1, <1>2 DEF SkipJustified
  <2>0. PICK c \in live :
           /\ Asked(s, c)
           /\ \E p \in Finds[plan[c].paper] :
                 /\ paper[p] \in {"downloaded", "indexed"}
                 /\ plan[s].kind = "ingest" => paper[p] = "indexed"
    BY DEF ExecInv, GuardSound, SkipJustified
  <2>1. PICK p \in Finds[plan[c].paper] :
           /\ Asked(s, c) /\ paper[p] \in {"downloaded", "indexed"}
           /\ plan[s].kind = "ingest" => paper[p] = "indexed"
    BY <2>0
  <2>2. p \in Name
    <3>1. plan[c] \in Shape /\ plan[s] \in Shape
      BY DEF ExecInv, TypeOK, PlanTypeOK
    <3>2. plan[c].paper \in Name
      BY <2>1, <3>1, ShapeAssumption, NameAssumption DEF Asked
    <3> QED
      BY <2>1, <3>2, NameAssumption
  <2>3. Asked(s, c)'
    BY <1>2, <2>1 DEF Asked
  <2> QED
    BY <1>3, <2>1, <2>2, <2>3
<1>11. GuardAsked'
  <2>1. ASSUME NEW s \in batch, Guarded(s)' PROVE Guarded(s)
    <3>1. PICK c \in live :
             /\ Asked(s, c)'
             /\ \/ said'[c] = "indexed"
                \/ said'[c] = "downloaded" /\ plan[s].kind # "ingest"
      BY <1>1, <1>2, <2>1 DEF Guarded
    <3>2. Asked(s, c) /\ c # x /\ c \in Step
      BY <1>2, <3>1 DEF Asked, ExecInv, TypeOK, PlanTypeOK
    <3> QED
      BY <1>4, <3>1, <3>2 DEF Guarded
  <2> QED
    BY <1>1, <1>2, <2>1 DEF ExecInv, GuardSound, GuardAsked
<1> QED
  BY <1>1, <1>6, <1>7, <1>8, <1>9, <1>10, <1>11 DEF ExecInv, GuardSound

\* No step of a batch comes back skipped.
LEMMA ExecGather == ExecInv /\ Gather => ExecInv'
<1> SUFFICES ASSUME ExecInv, Gather PROVE ExecInv'
  OBVIOUS
<1>1. /\ RepairInv' /\ PlanTypeOK' /\ live' = live /\ stage' = stage
      /\ deps' = deps /\ exceeded' = exceeded
  BY PlanKept DEF ExecInv, Gather
<1>2. /\ phase = "await" /\ phase' = "run" /\ plan' = plan /\ domain' = domain
      /\ result' = [s \in Step |-> IF s \in batch THEN out[s] ELSE result[s]]
      /\ retried' = retried /\ said' = said
      /\ paper' = paper /\ asked' = asked /\ verdict' = verdict
      /\ batch' = {} /\ out' = [s \in Step |-> "none"]
  BY DEF Gather
<1>3. TypeOK'
  BY <1>1, <1>2 DEF ExecInv, TypeOK, Outcome
<1>4. PhaseInv' /\ BatchInv' /\ SaidInv' /\ PaperVerdictHonest'
  BY <1>1, <1>2 DEF ExecInv, PhaseInv, BatchInv, SaidInv, PaperVerdictHonest
<1>5. SkipJustified'
  <2>1. ASSUME NEW s \in live, result'[s] = "skipped" PROVE result[s] = "skipped"
    BY <1>2, <2>1 DEF ExecInv, TypeOK, PlanTypeOK
  <2>2. ASSUME NEW c \in Step, result[c] = "succeeded" PROVE result'[c] = "succeeded"
    BY <1>2, <2>2 DEF ExecInv, BatchInv
  <2>3. ASSUME NEW s \in live, NEW c \in live, Asked(s, c) PROVE Asked(s, c)'
    BY <1>2, <2>2, <2>3 DEF Asked, ExecInv, TypeOK, PlanTypeOK
  <2> QED
    BY <1>1, <1>2, <2>1, <2>3 DEF ExecInv, GuardSound, SkipJustified
<1>6. GuardAsked'
  BY <1>2 DEF GuardAsked
<1> QED
  BY <1>1, <1>3, <1>4, <1>5, <1>6 DEF ExecInv, GuardSound

\* The verdict is given on results that do not change any more.
LEMMA ExecVerify ==
    ASSUME ExecInv, NEW llm \in Verdict, Verify(llm) PROVE ExecInv'
<1>1. /\ RepairInv' /\ PlanTypeOK' /\ live' = live /\ stage' = stage
      /\ deps' = deps /\ exceeded' = exceeded
  BY PlanKept DEF ExecInv, Verify
<1>2. /\ phase = "verify" /\ phase' = "over" /\ plan' = plan /\ domain' = domain
      /\ result' = result /\ retried' = retried /\ said' = said
      /\ paper' = paper /\ asked' = asked
      /\ batch' = batch /\ out' = out /\ verdict' \in Verdicts(llm)
  BY DEF Verify
<1>3. live # {} /\ domain = "paper" => verdict' = PaperVerdict(llm)
  BY <1>2 DEF Verdicts
<1>4. live = {} => verdict' = "no_evidence"
  BY <1>2 DEF Verdicts
<1>5. Capped(llm) \in {"satisfied", "partial", "failed"}
  BY DEF Capped, Verdict
<1>6. Outstanding # {} => Capped(llm) # "satisfied"
  BY DEF Capped, Verdict
<1>7. TypeOK'
  <2>1. domain \in {"paper", "coding"}
    BY DomainAssumption DEF ExecInv, TypeOK
  <2>2. verdict' \in Verdict
    BY <1>2, <1>5, <2>1 DEF Verdicts, PaperVerdict, CodingVerdicts, Verdict
  <2> QED
    BY <1>1, <1>2, <2>2 DEF ExecInv, TypeOK
<1>8. PhaseInv'
  <2>1. Ready(result)' = Ready(result)
    BY <1>1, <1>2 DEF Ready
  <2> QED
    BY <1>1, <1>2, <2>1 DEF ExecInv, PhaseInv
<1>9. BatchInv' /\ SaidInv' /\ GuardSound'
  BY <1>1, <1>2, GuardKept DEF ExecInv, PhaseInv, BatchInv, SaidInv
<1>10. PaperVerdictHonest'
  <2>1. ASSUME verdict' = "satisfied", domain = "paper"
        PROVE  Evidence # {} /\ Outstanding = {}
    <3>1. verdict' = PaperVerdict(llm)
      BY <1>3, <1>4, <2>1
    <3> QED
      BY <1>6, <2>1, <3>1 DEF PaperVerdict
  <2>2. \A s \in live : result[s] \in Outcome
    BY DEF ExecInv, TypeOK, PlanTypeOK
  <2> QED
    BY <1>1, <1>2, <2>1, <2>2
       DEF PaperVerdictHonest, Evidence, Outstanding, Outcome
<1> QED
  BY <1>1, <1>7, <1>8, <1>9, <1>10 DEF ExecInv

\* Nothing happens.
LEMMA ExecStutter == ExecInv /\ UNCHANGED vars => ExecInv'
<1> SUFFICES ASSUME ExecInv, UNCHANGED vars PROVE ExecInv'
  OBVIOUS
<1>1. /\ RepairInv' /\ PlanTypeOK' /\ live' = live /\ stage' = stage
      /\ deps' = deps /\ exceeded' = exceeded
  BY PlanKept DEF ExecInv, vars
<1>2. /\ phase' = phase /\ plan' = plan /\ domain' = domain /\ result' = result
      /\ batch' = batch /\ out' = out /\ retried' = retried /\ said' = said
      /\ paper' = paper /\ asked' = asked /\ verdict' = verdict
  BY DEF vars, execVars
<1>3. Ready(result)' = Ready(result)
  BY <1>1, <1>2 DEF Ready
<1>4. GuardSound' /\ BatchInv'
  BY <1>1, <1>2, GuardKept, BatchKept DEF ExecInv
<1> QED
  BY <1>1, <1>2, <1>3, <1>4 DEF ExecInv, TypeOK, PhaseInv, SaidInv, PaperVerdictHonest

\* Every step of the specification keeps the invariant.
LEMMA ExecNext == ExecInv /\ [Next]_vars => ExecInv'
<1> SUFFICES ASSUME ExecInv, [Next]_vars PROVE ExecInv'
  OBVIOUS
<1>1. CASE Planning
  BY <1>1, ExecPlanning
<1>2. CASE Start
  BY <1>2, ExecStart
<1>3. CASE StartChecks
  BY <1>3, ExecChecks
<1>4. CASE Dispatch
  BY <1>4, ExecDispatch
<1>5. CASE Stop
  BY <1>5, ExecStop
<1>6. ASSUME NEW s \in Step, Act(s) PROVE ExecInv'
  BY <1>6, ExecAct
<1>7. CASE Gather
  BY <1>7, ExecGather
<1>8. ASSUME NEW llm \in Verdict, Verify(llm) PROVE ExecInv'
  BY <1>8, ExecVerify
<1>9. CASE Rest \/ UNCHANGED vars
  BY <1>9, ExecStutter DEF Rest
<1> QED
  BY <1>1, <1>2, <1>3, <1>4, <1>5, <1>6, <1>7, <1>8, <1>9 DEF Next

-------------------------------------------------------------------------------
(* What follows. *)

\* The inductive invariant of planner and executor: types, where the search is,
\* and what the executor has awaited, skipped and concluded.
THEOREM ExecInvHolds == Spec => []ExecInv
<1>1. Init => ExecInv
  BY ExecInit
<1>2. ExecInv /\ [Next]_vars => ExecInv'
  BY ExecNext
<1> QED
  BY <1>1, <1>2, PTL DEF Spec

\* For plans of any size and shape, the repair of validate_and_repair_plan
\* (plan_policy.py:206-230) leaves no cycle and cuts only edges between steps
\* that are on cycles.
THEOREM RepairIsSound == Spec => []RepairSound
<1>1. ExecInv => RepairSound
  BY RepairInvSound DEF ExecInv
<1> QED
  BY <1>1, ExecInvHolds, PTL

\* An executor that finds nothing ready (plan.py:1027-1030) has answered every
\* step: on a plan without cycles some unanswered step is always ready.
THEOREM EveryStepAnswered == Spec => []AllAnswered
<1>1. ExecInv => AllAnswered
  <2> SUFFICES ASSUME ExecInv, phase \in {"verify", "over"}, ~exceeded
               PROVE  \A s \in live : Answered(s)
    BY DEF AllAnswered
  <2> DEFINE U == {s \in live : result[s] = "none"}
  <2>1. /\ Ready(result) = {} /\ stage = "planned" /\ live \subseteq Step
        /\ deps \in [Step -> SUBSET Step]
    BY DEF ExecInv, PhaseInv, TypeOK, PlanTypeOK
  <2>2. Acyclic(deps) /\ \A s \in live : deps[s] \subseteq live
    BY <2>1 DEF ExecInv, RepairInv
  <2>3. ASSUME U # {} PROVE FALSE
    <3>1. PICK s \in U : deps[s] \cap U = {}
      BY <2>1, <2>2, <2>3 DEF Acyclic
    <3>2. s \in Ready(result)
      BY <2>2, <3>1 DEF Ready
    <3> QED
      BY <2>1, <3>2
  <2> QED
    BY <2>3 DEF Answered
<1> QED
  BY <1>1, ExecInvHolds, PTL

\* Whatever the steps of a plan say of themselves and however many may run at
\* once, agent steps and unknown tools are in flight alone, and so is one of any
\* two steps with effects that name the same thing in the same words (executor_node,
\* plan.py:989-992).
THEOREM BatchesDoNotOverlap == Spec => []NoOverlap
<1>1. ExecInv => NoOverlap
  <2> SUFFICES ASSUME ExecInv, NEW s \in batch, NEW t \in batch, s # t,
                      Checks({s, t}) # {s, t}
               PROVE  /\ ~Lone(plan[s])
                      /\ Effect(plan[s]) /\ Effect(plan[t]) => ~Same(plan[s], plan[t])
    BY DEF NoOverlap
  <2>1. /\ KeyOf(plan[s]) # Exclusive
        /\ KeyOf(plan[s]) # KeyOf(plan[t]) \/ KeyOf(plan[s]) = Free
    BY DEF ExecInv, BatchInv, KeyAt
  <2>2. plan[s] \in Shape /\ plan[t] \in Shape
    BY DEF ExecInv, TypeOK, PlanTypeOK
  <2>3. ~Lone(plan[s])
    BY <2>1 DEF Lone, KeyOf
  <2>4. ASSUME Effect(plan[s]), Effect(plan[t]), Same(plan[s], plan[t]) PROVE FALSE
    <3>1. KeyOf(plan[s]) = KeyOf(plan[t])
      BY <2>4 DEF Same, Effect, Brings, KeyOf
    <3>2. KeyOf(plan[s]) \in Key \cup Kind
      BY <2>2, <2>4, ShapeAssumption DEF Effect, Brings, KeyOf, Target, Kind
    <3> QED
      BY <2>1, <3>1, <3>2, KeyAssumption
  <2> QED
    BY <2>3, <2>4
<1> QED
  BY <1>1, ExecInvHolds, PTL

\* A step is skipped only for a paper that is there under a name like its own and
\* like a check's, and is started against a check's answer only if it became ready
\* when another was skipped (_ingest_guard, plan.py:1997-2050); and "satisfied" on
\* a plan about papers covers nothing up (verify_node, plan.py:2335-2345).
THEOREM SkipsAndVerdictsHold == Spec => [](GuardSound /\ PaperVerdictHonest)
<1>1. ExecInv => GuardSound /\ PaperVerdictHonest
  BY DEF ExecInv
<1> QED
  BY <1>1, ExecInvHolds, PTL

===============================================================================
