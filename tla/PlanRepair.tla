------------------------------ MODULE PlanRepair ------------------------------
(***************************************************************************)
(* How a plan the model wrote becomes one the executor accepts             *)
(* (agent/core/plan_policy.py, and agent/plan.py down to plan_node): ids   *)
(* and dependencies are cleaned, the steps on dependency cycles are found  *)
(* by a depth-first search and the edges among them cut, the model is      *)
(* asked once more if there was a defect, and optional steps are dropped   *)
(* until the plan fits its budget.                                         *)
(*                                                                         *)
(* The search is a recursion in the code; here it is a state machine with  *)
(* the recursion's stack as a variable, so that what it computes can be    *)
(* stated as an invariant.  A step is its position among the steps with    *)
(* distinct ids; UnknownId is an id no step has.                           *)
(***************************************************************************)
EXTENDS Naturals, Sequences, FiniteSets

CONSTANT N  \* steps of the plan

ASSUME NAssumption == N \in Nat \ {0}

Step == 1 .. N
UnknownId == 0

VARIABLES
    raw,      \* depends_on as the model wrote it
    deps,     \* depends_on of the repaired plan
    stage,    \* where the planner is
    path,     \* of the depth-first search: the steps being visited
    todo,     \* dependencies of each step not yet looked at
    visited,  \* steps the search has left
    cyclic,   \* in_cycle: steps found on a cycle
    optional, \* steps of priority "optional"
    live,     \* steps still in the plan
    exceeded  \* plan_cost: the plan costs more than its budget

planVars == <<raw, deps, stage, path, todo, visited, cyclic, optional, live,
              exceeded>>
searchVars == <<path, todo, visited, cyclic>>

OnPath == {path[i] : i \in 1 .. Len(path)}

PlanTypeOK ==
    /\ raw \in [Step -> SUBSET (Step \cup {UnknownId})]
    /\ deps \in [Step -> SUBSET Step]
    /\ stage \in {"search", "trim", "planned"}
    /\ path \in Seq(Step)
    /\ todo \in [Step -> SUBSET Step]
    /\ visited \subseteq Step /\ cyclic \subseteq Step
    /\ optional \subseteq Step /\ live \subseteq Step
    /\ exceeded \in BOOLEAN

\* Self-dependencies and unknown ids are dropped before the search.
Cleaned(r) == [s \in Step |-> (r[s] \cap Step) \ {s}]

PlanInit ==
    /\ raw \in [Step -> SUBSET (Step \cup {UnknownId})]
    /\ deps = Cleaned(raw)
    /\ stage = "search"
    /\ path = << >> /\ todo = deps
    /\ visited = {} /\ cyclic = {}
    /\ optional = {} /\ live = Step /\ exceeded = FALSE

-------------------------------------------------------------------------------
(* The depth-first search of _cycle_nodes. *)

Top == path[Len(path)]

\* path[path.index(node):]
From(d) == {path[i] : i \in {j \in 1 .. Len(path) :
                                \E k \in 1 .. j : path[k] = d}}

Root ==
    /\ stage = "search" /\ path = << >>
    /\ \E s \in Step \ visited :
          /\ \A t \in Step \ visited : s <= t
          /\ path' = <<s>>
    /\ UNCHANGED <<raw, deps, stage, todo, visited, cyclic, optional, live,
                   exceeded>>

Look(d) ==
    /\ stage = "search" /\ path # << >>
    /\ d \in todo[Top]
    /\ todo' = [todo EXCEPT ![Top] = @ \ {d}]
    /\ path' = IF d \in OnPath \cup visited THEN path ELSE Append(path, d)
    /\ cyclic' = IF d \in OnPath THEN cyclic \cup From(d) ELSE cyclic
    /\ UNCHANGED <<raw, deps, stage, visited, optional, live, exceeded>>

\* Broken: a step is left as soon as one of its dependencies has been seen.
LeaveEarly ==
    /\ stage = "search" /\ path # << >>
    /\ todo[Top] # deps[Top] \/ todo[Top] = {}
    /\ visited' = visited \cup {Top}
    /\ path' = SubSeq(path, 1, Len(path) - 1)
    /\ UNCHANGED <<raw, deps, stage, todo, cyclic, optional, live, exceeded>>
Leave ==
    /\ stage = "search" /\ path # << >>
    /\ todo[Top] = {}
    /\ visited' = visited \cup {Top}
    /\ path' = SubSeq(path, 1, Len(path) - 1)
    /\ UNCHANGED <<raw, deps, stage, todo, cyclic, optional, live, exceeded>>

-------------------------------------------------------------------------------
(* What is made of it. *)

\* Broken: only the first of them loses its edges.
WithoutCyclesOnce == [s \in Step |-> IF s \in cyclic /\ \A t \in cyclic : s <= t
                                     THEN deps[s] \ cyclic ELSE deps[s]]
WithoutCycles == [s \in Step |-> IF s \in cyclic THEN deps[s] \ cyclic
                                                 ELSE deps[s]]

\* had_errors
Defect == cyclic # {} \/ deps # raw

\* Every set of steps holds one that depends on none of the others.
Acyclic(d) == \A S \in SUBSET Step : S # {} => \E s \in S : d[s] \cap S = {}

\* The plan is repaired; if it had a defect the model is asked once more, and
\* its answer replaces the repaired plan only if nothing is wrong with it.
\* The search's own variables go out of scope.
Cut ==
    /\ stage = "search" /\ path = << >> /\ visited = Step
    /\ \/ deps' = WithoutCycles
       \/ /\ Defect
          /\ deps' \in {d \in [Step -> SUBSET Step] :
                          Acyclic(d) /\ Cleaned(d) = d}
    /\ raw' = deps'
    /\ optional' \in SUBSET Step
    /\ stage' = "trim"
    /\ todo' = [s \in Step |-> {}] /\ visited' = {} /\ cyclic' = {}
    /\ UNCHANGED <<path, live, exceeded>>

\* Broken: a step may go although others depend on it.
DroppableAny(s) == s \in live \cap optional

Droppable(s) ==
    /\ s \in live \cap optional
    /\ \A t \in live \ {s} : s \notin deps[t]

\* estimate_and_trim_plan: while over budget, the last optional step that no
\* other depends on is dropped.  The costs are not modelled: the loop may find
\* the plan within its budget at any time.
Trim(s) ==
    /\ stage = "trim" /\ Droppable(s)
    /\ \A t \in live : Droppable(t) => t <= s
    /\ live' = live \ {s}
    /\ UNCHANGED <<raw, deps, stage, searchVars, optional, exceeded>>

Planned ==
    /\ stage = "trim"
    /\ stage' = "planned" /\ optional' = {}
    /\ exceeded' \in {over \in BOOLEAN :
                        over => live # {} /\ \A s \in live : ~Droppable(s)}
    /\ UNCHANGED <<raw, deps, searchVars, live>>

PlanNext ==
    \/ Root \/ (\E d \in Step : Look(d)) \/ Leave \/ Cut
    \/ (\E s \in Step : Trim(s)) \/ Planned

-------------------------------------------------------------------------------
\* The steps that s depends on, directly or not.
Below(d, s) ==
    {t \in Step : \A S \in SUBSET Step :
        d[s] \subseteq S /\ (\A u \in S : d[u] \subseteq S) => t \in S}

\* What is left when the search is over has no cycle, an edge is cut only
\* between steps that are each on a cycle, and no dependency is invented: in
\* particular a plan without a defect is executed as it was written
\* (validate_and_repair_plan, plan_policy.py:206-230).
RepairSound ==
    stage = "search" /\ path = << >> /\ visited = Step =>
        /\ Acyclic(WithoutCycles)
        /\ \A s \in Step :
              /\ WithoutCycles[s] \subseteq deps[s]
              /\ \A t \in deps[s] \ WithoutCycles[s] :
                    s \in Below(deps, s) /\ t \in Below(deps, t)

-------------------------------------------------------------------------------
(* The invariant RepairSound rests on. *)

\* A step the search has left depends only on steps it has left too, except
\* along edges that will be cut; and a step being visited, as far as it has been
\* looked at, also on the one visited next.
SearchInv ==
    /\ \A s \in visited : \A d \in deps[s] :
          d \in visited \/ (s \in cyclic /\ d \in cyclic)
    /\ \A i \in 1 .. Len(path) : \A d \in deps[path[i]] \ todo[path[i]] :
          \/ d \in visited
          \/ path[i] \in cyclic /\ d \in cyclic
          \/ i < Len(path) /\ path[i + 1] = d

\* There is no cycle among the steps left but for the edges to be cut.
AcyclicInv ==
    \A S \in SUBSET visited : S # {} => \E s \in S : WithoutCycles[s] \cap S = {}

\* The search goes down along dependencies and visits no step twice.
PathInv ==
    /\ \A i, j \in 1 .. Len(path) :
          /\ path[i] = path[j] => i = j
          /\ i < j => path[j] \in Below(deps, path[i])
    /\ \A s \in Step \ (visited \cup OnPath) : todo[s] = deps[s]
    /\ \A s \in Step : todo[s] \subseteq deps[s]

CyclicInv == \A s \in cyclic : s \in Below(deps, s)

RepairInv ==
    /\ PlanTypeOK
    /\ stage = "search" =>
          live = Step /\ SearchInv /\ AcyclicInv /\ PathInv /\ CyclicInv
    /\ stage # "search" =>
          path = << >> /\ Acyclic(deps) /\ \A s \in live : deps[s] \subseteq live
===============================================================================
