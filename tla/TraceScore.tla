----------------------------- MODULE TraceScore -----------------------------
(***************************************************************************)
(* The judgement of a turn from its trace (evaluation/metrics, flow.py,     *)
(* report.py): whether a call of a tool failed, whether the task was done   *)
(* and kept its contract, in which stage of the turn an event is shown, and *)
(* how a run compares with the best one before.  Pure functions, each from  *)
(* an input `given` to what is `made`.                                     *)
(***************************************************************************)
EXTENDS Integers, Sequences, FiniteSets, SequencesExt

CONSTANTS
    Traces,     \* inputs: [events, error, contract]
    Histories,  \* sequences of runs [recall, mrr, other]: percents, None if absent
    Keep,       \* _BASELINE_KEEP
    Drop,       \* _REGRESSION_PCT
    None

ScoreAssumption == Keep \in Nat \ {0} /\ Drop \in Nat /\ None \notin 0..100

VARIABLES job, given, made
scoreVars == <<job, given, made>>

\* Events are [type, node, where, tool, bad, word, tokens, ms]: node is the one
\* the event names and where the places of a call's result that report a failure;
\* bad an error given apart, word whether the text begins like an error.
Of(es, type) == SelectSeq(es, LAMBDA e : e.type = type)
Sum(seq) == FoldLeft(LAMBDA n, m : n + m, 0, seq)

-----------------------------------------------------------------------------
(* metrics/tools.py: a call fails if any of the places says so; the text counts *)
(* when nothing else is there.                                                  *)
\* Mutant: the first place that speaks is believed.
CallErrorFirst(e) == \/ "outcome" \in e.said /\ "outcome" \in e.where
                     \/ "outcome" \notin e.said /\ e.where # {}
                     \/ e.bad \/ (e.said = {} /\ e.word)
CallError(e) == e.where # {} \/ e.bad \/ (e.said \cap {"operation", "parsed"} = {} /\ e.word)
Failures(es) == Len(SelectSeq(Of(es, "tool_call"), CallError))
AggregateTools(es) ==
    LET calls == Of(es, "tool_call")
        group(t) == SelectSeq(calls, LAMBDA e : e.tool = t)
    IN  [calls |-> Len(calls), errors |-> Failures(es),
         perTool |-> [t \in {calls[i].tool : i \in DOMAIN calls} |->
                        [calls |-> Len(group(t)),
                         ok |-> Len(SelectSeq(group(t), LAMBDA e : ~CallError(e)))]]]

-----------------------------------------------------------------------------
(* metrics/task.py: the last answer and the last verdict decide.                *)
LastOf(es, type) == Of(es, type)[Len(Of(es, type))]
Answered(es) == Of(es, "final_answer") # <<>> /\ LastOf(es, "final_answer").text # ""
Verified(es) == Of(es, "plan_verify") # <<>> /\ LastOf(es, "plan_verify").text = "satisfied"
ModeOf(es) == IF Of(es, "final_answer") = <<>> THEN "" ELSE LastOf(es, "final_answer").mode
TaskSuccess(es, error) ==
    LET clean   == Answered(es) /\ ~error /\ Failures(es) = 0
        success == clean /\ (ModeOf(es) = "plan" => Verified(es))
    IN  [success |-> success,
         status  |-> IF success THEN "ok" ELSE IF Answered(es) THEN "degraded" ELSE "failed",
         severity |-> IF ~success /\ (error \/ ~Answered(es)) THEN 2
                      ELSE IF Failures(es) > 2 THEN 2 ELSE IF Failures(es) > 0 THEN 1 ELSE 0]

(* metrics/contracts.py: the checks that fail.  A file counts when it is there, *)
(* is large enough and, if it must be new, was written after the turn began,    *)
(* less a second.                                                               *)
FailedChecks(c, es, seconds) ==
    LET calls == Of(es, "tool_call")
        used  == {calls[i].tool : i \in DOMAIN calls}
    IN  {<<"required", t>> : t \in c.required \ used}
        \cup {<<"forbidden", t>> : t \in c.forbidden \cap used}
        \cup {<<"answer", 1>> : x \in {y \in {c.term} : y # "" /\ (~Answered(es) \/
                                          LastOf(es, "final_answer").text # y)}}
        \cup {<<"artifact", a>> : a \in {b \in c.artifacts : ~(b.exists /\ b.size >= b.least
                                              /\ (b.fresh => b.written + 1 >= 0))}}
        \cup {<<"duration", 1>> : x \in {y \in {seconds} : y > c.seconds}}
        \cup {<<"calls", 1>> : x \in {y \in {Len(calls)} : y > c.calls}}

\* runner.py: a contract that is not kept takes the success away.
Scored(g) ==
    LET task   == TaskSuccess(g.events, g.error)
        failed == FailedChecks(g.contract, g.events, g.seconds)
        lost   == failed # {} /\ task.success
    IN  [success |-> task.success /\ ~lost,
         status  |-> IF lost THEN IF Answered(g.events) THEN "degraded" ELSE "failed" ELSE task.status,
         failed  |-> failed, severity |-> task.severity,
         category |-> CASE g.error -> "run_error"
                        [] ~g.error /\ ~Answered(g.events) -> "no_answer"
                        [] ~g.error /\ Answered(g.events) /\ Failures(g.events) > 0 -> "tool_fail"
                        [] ~g.error /\ Answered(g.events) /\ Failures(g.events) = 0 ->
                             IF task.success /\ ~lost THEN "ok" ELSE "task_fail"]

-----------------------------------------------------------------------------
(* flow.py: an event without a node belongs to the one that was opened last and *)
(* is not closed; a call of the model in the loop belongs to the answer unless  *)
(* a tool is called later.                                                      *)
StageOf(node) ==
    CASE node = "understand" -> "intent" [] node = "memory" -> "memory"
      [] node \in {"resolve", "context"} -> "context"
      [] node \in {"plan", "verify", "executor"} -> "plan"
      [] node \in {"synthesize", "chat", "clarify", "task", "subagent_synthesize"} -> "answer"
      [] OTHER -> "tools"
Stack(es, i) ==
    FoldLeft(LAMBDA st, e : CASE e.type = "node_start" -> Append(st, e.node)
                              [] e.type = "node_end" /\ st # <<>> /\ st[Len(st)] = e.node ->
                                     SubSeq(st, 1, Len(st) - 1)
                              [] OTHER -> st,
             <<>>, SubSeq(es, 1, i - 1))
EffNode(es, i) == IF es[i].node # "" THEN es[i].node
                  ELSE IF Stack(es, i) = <<>> THEN "" ELSE Stack(es, i)[Len(Stack(es, i))]
StageOfEvent(es, i) ==
    LET e == es[i]
    IN  CASE e.type = "intent" -> "intent"
          [] e.type = "llm_call" ->
               IF EffNode(es, i) \in {"", "agent"}
               THEN IF \E j \in i + 1..Len(es) : es[j].type = "tool_call" THEN "tools" ELSE "answer"
               ELSE StageOf(EffNode(es, i))
          [] e.type \in {"tool_call", "retrieved_context"} -> "tools"
          [] e.type \in {"plan", "plan_step", "plan_verify"} -> "plan"
          [] e.type \in {"final_answer", "turn_end"} -> "answer"
          [] OTHER -> StageOf(EffNode(es, i))
Listed == {"turn_start", "intent", "llm_call", "tool_call", "retrieved_context", "plan", "plan_step",
           "plan_verify", "final_answer", "turn_end"}
Stages == {"intent", "context", "memory", "plan", "tools", "answer"}
BuildFlow(g) ==
    LET es == g.events
        items(s) == {i \in DOMAIN es : es[i].type \in Listed /\ StageOfEvent(es, i) = s}
        shown == {s \in Stages : items(s) # {}}
        llm   == UNION {{i \in items(s) : es[i].type = "llm_call"} : s \in shown}
        tokens(S) == FoldSet(LAMBDA i, n : n + es[i].tokens, 0, S)
        closed == {i \in DOMAIN es : es[i].type = "node_end"}
    IN  [items  |-> [s \in shown |-> items(s)],
         tokens |-> [s \in shown |-> tokens({i \in items(s) : es[i].type = "llm_call"})],
         ms     |-> [s \in shown |-> FoldSet(LAMBDA i, n : n + es[i].ms, 0,
                                             {i \in closed : StageOf(es[i].node) = s})],
         total  |-> tokens(llm),
         calls  |-> Cardinality(UNION {{i \in items(s) : es[i].type = "tool_call"} : s \in shown}),
         failures |-> Failures(es), success |-> TaskSuccess(es, FALSE).success]

-----------------------------------------------------------------------------
(* report.py: a run is compared with the best that is kept, then kept itself.   *)
(* A drop of more than the limit in any metric that both have is a warning, a   *)
(* recall under six tenths blocks.                                              *)
Metrics == {"recall", "mrr", "other"}
Mrr(run) == IF run["mrr"] = None THEN 0 ELSE run["mrr"]
Worse(run, prev) == {m \in Metrics : /\ run[m] # None /\ prev[m] # None /\ prev[m] # 0
                                     /\ (run[m] - prev[m]) * 100 < -Drop * prev[m]}
UpdateBaseline(kept, run) ==
    LET sorted == SortSeq(Append(kept, run), LAMBDA a, b : Mrr(a) > Mrr(b))
    IN  SubSeq(sorted, 1, IF Len(sorted) < Keep THEN Len(sorted) ELSE Keep)
CompareBaseline(st, run) ==
    LET prev == IF st.kept = <<>> THEN <<>> ELSE <<st.kept[1]>>
    IN  [kept  |-> UpdateBaseline(st.kept, run),
         gates |-> Append(st.gates,
             [prev |-> prev,
              gate |-> IF run["recall"] # None /\ run["recall"] < 60 THEN "block"
                       ELSE IF prev # <<>> /\ Worse(run, prev[1]) # {} THEN "warn" ELSE "pass"])]
Compared(history) == FoldLeft(CompareBaseline, [kept |-> <<>>, gates |-> <<>>], history)

-----------------------------------------------------------------------------
ScoreInit == /\ job \in {"turn", "runs"} /\ made = <<>>
             /\ given \in (IF job = "turn" THEN Traces ELSE Histories)
Judge == /\ made = <<>>
         /\ made' = IF job = "turn" THEN [scored |-> Scored(given), flow |-> BuildFlow(given),
                                          tools |-> AggregateTools(given.events)]
                    ELSE Compared(given)
         /\ UNCHANGED <<job, given>>
ScoreSpec == ScoreInit /\ [][Judge]_scoreVars

-----------------------------------------------------------------------------
\* A task counts as done only if no result of a call reports a failure anywhere,
\* every required tool was called with success, the answer is the one expected
\* and a plan was verified after all that was said before; and the numbers of the
\* report, of the flow and of the task agree (task_success, evaluate_task_contract,
\* build_flow, aggregate_tools).
DoneIsDone == job = "turn" /\ made # <<>> =>
    LET es == given.events
        sound(i) == es[i].where = {} /\ ~es[i].bad
    IN  /\ made.scored.success =>
             /\ \A i \in DOMAIN es : es[i].type = "tool_call" => sound(i)
             /\ \A t \in given.contract.required :
                    \E i \in DOMAIN es : es[i].type = "tool_call" /\ es[i].tool = t /\ sound(i)
             /\ \A i \in DOMAIN es : /\ es[i].type = "final_answer" /\ es[i].mode = "plan"
                                     /\ \A j \in i + 1..Len(es) : es[j].type # "final_answer"
                   => \E v \in DOMAIN es : /\ es[v].type = "plan_verify" /\ es[v].text = "satisfied"
                                           /\ \A w \in v + 1..Len(es) : es[w].type # "plan_verify"
             /\ ~given.error /\ made.scored.category = "ok" /\ made.scored.severity = 0
        /\ made.scored.success <=> made.scored.status = "ok"
        /\ made.flow.failures = made.tools.errors /\ made.flow.calls = made.tools.calls
        /\ Sum([n \in 1..Cardinality(DOMAIN made.tools.perTool) |->
                  LET c == made.tools.perTool[SetToSeq(DOMAIN made.tools.perTool)[n]]
                  IN  c.calls - c.ok]) = made.tools.errors

\* Every event the page lists is in one stage, the tokens of the stages add up to
\* the turn's, and an event that names no node is in the stage of the innermost
\* node around it when nodes end in the order they began (build_flow).
Opened(es, i, j) == es[j].type = "node_start" /\ j < i
                    /\ ~\E k \in j + 1..i - 1 : es[k].type = "node_end" /\ es[k].node = es[j].node
Nested(es) == \A k \in DOMAIN es : es[k].type = "node_end" =>
                 LET open == {j \in 1..k - 1 : Opened(es, k, j)}
                 IN  open # {} /\ es[CHOOSE j \in open : \A m \in open : m <= j].node = es[k].node
OneStart(es) == \A i, j \in DOMAIN es : es[i].type = "node_start" /\ es[j].type = "node_start"
                                        /\ es[i].node = es[j].node => i = j
StagesPartition == job = "turn" /\ made # <<>> =>
    LET es == given.events   f == made.flow
    IN  /\ \A i \in DOMAIN es : es[i].type \in Listed =>
              Cardinality({s \in DOMAIN f.items : i \in f.items[s]}) = 1
        /\ FoldFunction(LAMBDA n, m : n + m, 0, f.tokens) = f.total
        /\ Nested(es) /\ OneStart(es) =>
              \A i \in DOMAIN es : es[i].type = "turn_start" /\ es[i].node = "" =>
                 \A j \in 1..i - 1 :
                    Opened(es, i, j) /\ (\A m \in j + 1..i - 1 : ~Opened(es, i, m))
                       => i \in f.items[StageOf(es[j].node)]

\* A run is compared with the best of those before it, never with itself, so that
\* small losses cannot add up unseen (compare_baseline).
GateAgainstBest == job = "runs" /\ made # <<>> =>
    \A n \in DOMAIN given :
        LET before == {given[m] : m \in 1..n - 1}
            g      == made.gates[n]
        IN  /\ g.prev = <<>> <=> n = 1
            /\ n > 1 => /\ g.prev[1] \in before
                        /\ \A r \in before : Mrr(r) <= Mrr(g.prev[1])
            /\ g.gate = "pass" /\ n > 1 =>
                  \A r \in before : \/ given[n]["mrr"] = None \/ r["mrr"] = None
                                    \/ given[n]["mrr"] * 100 >= (100 - Drop) * r["mrr"]

\* Observations, no run checks them: the time of a node whose stage has no item is
\* not shown (flow.py:233-238).
TimeShown == job = "turn" /\ made # <<>> =>
    FoldFunction(LAMBDA n, m : n + m, 0, made.flow.ms)
      = Sum([i \in DOMAIN given.events |-> IF given.events[i].type = "node_end" THEN given.events[i].ms ELSE 0])
=============================================================================
