----------------------------- MODULE SubagentLoop ----------------------------
(***************************************************************************)
(* The graph of a subagent (agent/subagents.py build_subagent): the model,  *)
(* the round of its tools, the question to the leader that pauses it, and   *)
(* the last resort that answers from what the tools returned; the hints     *)
(* that agent_node adds (agent/nodes.py); and the verdict of the caller on  *)
(* its last message (as_tool; agent/supervisor.py _run_worker judges the    *)
(* same way).  A task of the supervisor asks its leader through             *)
(* request_review, whose tool only the prompt names: the calls of the model *)
(* are not restricted to the tools it was given.                            *)
(***************************************************************************)
EXTENDS Integers, Sequences, FiniteSets, SequencesExt

CONSTANTS
    MaxSteps,   \* rounds of tools
    MaxReviews  \* bound: questions to the leader

LoopAssumption == {MaxSteps, MaxReviews} \subseteq Nat

VARIABLES
    at,       \* "agent", "after", "tools", "gate", "synthesize", "end"
    msgs,     \* the messages after the task
    iter, failures, strikes,
    verdict   \* what the caller is told: [outcome, text]
loopVars == <<at, msgs, iter, failures, strikes, verdict>>

\* Calls that read, calls that have an effect, and the question.
Batches == {<<"read">>, <<"write">>, <<"read", "write">>, <<"review">>, <<"review", "read">>}
Results == {"ok", "error", "down", "outage"}  \* down: the library, outage: arXiv
Texts   == {"answer", "error", "placeholder", "empty"}

Ai(calls, text, told) == [type |-> "ai", calls |-> calls, text |-> text, told |-> told]
ToolMsg(text)         == [type |-> "tool", calls |-> <<>>, text |-> text, told |-> {}]
LastMsg  == msgs[Len(msgs)]

\* The tool messages since the last message of the model.
FromLast == {i \in DOMAIN msgs : \A j \in i..Len(msgs) : msgs[j].type = "tool"}
Trailing == {msgs[i].text : i \in FromLast}
Failed   == Trailing \cap {"error", "down", "outage"}
\* Mutant: the outage counts although another call of the round succeeded.
TerminalAnyway == "outage" \in Trailing
Terminal == "outage" \in Trailing /\ Trailing \subseteq Failed

-----------------------------------------------------------------------------
\* Failures count once per kind, until a round without any.
Failures == IF Trailing = {} THEN failures ELSE IF Failed = {} THEN 0 ELSE failures + Cardinality(Failed)
Told ==
    (IF strikes > 0 THEN {"drift"} ELSE {}) \cup (IF Failed # {} THEN {"error"} ELSE {})
    \cup (IF Failures < 2 THEN {} ELSE IF "down" \in Failed THEN {"down"} ELSE {"stop"})

\* A subagent has no goal of its own: only reading is what was asked for.
Drifts(calls) == Contains(calls, "write")

Model(calls, text) == msgs' = Append(msgs, Ai(calls, text, Told))
Ends(text)         == msgs' = Append(msgs, Ai(<<>>, text, {"final"}))
\* The call that two rounds of effects in a row leave: without tools, not counted.
AgentForced ==
    /\ at = "agent" /\ strikes >= 2 /\ at' = "after"
    /\ \E t \in Texts : Ends(t)
    /\ UNCHANGED <<iter, failures, strikes, verdict>>
AgentNode ==
    /\ at = "agent" /\ strikes < 2 /\ at' = "after"
    /\ \/ \E c \in Batches : /\ Model(c, "empty") /\ strikes' = IF Drifts(c) THEN strikes + 1 ELSE 0
                             /\ Contains(c, "review") =>
                                  Cardinality({i \in DOMAIN msgs : msgs[i].text = "reply"}) < MaxReviews
       \/ \E t \in Texts : Model(<<>>, t) /\ strikes' = 0
    /\ iter' = iter + 1 /\ failures' = Failures /\ UNCHANGED verdict

AfterAgent ==
    /\ at = "after"
    /\ at' = CASE Contains(LastMsg.calls, "review")                -> "gate"
               [] LastMsg.calls # <<>> /\ ~Contains(LastMsg.calls, "review")
                                                                   -> IF iter - 1 >= MaxSteps THEN "synthesize" ELSE "tools"
               [] LastMsg.calls = <<>> /\ LastMsg.text # "empty"   -> "end"
               [] LastMsg.calls = <<>> /\ LastMsg.text = "empty"   -> "synthesize"
    /\ UNCHANGED <<msgs, iter, failures, strikes, verdict>>

\* The answers stand in the order of the calls; an outage with nothing beside
\* it ends the loop.
SubagentTools ==
    /\ at = "tools"
    /\ \E r \in [DOMAIN LastMsg.calls -> Results] : msgs' = msgs \o [i \in DOMAIN LastMsg.calls |-> ToolMsg(r[i])]
    /\ at' = "seen" /\ UNCHANGED <<iter, failures, strikes, verdict>>
AfterTools ==
    /\ at = "seen" /\ at' = IF Terminal THEN "synthesize" ELSE "agent"
    /\ UNCHANGED <<msgs, iter, failures, strikes, verdict>>
\* The leader's reply is the answer to the first question; the checkpoint waits
\* for it at this node, through restarts.
GateNode ==
    /\ at = "gate" /\ at' = "agent" /\ msgs' = Append(msgs, ToolMsg("reply"))
    /\ UNCHANGED <<iter, failures, strikes, verdict>>

\* What any tool returned, or the leader, if the model gives nothing.
Salvaged == IF \E i \in DOMAIN msgs : msgs[i].type = "tool" /\ msgs[i].text \in {"ok", "reply"}
            THEN "salvaged" ELSE "error"
Synthesize ==
    /\ at = "synthesize" /\ at' = "end"
    /\ IF Terminal THEN Ends("outage")
       ELSE \E t \in {"answer", "error", "placeholder", Salvaged} : Ends(t)
    /\ UNCHANGED <<iter, failures, strikes, verdict>>

\* extract_final_answer: the last text without calls, and no placeholder.
FinalAnswer ==
    LET texts == {i \in DOMAIN msgs : /\ msgs[i].type = "ai" /\ msgs[i].calls = <<>>
                                      /\ msgs[i].text \notin {"empty", "placeholder"}}
    IN  IF texts = {} THEN "empty" ELSE msgs[CHOOSE i \in texts : \A j \in texts : j <= i].text
Judge ==
    /\ at = "end" /\ verdict.outcome = "none"
    /\ verdict' = [text |-> FinalAnswer,
                   outcome |-> IF FinalAnswer \in {"answer", "salvaged"} THEN "succeeded" ELSE "failed"]
    /\ UNCHANGED <<at, msgs, iter, failures, strikes>>
\* The graph raises: a model that stays away, a pause that its caller loses.
Raise ==
    /\ at \in {"agent", "tools"} /\ at' = "end"
    /\ verdict' = [outcome |-> "raised", text |-> "empty"]
    /\ UNCHANGED <<msgs, iter, failures, strikes>>

LoopInit ==
    /\ at = "agent" /\ msgs = <<>> /\ iter = 0 /\ failures = 0 /\ strikes = 0
    /\ verdict = [outcome |-> "none", text |-> "empty"]
LoopNext ==
    \/ AgentForced \/ AgentNode \/ AfterAgent \/ SubagentTools \/ AfterTools \/ GateNode
    \/ Synthesize \/ Judge \/ Raise
LoopSpec == LoopInit /\ [][LoopNext]_loopVars

-----------------------------------------------------------------------------
Models == {i \in DOMAIN msgs : msgs[i].type = "ai"}
\* The round of tools after a message: the texts up to the model's next one.
Round(i) == {msgs[j].text : j \in {k \in DOMAIN msgs : k > i /\ \A m \in (i + 1)..k : msgs[m].type = "tool"}}
Tools(i) == msgs[i].calls # <<>> /\ Round(i) # {} /\ ~Contains(msgs[i].calls, "review")

\* A round that arXiv's outage left without any result is the last one, and the
\* caller is told of the outage; a round with a result goes on
\* (subagents.py, _terminal_subagent_error).
OutageEnds ==
    /\ \A i \in Models : Tools(i) /\ "outage" \in Round(i) /\ "ok" \notin Round(i) =>
          \A j \in Models : j > i => msgs[j].calls = <<>> /\ msgs[j].text = "outage"
    /\ verdict.text = "outage" => verdict.outcome = "failed"
    /\ \A j \in Models : msgs[j].text = "outage" =>
          \E i \in Models : i < j /\ Tools(i) /\ "ok" \notin Round(i)

\* No more than MaxSteps calls of the model lead to a round of tools and two to
\* none, whatever it asks its leader, and effects that nobody
\* asked for are not three times in a row (after_agent, evaluate_goal_drift).
RoundsBounded ==
    /\ Cardinality({i \in Models : Tools(i)}) <= MaxSteps
    /\ Cardinality({i \in Models : ~Contains(msgs[i].calls, "review")}) <= MaxSteps + 2
    /\ \A i, j, k \in Models : i < j /\ j < k /\ (\A m \in Models : m \in i..k => m \in {i, j, k}) =>
          ~(Drifts(msgs[i].calls) /\ Drifts(msgs[j].calls) /\ msgs[k].calls # <<>>)

\* A success carries the last message, which is an answer and comes after every
\* result; and a model that has seen a failing round after another is told to
\* stop (as_tool, agent_node).
VerdictHonest ==
    /\ verdict.outcome = "succeeded" =>
          LastMsg.type = "ai" /\ LastMsg.calls = <<>> /\ LastMsg.text = verdict.text
    /\ \A i, j, k \in Models : /\ i < j /\ j < k /\ ~\E m \in Models : m \in (i + 1)..(k - 1) /\ m # j
                               /\ Round(i) \cap {"error", "down", "outage"} # {}
                               /\ Round(j) \cap {"error", "down", "outage"} # {}
        => msgs[k].told \cap {"stop", "down", "final"} # {}

\* Observation, no run checks it: a question beside other calls, and a message
\* cut by the limit, leave calls that nothing answers when the model is called
\* (subagents.py:161, nodes.py:2345).
CallsAnswered == \A i, j \in Models : i < j =>
    Cardinality({k \in (i + 1)..(j - 1) : msgs[k].type = "tool"}) >= Len(msgs[i].calls)
=============================================================================
