-------------------------------- MODULE Turn --------------------------------
(***************************************************************************)
(* One conversation thread over several user inputs: graph.run and         *)
(* graph.resume drive the conversation graph (agent/graph.py), whose nodes *)
(* live in agent/nodes.py and whose loop agent -> tools -> agent is        *)
(* agent/search_loop.py.  The state a checkpoint keeps between two inputs  *)
(* is `conv'; `loop' is what understand_node resets; `msg' is the last     *)
(* message of the agent; `rnd' is the tools node at work on its calls.     *)
(* Plan mode is one step here: PlanExecutor models it.  The journal is the *)
(* tool gateway's promise (EffectOnce): a key already journalled under the *)
(* turn's execution id is answered without a second effect.                *)
(***************************************************************************)
EXTENDS Integers, Sequences, FiniteSets

CONSTANTS Key,         \* (tool, arguments) pairs the model of the agent may call
          SideEffect,  \* those whose tool requires an approval
          Sub,         \* the call that runs a subagent
          SubEffect,   \* the side effect that subagent may ask for
          MaxSteps,    \* state.max_steps: rounds of tools in one turn
          MaxCalls,    \* bound: calls of one message
          MaxAsk       \* bound: inputs of the thread

ASSUME TurnAssumption ==
    /\ SideEffect \subseteq Key /\ Sub \in Key \ SideEffect /\ SubEffect \notin Key
    /\ MaxSteps \in Nat /\ MaxCalls \in Nat \ {0} /\ MaxAsk \in Nat

VARIABLES
    at,       \* the node the graph is about to run, "idle" or "paused"
    conv,     \* what survives the turn: see Conv
    loop,     \* what a turn starts anew: see Loop
    msg,      \* the agent's last message: its calls and its text
    rnd,      \* the tools node's round: see Round
    held,     \* the checkpoint holds the interrupt of the tools node
    yes,      \* keys the user approved for this input
    journal,  \* keys journalled under this input's execution id
    effects,  \* how often each side effect happened for this input
    fresh,    \* keys executed for this input
    asked,    \* number of inputs so far
    out       \* what the last run, resume or pause returned

vars == <<at, conv, loop, msg, rnd, held, yes, journal, effects, fresh, asked, out>>

Verdict == {"none", "satisfied", "partial"}  \* partial: no_evidence too
Text    == {"empty", "good", "bad", "blocked"}  \* bad: fails the output validation
Calls   == UNION {[1..n -> Key] : n \in 0..MaxCalls}
Effect  == SideEffect \cup {SubEffect}
Running == {"understand", "context", "domain", "agent", "after", "tools", "gather",
            "synthesize", "plan", "chat", "clarify", "task"}
Conv    == [intent : {"none", "search", "chat", "clarify", "task"}, sure : BOOLEAN,
            mode : {"react", "plan"}, forced : {"auto", "plan"},
            verdict : Verdict, spent : BOOLEAN]
Loop    == [iter : 0..MaxSteps + 1, strikes : 0..3, cache : SUBSET Key, scope : SUBSET Key,
            spent : BOOLEAN]   \* token budget, or limit of turns, used up
Stage   == {"none", "run", "wait", "ok", "failed", "dup", "lost"}
Round   == [decision : {"none", "yes", "no"}, stage : [1..MaxCalls -> Stage], cache : SUBSET Key]
Out     == [status : {"none", "completed", "partial", "failed", "interrupted"},
            answer : Text, error : {"none", "timeout", "crash", "denied_crash", "approval",
                                    "blocked", "no_pending"}]

NoRound == [decision |-> "none", stage |-> [i \in 1..MaxCalls |-> "none"], cache |-> {}]
NoMsg   == [calls |-> <<>>, text |-> "empty"]
Nothing == [status |-> "none", answer |-> "empty", error |-> "none"]

Init ==
    /\ at = "idle" /\ msg = NoMsg /\ rnd = NoRound /\ held = FALSE
    /\ conv = [intent |-> "none", sure |-> TRUE, mode |-> "react", forced |-> "auto",
               verdict |-> "none", spent |-> FALSE]
    /\ loop = [iter |-> 0, strikes |-> 0, cache |-> {}, scope |-> {}, spent |-> FALSE]
    /\ yes = {} /\ journal = {} /\ fresh = {} /\ asked = 0
    /\ effects = [k \in Effect |-> 0]
    /\ out = Nothing

-----------------------------------------------------------------------------
(* What a run returns: the completion report and the answer it judges. *)

\* build_completion_report: the status of the turn from the error, the verdict
\* of the plan in the state, and the answer.
Status(error, verdict, answer) ==
    CASE error = "approval"                    -> "interrupted"
      [] error \notin {"none", "approval"}     -> "failed"
      [] error = "none" /\ verdict = "satisfied" -> "completed"
      [] error = "none" /\ verdict = "partial" -> "partial"
      [] error = "none" /\ verdict = "none"    -> IF answer = "empty" THEN "failed" ELSE "completed"

\* The end of a turn that ran to the end of the graph.
Finish(c, answer) ==
    /\ at' = "idle"
    /\ conv' = c
    /\ out' = [status |-> Status("none", c.verdict, answer), answer |-> answer, error |-> "none"]

\* run and resume on a timeout or on an exception: an answer of their own.  A
\* resumed tools node that did not finish leaves its interrupt pending.
Broken(error) ==
    /\ at' = IF held THEN "paused" ELSE "idle"
    /\ out' = [status |-> "failed", answer |-> "good", error |-> error]
    /\ rnd' = NoRound
    /\ UNCHANGED <<conv, loop, msg, held, yes, journal, effects, fresh, asked>>

-----------------------------------------------------------------------------
(* The entry points. *)

\* graph.run: a fresh execution id, the requested mode when there is one (react
\* is what "auto" may choose anyway).  On a
\* paused thread the new input starts the graph again and the interrupt is gone.
Ask(mode) ==
    /\ at \in {"idle", "paused"} /\ asked < MaxAsk
    /\ at' = "understand"
    /\ asked' = asked + 1
    /\ conv' = IF mode = "none" THEN conv ELSE [conv EXCEPT !.forced = mode]
    /\ held' = FALSE /\ msg' = NoMsg /\ rnd' = NoRound
    /\ yes' = {} /\ journal' = {} /\ fresh' = {} /\ effects' = [k \in Effect |-> 0]
    /\ out' = Nothing
    /\ UNCHANGED loop

\* graph.run refuses an input (guard, content safety, capability) before the
\* graph is touched: a paused thread stays paused.
Refuse ==
    /\ at \in {"idle", "paused"}
    /\ out' = [status |-> "failed", answer |-> "good", error |-> "blocked"]
    /\ UNCHANGED <<at, conv, loop, msg, rnd, held, yes, journal, effects, fresh, asked>>

\* Mutant: any answer lets the round go on.
DecisionYes(approved) == "yes"
Decision(approved) == IF approved THEN "yes" ELSE "no"

\* graph.resume: under the persisted execution id, so the journal stays; the
\* tools node runs again from its start with the decision.
Resume(approved) ==
    /\ at = "paused"
    /\ at' = "gather"
    /\ rnd' = [NoRound EXCEPT !.decision = Decision(approved), !.cache = loop.cache]
    /\ yes' = IF approved THEN yes \cup {msg.calls[i] : i \in DOMAIN msg.calls} ELSE yes
    /\ out' = Nothing
    /\ UNCHANGED <<conv, loop, msg, held, journal, effects, fresh, asked>>

\* graph.resume on a thread that waits for nothing.
ResumeNothing ==
    /\ at = "idle"
    /\ out' = [status |-> "none", answer |-> "good", error |-> "no_pending"]
    /\ UNCHANGED <<at, conv, loop, msg, rnd, held, yes, journal, effects, fresh, asked>>

-----------------------------------------------------------------------------
(* The nodes before the loop. *)

\* Mutant: the cache of repeated calls outlives the input.
NewLoopCached(scope) ==
    [iter |-> 0, strikes |-> 0, cache |-> loop.cache, scope |-> scope, spent |-> conv.spent]
NewLoop(scope) ==
    [iter |-> 0, strikes |-> 0, cache |-> {}, scope |-> scope, spent |-> conv.spent]

\* understand_node recognises a follow-up and keeps the last intent and goal.
FollowUp ==
    /\ at = "understand" /\ conv.intent # "none"
    /\ conv' = [conv EXCEPT !.sure = TRUE, !.mode = "react"]
    /\ loop' = NewLoop(loop.scope)
    /\ at' = "context"
    /\ UNCHANGED <<msg, rnd, held, yes, journal, effects, fresh, asked, out>>

\* understand_node asks the router model; two failures fall back to a search.
Understand(intent, sure, scope) ==
    /\ at = "understand"
    /\ conv' = [conv EXCEPT !.intent = intent, !.sure = sure, !.mode = "react"]
    /\ loop' = NewLoop(scope)
    /\ at' = "context"
    /\ UNCHANGED <<msg, rnd, held, yes, journal, effects, fresh, asked, out>>

\* memory and context only read here; then route_intent.
RouteIntent ==
    /\ at = "context"
    /\ at' = IF ~conv.sure THEN "clarify"
             ELSE CASE conv.intent = "chat"    -> "chat"
                    [] conv.intent = "clarify" -> "clarify"
                    [] conv.intent = "task"    -> "task"
                    [] OTHER                   -> "domain"
    /\ UNCHANGED <<conv, loop, msg, rnd, held, yes, journal, effects, fresh, asked, out>>

\* decide_mode: a requested mode wins, then the heuristic.
DecideMode(heuristic) ==
    /\ at = "domain"
    /\ LET mode == IF conv.forced = "auto" THEN heuristic ELSE conv.forced
       IN  at' = IF mode = "plan" THEN "plan" ELSE "agent"
    /\ UNCHANGED <<conv, loop, msg, rnd, held, yes, journal, effects, fresh, asked, out>>

\* chat_node and clarify_node: one more try when the first text fails its
\* validation; a blocked text is replaced by the safe one.
Converse(first, second) ==
    /\ at \in {"chat", "clarify"}
    /\ Finish(conv, CASE first = "good"    -> "good"
                      [] first = "blocked" -> "good"
                      [] OTHER             -> second)
    /\ UNCHANGED <<loop, msg, rnd, held, yes, journal, effects, fresh, asked>>

\* What stands in for an answer the model did not give.
\* Mutant: nothing does.
OrFallbackNone(text) == text
OrFallback(text) == IF text = "empty" THEN "good" ELSE text

\* task_node: the registry's entries are the answer when the model has none.
Task(text) ==
    /\ at = "task"
    /\ Finish(conv, OrFallback(text))
    /\ UNCHANGED <<loop, msg, rnd, held, yes, journal, effects, fresh, asked>>

\* plan, executor and verify nodes, then _synthesize_plan: the verdict stays in
\* the state; the context itself is the answer when the model has none, and a
\* blocked one is replaced.
PlanTurn(verdict, text) ==
    /\ at = "plan"
    /\ Finish([conv EXCEPT !.mode = "plan", !.verdict = verdict],
              OrFallback(IF text = "blocked" THEN "good" ELSE text))
    /\ UNCHANGED <<loop, msg, rnd, held, yes, journal, effects, fresh, asked>>

-----------------------------------------------------------------------------
(* The loop agent -> tools -> agent. *)

Drifts(calls) == \E i \in DOMAIN calls : calls[i] \in SideEffect \ loop.scope

\* agent_node, when the token budget or the turn limit is used up or the agent
\* drifted twice: a model without tools writes the answer.
MustAnswer == loop.spent \/ loop.strikes >= 2

ForcedAnswer(text) ==
    /\ at = "agent" /\ MustAnswer
    /\ msg' = [calls |-> <<>>, text |-> text]
    /\ at' = "after"
    /\ UNCHANGED <<conv, loop, rnd, held, yes, journal, effects, fresh, asked, out>>

\* agent_node's model call: any text or any calls, and the tokens used so far.
Reply(calls, text, spent) ==
    /\ at = "agent" /\ ~MustAnswer
    /\ (calls = <<>>) \/ (text = "empty")
    /\ msg' = [calls |-> calls, text |-> text]
    /\ loop' = [loop EXCEPT !.iter = @ + 1, !.spent = spent,
                            !.strikes = IF Drifts(calls) THEN @ + 1 ELSE 0]
    /\ at' = "after"
    /\ UNCHANGED <<conv, rnd, held, yes, journal, effects, fresh, asked, out>>

\* after_agent: the tools node while rounds are left, else synthesize.
AfterAgent ==
    /\ at = "after"
    /\ at' = IF msg.calls # <<>> /\ loop.iter - 1 < MaxSteps THEN "tools" ELSE "synthesize"
    /\ UNCHANGED <<conv, loop, msg, rnd, held, yes, journal, effects, fresh, asked, out>>

\* _preflight_approvals: one interrupt for all the calls that need an approval.
Preflight ==
    /\ at = "tools"
    /\ IF \E i \in DOMAIN msg.calls : msg.calls[i] \in SideEffect
       THEN /\ at' = "paused" /\ held' = TRUE
            /\ out' = [status |-> "interrupted", answer |-> "empty", error |-> "approval"]
            /\ rnd' = rnd
       ELSE /\ at' = "gather" /\ held' = FALSE
            /\ rnd' = [NoRound EXCEPT !.cache = loop.cache]
            /\ out' = out
    /\ UNCHANGED <<conv, loop, msg, yes, journal, effects, fresh, asked>>

Denied == rnd.decision = "no" /\ \E i \in DOMAIN msg.calls : msg.calls[i] \in SideEffect
Started == \E i \in DOMAIN msg.calls : rnd.stage[i] # "none"

\* _run of every call, in the order of the message, up to its first await: a
\* cached key is answered, a key in flight is waited for, another is executed.
Gather ==
    /\ at = "gather" /\ ~Started /\ ~Denied
    /\ rnd' = [rnd EXCEPT !.stage = [i \in 1..MaxCalls |->
                 IF i > Len(msg.calls) THEN "none"
                 ELSE IF msg.calls[i] \in rnd.cache THEN "dup"
                 ELSE IF \E j \in 1..(i - 1) : msg.calls[j] = msg.calls[i] THEN "wait"
                 ELSE "run"]]
    /\ UNCHANGED <<at, conv, loop, msg, held, yes, journal, effects, fresh, asked, out>>

\* _run of a call the user refused: its answer is built with a name that only
\* _execute_tool imports, so the node raises.  (What the other calls then bring
\* is lost; none of them is a side effect, for one decision is everybody's.)
GatherDenied ==
    /\ at = "gather" /\ ~Started /\ Denied
    /\ Broken("denied_crash")

\* Mutant: nobody tells the calls that wait.
StagesUntold(i, stage) == [rnd.stage EXCEPT ![i] = stage]
\* The call that executes (_execute_tool) ends; the calls that wait for it get
\* its result, marked as a repetition when it succeeded.
Stages(i, stage) ==
    [j \in 1..MaxCalls |->
        IF j = i THEN stage
        ELSE IF rnd.stage[j] = "wait" /\ msg.calls[j] = msg.calls[i]
             THEN IF stage = "ok" THEN "dup" ELSE stage
        ELSE rnd.stage[j]]

Ended(i, stage, keys) ==
    /\ rnd' = [rnd EXCEPT
                 !.stage = Stages(i, stage),
                 !.cache = IF stage = "ok" THEN @ \cup {msg.calls[i]} ELSE @]
    /\ effects' = [k \in Effect |-> effects[k] + IF k \in keys THEN 1 ELSE 0]
    /\ journal' = journal \cup keys
    /\ fresh' = fresh \cup {msg.calls[i]}
    /\ UNCHANGED <<at, conv, loop, msg, held, yes, asked, out>>

\* A call without side effect, or a side effect of a key the gateway has not
\* journalled: it succeeds, or fails without effect.
ExecEnd(i) ==
    /\ at = "gather" /\ rnd.stage[i] = "run"
    /\ \/ Ended(i, "ok", ({msg.calls[i]} \cap SideEffect) \ journal)
       \/ Ended(i, "failed", {})

\* as_tool: the subagent reaches a side effect of its own.  Its interrupt comes
\* out of the subgraph as an exception, and the handler of that exception needs
\* a name the module never imports: the parent sees a crashed tool.
SubagentAsks(i) ==
    /\ at = "gather" /\ rnd.stage[i] = "run" /\ msg.calls[i] = Sub
    /\ Ended(i, "lost", {})

\* All calls have answered: the messages and the cache go to the state.
ToolsJoin ==
    /\ at = "gather" /\ Started
    /\ \A i \in DOMAIN msg.calls : rnd.stage[i] \notin {"run", "wait"}
    /\ loop' = [loop EXCEPT !.cache = rnd.cache]
    /\ rnd' = NoRound /\ held' = FALSE /\ msg' = NoMsg
    /\ at' = "agent"
    /\ UNCHANGED <<conv, yes, journal, effects, fresh, asked, out>>

\* synthesize_node after the loop: the agent's text when it passes validation,
\* the safe text when it is blocked, else one more call of the model; what the
\* tools brought, or an apology, when that has no text.  The loop's tokens are now
\* the thread's: understand_node does not reset them.
Synthesize(text) ==
    /\ at = "synthesize"
    /\ Finish([conv EXCEPT !.spent = loop.spent],
              IF msg.calls = <<>> /\ msg.text \in {"good", "blocked"} THEN "good"
              ELSE OrFallback(text))
    /\ UNCHANGED <<loop, msg, rnd, held, yes, journal, effects, fresh, asked>>

\* The turn's time is over, or a model call of a node raises.
Abort(error) ==
    /\ at \in Running
    /\ Broken(error)

-----------------------------------------------------------------------------
UserStep ==
    \/ \E mode \in {"none", "auto", "plan"} : Ask(mode)
    \/ Refuse
    \/ \E approved \in BOOLEAN : Resume(approved)
    \/ ResumeNothing

NodeStep ==
    \/ FollowUp
    \/ \E intent \in {"search", "chat", "clarify", "task"}, sure \in BOOLEAN,
          scope \in SUBSET SideEffect : Understand(intent, sure, scope)
    \/ RouteIntent
    \/ \E mode \in {"react", "plan"} : DecideMode(mode)
    \/ \E first, second \in Text : Converse(first, second)
    \/ \E text \in Text : Task(text) \/ Synthesize(text) \/ ForcedAnswer(text)
    \/ \E verdict \in Verdict \ {"none"}, text \in Text : PlanTurn(verdict, text)
    \/ \E calls \in Calls, text \in Text, spent \in BOOLEAN : Reply(calls, text, spent)
    \/ AfterAgent
    \/ Preflight
    \/ Gather
    \/ GatherDenied
    \/ \E i \in 1..MaxCalls : ExecEnd(i) \/ SubagentAsks(i)
    \/ ToolsJoin

Next == UserStep \/ NodeStep \/ \E error \in {"timeout", "crash"} : Abort(error)

Spec == Init /\ [][Next]_vars
\* A node that may run does: the event loop runs the turn's task.
FairSpec == Spec /\ WF_vars(NodeStep)

-----------------------------------------------------------------------------
TypeOK ==
    /\ at \in Running \cup {"idle", "paused"}
    /\ conv \in Conv /\ loop \in Loop /\ rnd \in Round /\ out \in Out
    /\ msg.calls \in Calls /\ msg.text \in Text
    /\ held \in BOOLEAN /\ yes \subseteq Key /\ fresh \subseteq Key
    /\ journal \subseteq Effect /\ asked \in 0..MaxAsk
    /\ effects \in [Effect -> Nat]

\* A side effect happens only in a round the user let go on, and only for a call
\* the user approved for this very input: neither a replayed node nor an earlier
\* input's approval nor a subagent lets one through (nodes.py:170, approval.py).
EffectApproved ==
    [][\A k \in Effect : effects'[k] > effects[k] =>
          /\ k \in yes /\ rnd.decision = "yes" /\ at = "gather"]_vars

\* For one input a side effect happens at most once, whatever is repeated: the
\* calls of a round or of several, and the node that runs again when a resumed
\* run was cut off (graph.py:428, nodes.py:372-414).
EffectOncePerInput == \A k \in Effect : effects[k] <= 1

\* A repeated call is answered from a result of this very input, never from an
\* earlier one's (nodes.py:1159, 1303, 1334).
RepeatIsOfThisInput ==
    \A i \in DOMAIN msg.calls :
        (at = "gather" /\ rnd.stage[i] = "dup") => msg.calls[i] \in fresh

\* Both: what one input causes, and what it is told, comes once and from itself.
OncePerInput == EffectOncePerInput /\ RepeatIsOfThisInput

\* The loop ends by itself: at most one reply beyond the rounds, and the third
\* reply in a row outside the user's goal is never asked for (nodes.py:1716, 2344).
LoopBounded == loop.iter <= MaxSteps + 1 /\ loop.strikes <= 2

\* A turn of the loop, of a plan or of the task list that comes to its end never
\* ends without an answer (nodes.py:1494, 2066, 2188).
AlwaysAnswered ==
    (at = "idle" /\ out.error = "none" /\ out.status # "none" /\ conv.sure
        /\ conv.intent \in {"search", "task"})
    => out.answer # "empty"

\* Every input is answered or waits for the user.
TurnEnds == (at \in Running) ~> (at \in {"idle", "paused"})

-----------------------------------------------------------------------------
(* What the documents say and the code does not do. *)

\* nodes.py:139-141: a failing tool becomes a failure message and does not
\* break the graph; a refused call is to be answered with APPROVAL_DENIED.
RefusalIsAnswered == out.error # "denied_crash"

\* subagents.py:380-381: an approval asked for inside a subagent pauses the
\* parent graph; it must not become a failure of the subagent.
SubagentPauses == \A i \in 1..MaxCalls : rnd.stage[i] # "lost"

\* completion_report.py:40: the report is about one turn: a turn that ran no plan
\* and has an answer is completed.
ReportIsThisTurns ==
    (at = "idle" /\ out.error = "none" /\ conv.mode = "react" /\ out.answer # "empty")
    => out.status \in {"none", "completed"}
=============================================================================
