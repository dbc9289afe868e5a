----------------------------- MODULE TurnReport -----------------------------
(***************************************************************************)
(* What a turn says of itself.  synthesize_node, chat_node, clarify_node    *)
(* and task_node write the answer (agent/nodes.py), verify_node the verdict *)
(* of a plan (plan.py), and the entry points graph.run, POST /chat and      *)
(* POST /resume (graph.py, web/api/routers/agent.py) judge both: a report,  *)
(* a confidence, the end of the turn in the trace, a lesson for later and   *)
(* what the steps cost (completion_report.py, confidence_policy.py,         *)
(* postmortem.py, cost_history.py).  A thread takes several turns, and some *)
(* values of its state outlive them.  A text is good, bad (fails the checks *)
(* of output_policy.py), blocked or empty; a call of the model may fail.    *)
(***************************************************************************)
EXTENDS Integers, Sequences, FiniteSets, SequencesExt, FiniteSetsExt

CONSTANTS
    Turns,    \* inputs: [entry, gate, kind, sure, drift, steps, results, ops, domain, doc, exps, verdict,
              \*          verbatim, json, exceeded, texts, own, saved, end, far, safe, tokens]
    Later,    \* those that a second turn and the next ones take
    MaxTurns,
    OpCap, Cap \* of the text of one operation and of all

ReportAssumption == {MaxTurns, OpCap, Cap} \subseteq Nat \ {0}

VARIABLES
    conv,  \* the thread: [verdict, open, mode, plan, results, sure, drift, exceeded, held, turns]
    turn,  \* the last turn's input
    stale, \* the verdict is of an earlier turn
    reply  \* what came of it: [answer, error, paused, report, ends, lesson, costs]

reportVars == <<conv, turn, stale, reply>>

Text(by, is, shows) == [by |-> by, is |-> is, shows |-> shows]
NoText   == Text("nobody", "empty", <<>>)
Empty(a) == a.is = "empty"
Done     == {"succeeded", "skipped"}

-----------------------------------------------------------------------------
(* The verdict of a plan (verify_node).                                          *)
IdsOf(list) == [n \in DOMAIN list |-> list[n].id]
Unfinished(plan, results) == SelectSeq(plan, LAMBDA s : \A n \in DOMAIN results : results[n].id # s.id)
OpenSteps(t) ==
    IdsOf(SelectSeq(t.results, LAMBDA r : r.outcome \notin Done)) \o IdsOf(Unfinished(t.steps, t.results))
Verdict(status, open) == [status |-> status, open |-> open]

Evidence(t) == \E n \in DOMAIN t.results : t.results[n].outcome = "succeeded" /\ t.results[n].out # ""
Counted(t) ==
    IF t.domain = "paper" /\ ~Evidence(t) THEN "no_evidence" ELSE IF OpenSteps(t) # <<>> THEN "partial" ELSE "satisfied"
\* The model may lower a verdict; it never hides a step that failed.
Refined(t) ==
    CASE t.domain = "creation" \/ t.verdict = "none"     -> Counted(t)
      [] t.domain = "paper" /\ ~Evidence(t)              -> "no_evidence"
      [] t.verdict = "no_evidence"                       -> "partial"
      [] OpenSteps(t) # <<>> /\ t.verdict # "failed"     -> "partial"
      [] OTHER                                           -> t.verdict
Verify(t) ==
    CASE t.domain = "creation" /\ t.doc # "none" ->
            IF t.doc = "unread" THEN Verdict("failed", <<"doc">>)
            ELSE IF t.doc = "done" THEN Verdict("satisfied", <<>>) ELSE Verdict("partial", <<"section">>)
      [] t.domain = "coding" /\ t.exps # "none" ->
            IF t.exps = "done" THEN Verdict("satisfied", <<>>) ELSE Verdict("partial", <<"experiment">>)
      [] t.domain = "paper" /\ Counted(t) = "satisfied" -> Verdict("satisfied", <<>>)
      [] OTHER -> Verdict(Refined(t), OpenSteps(t))

-----------------------------------------------------------------------------
(* The answer.                                                                   *)
Silent(is)  == is \in {"empty", "fails"}
\* A text of the program's own is no JSON.
Own(t)      == IF t.json THEN "bad" ELSE "good"
Fixed(t, by) == Text(by, Own(t), <<>>)

\* The source text is the answer when every step that has a result went well.
Wide(t, id) == \E n \in DOMAIN t.steps : t.steps[n].id = id /\ t.steps[n].wide
Outputs(t)  == SelectSeq(t.results, LAMBDA r : r.out # "")
OnceEach(s) ==
    LET new == {n \in DOMAIN s : \A m \in 1..(n - 1) : s[m] # s[n]}
    IN  [n \in 1..Cardinality(new) |-> s[SetToSortSeq(new, <)[n]]]
Verbatim(t) ==
    LET all  == Outputs(t)
        wide == SelectSeq(all, LAMBDA r : Wide(t, r.id))
        take == IF wide = <<>> /\ Len(all) = 1 THEN all ELSE wide
    IN  IF ~t.verbatim \/ \E n \in DOMAIN t.results : t.results[n].outcome \notin Done THEN <<>>
        ELSE OnceEach([n \in DOMAIN take |-> take[n].out])

\* What the model is given: the gaps of the plan, the operations that have no
\* message of their own, cut in two ways, and what the steps say.
Item(what, id, size) == [what |-> what, id |-> id, size |-> size]
Operations(t) ==
    LET ops == SelectSeq(t.ops, LAMBDA o : ~o.shown)
        upTo(n) == MapThenSumSet(LAMBDA m : Min({ops[m].size, OpCap}), 1..n)
        left(n) == Cap - upTo(n - 1)
    IN  SelectSeq([n \in DOMAIN ops |-> Item("operation", ops[n].id, Min({ops[n].size, OpCap, left(n)}))],
                  LAMBDA i : i.size > 0)
\* Mutant: only what failed is named, not what never ran.
GapsOfFailed(t, v) ==
    IF v.status = "satisfied" THEN <<>>
    ELSE [n \in DOMAIN SelectSeq(t.results, LAMBDA r : r.outcome \notin Done) |->
             Item("gap", SelectSeq(t.results, LAMBDA r : r.outcome \notin Done)[n].id, 1)]
Gaps(t, v) ==
    IF v.status = "satisfied" THEN <<>> ELSE [n \in DOMAIN v.open |-> Item("gap", v.open[n], 1)]
Told(t) ==
    LET told == SelectSeq(t.results, LAMBDA r : r.outcome \notin {"succeeded", "partial", "skipped"} \/ r.out # "")
    IN  [n \in DOMAIN told |-> Item("step", told[n].id, 1)]
Given(t, v) == Gaps(t, v) \o Operations(t) \o Told(t)

\* _synthesize_plan: a text that fails the checks is written once more, and the
\* second one is not checked.
SynthesizePlan(t, v) ==
    LET given == Given(t, v)
        first == IF given # <<>> /\ ~Silent(t.texts[1]) THEN Text("model", t.texts[1], given)
                 ELSE IF given # <<>> THEN Text("context", Own(t), given) ELSE Fixed(t, "sorry")
    IN  CASE t.exceeded                                          -> Fixed(t, "budget")
          [] ~t.exceeded /\ t.domain = "creation" /\ t.doc \in {"done", "half"} -> Fixed(t, "progress")
          [] OTHER ->
                IF Verbatim(t) # <<>> THEN Text("verbatim", Own(t), Verbatim(t))
                ELSE IF first.is = "blocked" THEN Fixed(t, "refusal")
                ELSE IF first.is = "bad" /\ ~Silent(t.texts[2]) THEN Text("model", t.texts[2], given)
                ELSE first
\* synthesize_node: the agent's own text when it passes, else the model's, what
\* the tools brought, or an excuse.
SynthesizeReact(t) ==
    CASE t.own = "good"    -> Text("agent", "good", <<>>)
      [] t.own = "blocked" -> Fixed(t, "refusal")
      [] OTHER             -> IF ~Silent(t.texts[1]) THEN Text("model", t.texts[1], <<>>)
                              ELSE Fixed(t, IF t.saved THEN "tools" ELSE "sorry")
\* chat_node, clarify_node: one more try; task_node: the list of tasks.
Converse(t) ==
    CASE t.texts[1] = "good"    -> Text("model", "good", <<>>)
      [] t.texts[1] = "blocked" -> Fixed(t, "refusal")
      [] OTHER                  -> Text("model", t.texts[2], <<>>)
Tasks(t) == IF Silent(t.texts[1]) THEN Fixed(t, "tasks") ELSE Text("model", t.texts[1], <<>>)
Answer(t, v) ==
    CASE t.kind = "plan"  -> SynthesizePlan(t, v)
      [] t.kind = "react" -> SynthesizeReact(t)
      [] t.kind = "chat"  -> Converse(t)
      [] t.kind = "task"  -> Tasks(t)
Raises(t) ==
    \/ t.end = "raises"
    \/ t.kind = "chat" /\ t.texts[1] = "fails"
    \/ t.kind = "chat" /\ t.texts[1] \in {"bad", "empty"} /\ t.texts[2] = "fails"

-----------------------------------------------------------------------------
(* The thread's state.  understand_node resets what a turn leaves, but for the   *)
(* verdict.                                                                      *)
NoState == [verdict |-> "none", open |-> <<>>, mode |-> "none", plan |-> <<>>, results |-> <<>>, sure |-> 0,
            drift |-> FALSE, exceeded |-> FALSE, held |-> FALSE, turns |-> 0]
Reset(t) ==
    [conv EXCEPT !.mode = "react", !.plan = <<>>, !.results = <<>>, !.sure = t.sure, !.drift = FALSE,
                 !.exceeded = FALSE, !.held = FALSE]
Graph(t) ==
    LET c == IF t.entry = "resume" THEN [conv EXCEPT !.held = FALSE] ELSE Reset(t) IN
    CASE t.end = "approval" -> [c EXCEPT !.held = TRUE]
      [] t.kind = "plan"    -> [c EXCEPT !.mode = "plan", !.plan = t.steps, !.results = t.results, !.drift = t.drift,
                                         !.exceeded = t.exceeded, !.verdict = Verify(t).status, !.open = Verify(t).open]
      [] OTHER              -> [c EXCEPT !.drift = t.drift]

-----------------------------------------------------------------------------
(* The report.                                                                   *)
Open(c) == IF c.verdict # "none" THEN c.open ELSE IdsOf(Unfinished(c.plan, c.results))
Status(c, a, error) ==
    CASE error = "approval_required"           -> "interrupted"
      [] error \notin {"none", "approval_required"} -> "failed"
      [] OTHER ->
            IF c.exceeded /\ Empty(a) THEN "partial"
            ELSE IF c.verdict = "satisfied" /\ Open(c) = <<>> THEN "completed"
            ELSE IF c.verdict \in {"partial", "no_evidence"} THEN "partial"
            ELSE IF c.verdict = "failed" THEN "failed"
            ELSE IF Open(c) # <<>> THEN "partial"
            ELSE IF ~Empty(a) THEN "completed" ELSE "failed"

\* In thousandths.
Count(results, S) == Cardinality({n \in DOMAIN results : results[n].outcome \in S})
OfVerdict(v) == CASE v = "satisfied" -> 250 [] v = "partial" -> -120 [] v \in {"failed", "no_evidence"} -> -300 [] OTHER -> 0
OfStatus(s)  == CASE s = "completed" -> 80 [] s = "partial" -> -120 [] OTHER -> -250
Score(c, a, status) ==
    LET evidence == Cardinality({n \in DOMAIN c.results :
                        c.results[n].outcome \in {"succeeded", "partial"} /\ c.results[n].out # ""})
        failures == Len(c.results) - Count(c.results, Done)
    IN  450 + (IF c.sure = 0 THEN 0 ELSE 2 * (c.sure - 50)) + (IF Empty(a) THEN -300 ELSE 80)
        + OfVerdict(c.verdict) + Min({150, 50 * evidence}) - Min({250, 70 * failures})
        - (IF c.drift THEN 200 ELSE 0) + (IF a.is = "good" THEN 80 ELSE -200) + OfStatus(status)
Bounded(n) == Max({50, Min({950, n})})
Level(c, a, status) ==
    LET n == Bounded(Score(c, a, status)) IN IF n >= 750 THEN "high" ELSE IF n >= 500 THEN "medium" ELSE "low"

Completion(c, a, error) ==
    LET status == Status(c, a, error) IN
    [status |-> status, open |-> Open(c),
     resume |-> status \in {"partial", "interrupted"} /\ (Open(c) # <<>> \/ status = "interrupted"),
     level  |-> Level(c, a, status)]
NoReport == [status |-> "none", open |-> <<>>, resume |-> FALSE, level |-> "none"]

\* A lesson is kept of a turn that did not end well, and the steps of a plan share
\* its cost by their scope.
Lesson(c, status) ==
    status # "ok" \/ c.verdict \in {"partial", "failed", "no_evidence"} \/ c.open # <<>>
Weight(s) == IF s.wide THEN 25 ELSE 10
Costs(c, t) ==
    IF c.mode # "plan" \/ c.plan = <<>> \/ t.tokens = 0 THEN <<>>
    ELSE LET all == MapThenSumSet(LAMBDA n : Weight(c.plan[n]), DOMAIN c.plan)
         IN  [n \in DOMAIN c.plan |-> (t.tokens * Weight(c.plan[n])) \div all]

Reply(a, error, report, ends) ==
    [answer |-> a, error |-> error, paused |-> FALSE, report |-> report, ends |-> ends, lesson |-> FALSE, costs |-> <<>>]
Paused(r)        == [r EXCEPT !.paused = TRUE]
Kept(r, c, t, s) == [r EXCEPT !.lesson = Lesson(c, s), !.costs = Costs(c, t)]

-----------------------------------------------------------------------------
(* The entry points.  c is the state that the graph left, a its last text.       *)
Run(t, c, a) ==
    CASE t.gate # "ok"      -> Reply(Fixed(t, "gate"), t.gate, Completion(NoState, Fixed(t, "gate"), t.gate), <<>>)
      [] t.gate = "ok" /\ t.end = "timeout" ->
            Kept(Reply(Fixed(t, "late"), "turn_timeout", Completion(NoState, Fixed(t, "late"), "turn_timeout"),
                       <<"timeout">>), NoState, t, "timeout")
      [] t.gate = "ok" /\ t.end = "approval" ->
            Paused(Kept(Reply(a, "none", Completion(c, a, "approval_required"), <<"interrupted">>), c, t, "interrupted"))
      [] OTHER              -> IF Raises(t) THEN Reply(NoText, "exception", NoReport, <<>>)
                               ELSE Kept(Reply(a, "none", Completion(c, a, "none"), <<"ok">>), c, t, "ok")
Chat(t, c, a) ==
    LET failed(by, code, end) == Reply(by, code, Completion(NoState, by, code), <<end>>) IN
    CASE t.gate # "ok" -> failed(Fixed(t, "gate"), t.gate, IF t.gate = "handoff" THEN "handoff" ELSE "blocked")
      [] t.gate = "ok" /\ t.end = "timeout"  -> failed(Fixed(t, "late"), "turn_timeout", "timeout")
      [] t.gate = "ok" /\ t.end = "approval" -> Paused(Reply(NoText, "none", Completion(c, a, "approval_required"), <<"interrupted">>))
      [] OTHER -> IF Raises(t) THEN failed(NoText, "agent_runtime", "error")
                  ELSE IF ~t.safe
                  THEN Reply(Fixed(t, "refusal"), "OUTPUT_BLOCKED", Completion(c, Fixed(t, "refusal"), "OUTPUT_BLOCKED"), <<"blocked">>)
                  ELSE Reply(a, "none", Completion(c, a, "none"), <<"ok">>)
\* Both graph.resume and the endpoint put the end into the trace.
Resume(t, c, a) ==
    LET text == IF conv.held /\ t.end = "timeout" THEN Text("late", "good", <<>>) ELSE Text("none", "good", <<>>) IN
    CASE ~conv.held -> Reply(text, "no_pending", Completion(NoState, text, "no_pending"), <<"error">>)
      [] conv.held /\ t.end = "timeout" ->
            Kept(Reply(text, "turn_timeout", Completion(NoState, text, "turn_timeout"), <<"timeout", "error">>), NoState, t, "timeout")
      [] conv.held /\ t.end = "approval" ->
            Paused(Kept(Reply(NoText, "none", Completion(c, NoText, "approval_required"), <<"interrupted">>), c, t, "interrupted"))
      [] OTHER -> IF Raises(t) THEN Reply(NoText, "agent_runtime", Completion(NoState, NoText, "agent_runtime"), <<"error">>)
                  ELSE IF Empty(a)
                  THEN Kept(Reply(NoText, "empty_answer", Completion(c, NoText, "empty_answer"), <<"ok", "error">>), c, t, "ok")
                  ELSE Kept(Reply(a, "none", Completion(c, a, "none"), <<"ok", "ok">>), c, t, "ok")
Answered(t, c, a) ==
    CASE t.entry = "run" -> Run(t, c, a) [] t.entry = "chat" -> Chat(t, c, a) [] t.entry = "resume" -> Resume(t, c, a)

Ran(t)   == t.gate = "ok" /\ (t.entry = "resume" => conv.held)
\* A turn that was cut off has left its whole state or none of it.
Whole(t) == t.far \/ (t.end # "timeout" /\ ~Raises(t))
TextOf(t) == IF t.end = "approval" \/ Raises(t) THEN NoText ELSE Answer(t, Verify(t))

NoReply == Reply(NoText, "none", NoReport, <<>>)
Init == conv = NoState /\ turn = "none" /\ stale = FALSE /\ reply = NoReply

Take(t) ==
    /\ conv.turns < MaxTurns
    /\ t.entry = "resume" => t.gate = "ok" /\ t.kind = "react" /\ t.far = FALSE
    /\ reply' = Answered(t, Graph(t), TextOf(t))
    /\ conv' = [IF Ran(t) /\ Whole(t) THEN Graph(t) ELSE conv EXCEPT !.turns = conv.turns + 1]
    /\ stale' = (conv.verdict # "none" /\ ~(Ran(t) /\ t.kind = "plan"))
    /\ turn' = t
Next == \E t \in IF conv.turns = 0 THEN Turns ELSE Later : Take(t)

-----------------------------------------------------------------------------
Planned == conv.turns > 0 /\ turn.kind = "plan" /\ reply.error = "none" /\ turn.gate = "ok" /\ ~reply.paused

\* The answer of a plan that is not done rests on a list of all that is open, be
\* it the model's or the list itself, unless the program answers in its own words
\* or with the source text (nodes.py 2029-2066, plan.py 2057-2090).
GapsTold ==
    (Planned /\ reply.report.status # "completed" /\ reply.answer.by \in {"model", "context"}) =>
        \A n \in DOMAIN reply.report.open :
            \E m \in DOMAIN reply.answer.shows : reply.answer.shows[m].what = "gap" /\ reply.answer.shows[m].id = reply.report.open[n]

\* Source text is given out only when no step failed; then every text of a step
\* that was to read one is there, once (nodes.py 1912-1954).
VerbatimWhole ==
    (Planned /\ reply.answer.by = "verbatim") =>
        \A n \in DOMAIN turn.results :
            LET r == turn.results[n] IN
            /\ r.outcome \in Done
            /\ (r.out # "" /\ Wide(turn, r.id)) =>
                   Cardinality({m \in DOMAIN reply.answer.shows : reply.answer.shows[m] = r.out}) = 1

\* A turn said to be completed has an answer, and when it ran a plan on papers
\* each step of it went well (completion_report.py 48-63, nodes.py 1283-1336).
CompletedIsDone ==
    reply.report.status = "completed" =>
        /\ stale \/ ~Empty(reply.answer) \/ turn.kind = "plan"
        /\ (Planned /\ turn.domain = "paper") =>
               \A n \in DOMAIN turn.steps : \E m \in DOMAIN turn.results :
                   turn.results[m].id = turn.steps[n].id /\ turn.results[m].outcome \in Done

\* However many steps found something, a turn that did not complete is not sure
\* of its answer, but for one whose text was replaced at the door
\* (confidence_policy.py 25-113).
FailureNotSure ==
    (reply.report.status # "completed" /\ reply.error # "OUTPUT_BLOCKED") => reply.report.level # "high"

\* What can be resumed is there: an approval that waits, or steps of the plan of
\* this very turn (completion_report.py 65-77, graph.py 254-405).
ResumeIsReal ==
    /\ (reply.report.resume /\ ~stale) =>
           \/ reply.paused /\ conv.held
           \/ Planned /\ reply.report.open # <<>>
    /\ reply.paused => conv.held /\ reply.report.status = "interrupted"

\* The trace has an end for every turn that was let in and that did not leave by
\* an exception, and all its ends say what the caller was told; the endpoint's
\* own word on an empty answer is the one exception (agent.py 153-167, 399-492,
\* graph.py 527-609).
EndsAgree ==
    conv.turns > 0 =>
        /\ (turn.gate = "ok" /\ reply.error # "exception") => reply.ends # <<>>
        /\ \A n \in DOMAIN reply.ends :
              (reply.ends[n] = "ok") <=> (reply.error \in {"none", "empty_answer"} /\ ~reply.paused /\ (n = 1 \/ reply.error = "none"))

\* A turn of graph.run that has an answer leaves a lesson exactly when it is not
\* completed, and its plan's steps share all of its cost (postmortem.py 12-60,
\* cost_history.py 105-130).
LessonsAndCosts ==
    (conv.turns > 0 /\ turn.entry = "run" /\ turn.gate = "ok" /\ ~Empty(reply.answer)) =>
        /\ reply.lesson <=> reply.report.status # "completed"
        /\ reply.costs # <<>> =>
              LET sum == MapThenSumSet(LAMBDA n : reply.costs[n], DOMAIN reply.costs)
              IN  sum <= turn.tokens /\ sum + Len(reply.costs) > turn.tokens

ReportSound ==
    /\ GapsTold /\ VerbatimWhole /\ CompletedIsDone /\ FailureNotSure /\ ResumeIsReal /\ EndsAgree /\ LessonsAndCosts
=============================================================================
