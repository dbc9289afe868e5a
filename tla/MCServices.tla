----------------------------- MODULE MCServices -----------------------------
(***************************************************************************)
(* Ten components that share no state, checked by one run of TLC: the      *)
(* initial state picks the component that runs, and the others rest in an  *)
(* initial state.  The state space is the disjoint union of the ten; four  *)
(* of them are those of module Dialogue.                                   *)
(***************************************************************************)
EXTENDS Dialogue

CONSTANTS
    BufferMax, TraceEvents, TraceFailures, TraceRestarts, \* of TraceStore
    Queries, RunQueue,                                    \* of EvalRun
    Exp, MaxRunning, StudyMax, ExpEvents, ExpRestarts,    \* of Experiments
    Name, Id, Slug, MaxPlan, MaxTexts,                    \* of Writing
    Fact, Lesson, Key, KeyOf, NoKey, Conf, MemoryWrites,  \* of MemoryStore
    N, Threshold, Cooldown, Uses, MaxCalls, MaxTime       \* of ModelGateway

VARIABLES which,
    seqOf, buffer, held, asks, at, tx, db, nextId, dropped, forgone, asked, missedRead, closed,
    failures, restarts,
    home, pc, done, outcome, erow, hb, rec, kept, feed, sub, inbox, told,
    state, job, watch, starting, project, card, log, study, lapses, events,
    plan, doc, texts, torn, md, cut, mark, turn, writes,
    records, disabled, noLessons, agreed, ops,
    fails, opened, used, clock, kind, todo, shut, tried, voice, end, streak, calls

Slugs  == [n \in Name |-> IF n = "c" THEN "b" ELSE n]
Topics == [c \in Fact \cup Lesson |-> IF c \in Fact THEN "kf" ELSE "kl"]

Trace  == INSTANCE TraceStore WITH MaxEvents <- TraceEvents, MaxFailures <- TraceFailures,
            MaxRestarts <- TraceRestarts, ops <- asks, missed <- missedRead
Run    == INSTANCE EvalRun WITH QueueMax <- RunQueue
Exps   == INSTANCE Experiments WITH MaxEvents <- ExpEvents, MaxRestarts <- ExpRestarts
Write  == INSTANCE Writing WITH MaxWrites <- MaxTexts
Memory == INSTANCE MemoryStore WITH MaxWrites <- MemoryWrites, rec <- records
Model  == INSTANCE ModelGateway

ASSUME Instances ==
    /\ Trace!TraceAssumption /\ Run!RunAssumption /\ Exps!ExperimentsAssumption
    /\ Write!WritingAssumption
    /\ Memory!MemoryAssumption /\ Model!ModelGatewayAssumption

TraceVars == <<seqOf, buffer, held, asks, at, tx, db, nextId, dropped, forgone, asked,
    missedRead, closed, failures, restarts>>
RunVars == <<home, pc, done, outcome, erow, hb, rec, kept, feed, sub, inbox, told>>
ExpsVars == <<state, job, watch, starting, project, card, log, study, lapses, events>>
WriteVars == <<plan, doc, texts, torn, md, cut, mark, turn, writes>>
MemoryVars == <<records, disabled, noLessons, agreed, ops>>
ModelVars == <<fails, opened, used, clock, kind, todo, shut, tried, voice, end, streak, calls>>

Component == {"stream", "feed", "trace", "run", "experiments", "writing", "memory", "summary",
              "context", "model"}
Chosen(name) == which = name

\* A chapter plan, a task and an experiment to stand for the others.
SomePlan == CHOOSE p \in Write!Names : TRUE
SomeTask == CHOOSE t \in Job : TRUE
SomeExp  == CHOOSE e \in Exp : TRUE

\* A component that does not run rests in an initial state.
Init ==
    /\ which \in Component
    /\ Stream!Init /\ Feed!Init /\ Trace!Init /\ Exps!Init /\ Memory!Init /\ Summary!Init
    /\ Model!Init
    /\ Run!Init /\ (Chosen("run") \/ home = "server")
    /\ Write!Init /\ (Chosen("writing") \/ plan = SomePlan)
    /\ IF Chosen("context") THEN Context!Init
       ELSE conv = <<>> /\ system = 0 /\ budget = 0 /\ fit = Context!None

Next ==
    /\ UNCHANGED which
    /\ \/ /\ Chosen("stream") /\ Stream!Next
          /\ UNCHANGED <<FeedVars, TraceVars, RunVars, ExpsVars, WriteVars, MemoryVars,
                       SummaryVars, ContextVars, ModelVars>>
       \/ /\ Chosen("feed") /\ Feed!Next
          /\ UNCHANGED <<StreamVars, TraceVars, RunVars, ExpsVars, WriteVars, MemoryVars,
                       SummaryVars, ContextVars, ModelVars>>
       \/ /\ Chosen("trace") /\ Trace!Next
          /\ UNCHANGED <<StreamVars, FeedVars, RunVars, ExpsVars, WriteVars, MemoryVars,
                       SummaryVars, ContextVars, ModelVars>>
       \/ /\ Chosen("run") /\ Run!Next
          /\ UNCHANGED <<StreamVars, FeedVars, TraceVars, ExpsVars, WriteVars, MemoryVars,
                       SummaryVars, ContextVars, ModelVars>>
       \/ /\ Chosen("experiments") /\ Exps!Next
          /\ UNCHANGED <<StreamVars, FeedVars, TraceVars, RunVars, WriteVars, MemoryVars,
                       SummaryVars, ContextVars, ModelVars>>
       \/ /\ Chosen("writing") /\ Write!Next
          /\ UNCHANGED <<StreamVars, FeedVars, TraceVars, RunVars, ExpsVars, MemoryVars,
                       SummaryVars, ContextVars, ModelVars>>
       \/ /\ Chosen("memory") /\ Memory!Next
          /\ UNCHANGED <<StreamVars, FeedVars, TraceVars, RunVars, ExpsVars, WriteVars,
                       SummaryVars, ContextVars, ModelVars>>
       \/ /\ Chosen("summary") /\ Summary!Next
          /\ UNCHANGED <<StreamVars, FeedVars, TraceVars, RunVars, ExpsVars, WriteVars,
                       MemoryVars, ContextVars, ModelVars>>
       \/ /\ Chosen("context") /\ Context!Next
          /\ UNCHANGED <<StreamVars, FeedVars, TraceVars, RunVars, ExpsVars, WriteVars,
                       MemoryVars, SummaryVars, ModelVars>>
       \/ /\ Chosen("model") /\ Model!Next
          /\ UNCHANGED <<StreamVars, FeedVars, TraceVars, RunVars, ExpsVars, WriteVars,
                       MemoryVars, SummaryVars, ContextVars>>

vars == <<which, StreamVars, FeedVars, TraceVars, RunVars, ExpsVars, WriteVars, MemoryVars,
          SummaryVars, ContextVars, ModelVars>>
Spec == Init /\ [][Next]_vars

\* The fairness of each component, while it is the one that runs.
Goes(name, Action) == Chosen(name) /\ Action
FairSpec ==
    /\ Spec
    /\ WF_StreamVars(Goes("stream", Stream!MsgStep)) /\ WF_StreamVars(Goes("stream", Stream!EvStep))
    /\ WF_StreamVars(Goes("stream", Stream!Handler))
    /\ \A t \in Job : WF_FeedVars(Goes("feed", Feed!Publish(t)))
    /\ WF_FeedVars(Goes("feed", Feed!Connect))
    /\ WF_FeedVars(Goes("feed", Feed!ListFirst)) /\ WF_FeedVars(Goes("feed", Feed!Tell))
    /\ WF_FeedVars(Goes("feed", Feed!Deliver)) /\ WF_FeedVars(Goes("feed", Feed!PollAsk))
    /\ WF_FeedVars(Goes("feed", Feed!PollAnswer))
    /\ WF_RunVars(Goes("run", Run!Runner)) /\ WF_RunVars(Goes("run", Run!Lapse))
    /\ WF_RunVars(Goes("run", Run!Reader)) /\ WF_RunVars(Goes("run", Run!Look))
    /\ WF_RunVars(Goes("run", Run!Told)) /\ WF_RunVars(Goes("run", Run!Idle))
    /\ \A e \in Exp : /\ WF_ExpsVars(Goes("experiments", Exps!Spawned(e)))
                        /\ WF_ExpsVars(Goes("experiments", Exps!Exits(e)))
                        /\ WF_ExpsVars(Goes("experiments", Exps!Watched(e)))

-----------------------------------------------------------------------------
\* Every variable of the component that runs is well formed.
TypesOK ==
    /\ Chosen("stream") => Stream!TypeOK
    /\ Chosen("feed") => Feed!TypeOK
    /\ Chosen("trace") => Trace!TypeOK
    /\ Chosen("run") => Run!TypeOK
    /\ Chosen("experiments") => Exps!TypeOK
    /\ Chosen("writing") => Write!TypeOK
    /\ Chosen("memory") => Memory!TypeOK
    /\ Chosen("summary") => Summary!TypeOK
    /\ Chosen("model") => Model!TypeOK

\* What a client is told (module Dialogue), by the stream that runs.
ClientTold ==
    /\ Chosen("stream") => ChatTold
    /\ Chosen("feed") => TasksTold

\* No trace event is lost between a buffer, two flushers, an open transaction
\* and the table, and an evaluation run reads back all it recorded
\* (evaluation/trace_store.py, _flush and get_trace).
EventsKept == Chosen("trace") => Trace!EventsAccounted /\ Trace!FlushThenReadSees

\* The report of an evaluation run, once in its row, is not taken back by a late
\* cancellation, nor by a reconciliation or a heartbeat that reads it; one that had
\* read the row before takes back no more than Run!ReportKept names
\* (evaluation/runner.py).
ReportStays == [][Run!ReportKept]_vars

\* What the domains keep: experiments stay within their limit, and study, records
\* and verdicts agree with the processes that ran (agent/domains/coding.py); a
\* chapter is marked as done only after a text of it was written in full, and the
\* Markdown is the outline's with what the files hold unless the last change of the
\* document was cut off - through edits by the user, colliding creators, writes
\* the disk refuses and ends of the process (agent/domains/creation.py).
DomainsAgree ==
    /\ Chosen("experiments") => Exps!RunningBounded /\ Exps!RecordsAgree
    /\ Chosen("writing") => Write!DoneHasText /\ Write!MarkdownCurrent

\* What a prompt holds of earlier turns: memories the user agreed to, one value
\* of a key, a summary that lags by less than a refresh, and a conversation that
\* fits its budget with no call parted from its results (agent/core/memory_store.py,
\* memory.py, context_pack.py, token_budget.py).
PromptSound ==
    /\ Chosen("memory") => Memory!InjectedAgreed /\ Memory!OneValue
    /\ Chosen("summary") => Summary!GapBounded
    /\ Chosen("context") => Context!FitsWhole

\* A model call gives up only when every candidate was asked or was shut by its
\* own failures, and an answer has one author (agent/core/model_gateway.py).
ModelCalls == Chosen("model") => Model!NoneLeftOut /\ Model!OneVoice

\* What must happen in the end: a chat stream ends with its pumps; the page shows
\* a task that is over; the row of an evaluation run that ended or died settles,
\* and no reader waits for it; a watched experiment (any: they are alike) gets the
\* record of its end.
Due == CASE Chosen("stream")      -> TRUE
         [] Chosen("feed")        -> row[SomeTask] = Feed!Over /\ Feed!Visible(SomeTask)
         [] Chosen("run")         -> pc \in {"ended", "dead"}
         [] Chosen("experiments") -> SomeExp \in watch
         [] OTHER                 -> FALSE
Met == CASE Chosen("stream")      -> phase = "closed" /\ "run" \notin {pump.msg, pump.ev}
         [] Chosen("feed")        -> \/ view[SomeTask] = Feed!Over
                                     \/ spilt \/ ~Feed!Visible(SomeTask)
         [] Chosen("run")         -> Run!Settled(erow) /\ sub \in {"off", "over"}
         [] Chosen("experiments") -> Exps!Listed(SomeExp) \in Exps!Ended \/ lapses > 0
         [] OTHER                 -> TRUE
Settles == Due ~> Met
=============================================================================
