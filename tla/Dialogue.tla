------------------------------ MODULE Dialogue ------------------------------
(***************************************************************************)
(* What a model is given of a conversation and what a client is told, by   *)
(* components that share no state: the running summary, the fit to a       *)
(* window, the chat stream of a turn and the task stream of a page.        *)
(***************************************************************************)
EXTENDS Integers, Sequences, FiniteSets

CONSTANTS
    StreamCall, MaxReplies, MaxEvents,                    \* of ChatStream
    Job, Notifies, Pdf, FeedQueue, MaxBreaks, MayFail,    \* of TaskFeed
    Buffer, Refresh, MaxChars, Size, MaxTurns,            \* of ConversationSummary
    TextSize, Args, Budget, System, Floor, MaxRounds      \* of ContextFit

VARIABLES
    graph, replies, count, toolCalls, evq, msgq, outq, pump, seen, streamed, phase, error, probe,
    sent, shown,
    row, place, redis, trusts, unsaid, conn, tell, queue, spilt, poll, heard, view, sig, known,
    notified, baseline, indexed, history, dirty, breaks,
    messages, cached, through, read, missed, answered,
    conv, system, budget, fit

Stream == INSTANCE ChatStream WITH calls <- toolCalls, Call <- StreamCall
Feed   == INSTANCE TaskFeed WITH QueueMax <- FeedQueue
Summary == INSTANCE ConversationSummary
Context == INSTANCE ContextFit WITH Text <- TextSize

ASSUME DialogueAssumption == /\ Stream!StreamAssumption /\ Feed!FeedAssumption
                             /\ Summary!SummaryAssumption /\ Context!FitAssumption

StreamVars == <<graph, replies, count, toolCalls, evq, msgq, outq, pump, seen, streamed, phase,
    error, probe, sent, shown>>
FeedVars == <<row, place, redis, trusts, unsaid, conn, tell, queue, spilt, poll, heard, view,
    sig, known, notified, baseline, indexed, history, dirty, breaks>>
SummaryVars == <<messages, cached, through, read, missed, answered>>
ContextVars == <<conv, system, budget, fit>>

-----------------------------------------------------------------------------
\* What the chat stream tells: `done` after all that the turn emitted, the turn's own
\* final answer, each call started once and before its end, and an error or an approval
\* exactly when the plain endpoint says so (web/api/routers/agent.py, chat_stream).
ChatTold == /\ Stream!DoneAfterAll /\ Stream!ShownIsFinal
            /\ Stream!StartOnce /\ Stream!SameAsPlain

\* What the task stream tells: what the rows say, whenever it has nothing left to tell
\* (web/api/routers/background.py, task_stream).
TasksTold == Feed!StreamCatchesUp

\* What a prompt holds of the conversation: a summary that lags by less than a refresh,
\* and messages that fit the window with no call parted from its results
\* (agent/memory.py, core/token_budget.py).
ConversationKept == Summary!GapBounded /\ Context!FitsWhole
=============================================================================
