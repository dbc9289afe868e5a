------------------------------ MODULE Workbench ------------------------------
(***************************************************************************)
(* What is kept right around the tools and on the page, by components that *)
(* share no state: the tools and the turns that use them, the verdict on   *)
(* one call, and the page with its conversations and their steps.          *)
(***************************************************************************)
EXTENDS Integers, Sequences, FiniteSets

CONSTANTS
    Put, HostUser, MaxBuilds, MaxOpened, MaxBreaks,              \* of ToolHost
    Calls, MaxTries,                                             \* of ToolVerdict
    Threads, MaxMsgs, MaxText, MaxClicks,                        \* of ChatThreads
    StepId, ParentOf, NoParent, Tries

VARIABLES
    cfg, bad, lock, built, cur, prev, made, index, sess, up, breaks, opened, agent, at, wrote,
    takes, holds, via, tries, ends,
    job, given, result,
    order, active, shown, streaming, disk, loads, open, abort, dead, clicks, home, said, missed,
    whole, wiped, sent, steps

Host   == INSTANCE ToolHost WITH User <- HostUser
Called == INSTANCE ToolVerdict WITH made <- result
Talk   == INSTANCE ChatThreads WITH Outrun <- FALSE, Step <- StepId

ASSUME WorkbenchAssumption ==
    /\ Host!HostAssumption /\ Called!VerdictAssumption
    /\ Talk!ThreadsAssumption /\ Talk!TreeAssumption

-----------------------------------------------------------------------------
\* Settings that were written are in force when the request answers, turns run
\* with the tools in place or are refused, and only for a reload's time, and a
\* call that has effects is sent once (agent/tools.py, providers/mcp_provider.py,
\* agent/graph.py get_agent); a call runs with rights and approval, and what is
\* told of it is true in every form (core/policy.py, core/tool_gateway.py).
HostSound ==
    /\ Host!ReloadTakesEffect /\ Host!GraphCurrent /\ Host!SentAtMost /\ Host!RefusedInReload
    /\ Called!ApprovedFirst /\ Called!EffectTold /\ Called!OneVerdict

\* What becomes of an answer on the page: a thread holds its own messages and
\* keeps those that ended, and every step has one card in its place
\* (web/frontend/src/renderer/src/App.tsx and state.ts).
PageKept == Talk!NoCrosstalk /\ Talk!MessagesKept /\ Talk!StepsInPlace
=============================================================================
