----------------------------- MODULE ChatStream -----------------------------
(***************************************************************************)
(* POST /api/agent/chat/stream (web/api/routers/agent.py): one turn of the *)
(* graph told to a client as server-sent events.  Two pumps feed the queue *)
(* `outq': one reads the graph's message stream (tool_start, tool_end),    *)
(* one the event queue of agent/stream.py (tokens and steps).  The request *)
(* handler forwards the queue until the messages end, asks the checkpoint  *)
(* how the turn stands, lets the event pump finish, and closes.            *)
(***************************************************************************)
EXTENDS Integers, Sequences, FiniteSets, SequencesExt

CONSTANTS Call,       \* ids of tool calls
          MaxReplies, \* bound: texts the graph's models write in the turn
          MaxEvents   \* bound: events and messages of the graph

StreamAssumption == MaxReplies \in Nat /\ MaxEvents \in Nat

VARIABLES
    graph,     \* "run", "done", "paused" (approval pending) or "failed"
    replies,   \* texts written so far; the last one is the final answer
    count,     \* events and messages produced
    calls,     \* each call: "none", "called" or "answered"
    evq,       \* events_q
    msgq,      \* the message stream
    outq,      \* out
    pump,      \* msg_task and ev_task: "run", "ended" or "dead" (raised)
    seen,      \* seen_tool_call_ids
    streamed,  \* streamed_answer: the texts of the tokens that went by
    phase,     \* where the generator is
    error,     \* its local variable
    probe,     \* what aget_state said: "none", "done", "paused" or "lost"
    sent,      \* events the client received
    shown      \* the answer as the client shows it

vars == <<graph, replies, count, calls, evq, msgq, outq, pump, seen, streamed, phase, error, probe,
          sent, shown>>
source == <<graph, replies, count, calls>>

Token(r)    == [k |-> "token", n |-> r]
Event(k, n) == [k |-> k, n |-> n]
EvStop  == Event("ev_stop", 0)
MsgDone == Event("msg_done", 0)
Err(e)  == [k |-> "err", n |-> e]

Init ==
    /\ graph = "run" /\ replies = 0 /\ count = 0 /\ calls = [c \in Call |-> "none"]
    /\ evq = <<>> /\ msgq = <<>> /\ outq = <<>>
    /\ pump = [msg |-> "run", ev |-> "run"]
    /\ seen = {} /\ streamed = <<>>
    /\ phase = "loop" /\ error = "none" /\ probe = "none"
    /\ sent = <<>> /\ shown = <<>>

-----------------------------------------------------------------------------
(* The graph. *)

Produces == graph = "run" /\ phase # "closed" /\ count < MaxEvents /\ count' = count + 1

\* _stream_llm of a node writes a text: as tokens, or without (no tokens asked
\* for, or all of it held back as the beginning of a marker).
Write(asTokens) ==
    /\ Produces /\ replies < MaxReplies
    /\ replies' = replies + 1
    /\ evq' = IF asTokens THEN Append(evq, Token(replies + 1)) ELSE evq
    /\ UNCHANGED <<graph, calls, msgq, outq, pump, seen, streamed, phase, error, probe, sent,
                   shown>>

\* emit: a step of a plan or of a subagent.
Step ==
    /\ Produces
    /\ evq' = Append(evq, Event("step", count))
    /\ UNCHANGED <<graph, replies, calls, msgq, outq, pump, seen, streamed, phase, error, probe,
                   sent, shown>>

\* A chunk of an agent message that names a call (several chunks may), or the
\* message of a tool's result.
Message(k, c) ==
    /\ Produces
    /\ calls[c] \in IF k = "call" THEN {"none", "called"} ELSE {"called"}
    /\ calls' = [calls EXCEPT ![c] = IF k = "call" THEN "called" ELSE "answered"]
    /\ msgq' = Append(msgq, Event(k, c))
    /\ UNCHANGED <<graph, replies, evq, outq, pump, seen, streamed, phase, error, probe,
                   sent, shown>>

\* The turn ends with an answer, stops for an approval, or raises.
GraphEnds(how) ==
    /\ graph = "run" /\ phase # "closed"
    /\ how = "done" => replies > 0
    /\ graph' = how
    /\ UNCHANGED <<replies, count, calls, evq, msgq, outq, pump, seen, streamed, phase, error,
                   probe, sent, shown>>

-----------------------------------------------------------------------------
(* The pumps. *)

\* _msg_pump takes one message.
MsgPump ==
    /\ pump.msg = "run" /\ msgq # <<>>
    /\ msgq' = Tail(msgq)
    /\ LET m == Head(msgq)
       IN  IF m.k = "call"
           THEN /\ seen' = seen \cup {m.n}
                /\ outq' = IF m.n \in seen THEN outq ELSE Append(outq, Event("tool_start", m.n))
           ELSE /\ seen' = seen
                /\ outq' = Append(outq, Event("tool_end", m.n))
    /\ UNCHANGED <<source, evq, pump, streamed, phase, error, probe, sent, shown>>

\* The stream ends, the turn's time is over (_iter_stream), or the graph raised.
MsgPumpEnds(why) ==
    /\ pump.msg = "run"
    /\ CASE why = "end"     -> msgq = <<>> /\ graph \in {"done", "paused"}
         [] why = "raised"  -> msgq = <<>> /\ graph = "failed"
         [] why = "timeout" -> graph = "run"
    /\ outq' = IF why = "end" THEN Append(outq, MsgDone) ELSE outq \o <<Err(why), MsgDone>>
    /\ pump' = [pump EXCEPT !.msg = "ended"]
    /\ graph' = IF why = "timeout" THEN "failed" ELSE graph
    /\ UNCHANGED <<replies, count, calls, evq, msgq, seen, streamed, phase, error, probe, sent,
                   shown>>

\* _ev_pump takes one event; a token is added to the streamed answer.
EvPump ==
    /\ pump.ev = "run" /\ evq # <<>>
    /\ evq' = Tail(evq)
    /\ IF Head(evq).k = "ev_stop"
       THEN pump' = [pump EXCEPT !.ev = "ended"] /\ UNCHANGED <<outq, streamed>>
       ELSE /\ outq' = Append(outq, Head(evq))
            /\ streamed' = IF Head(evq).k = "token" THEN Append(streamed, Head(evq).n) ELSE streamed
            /\ pump' = pump
    /\ UNCHANGED <<source, msgq, seen, phase, error, probe, sent, shown>>

\* An event that cannot be written as JSON ends the event pump.
EvPumpDies ==
    /\ pump.ev = "run" /\ evq # <<>> /\ Head(evq).k = "step"
    /\ evq' = Tail(evq)
    /\ pump' = [pump EXCEPT !.ev = "dead"]
    /\ UNCHANGED <<source, msgq, outq, seen, streamed, phase, error, probe, sent, shown>>

-----------------------------------------------------------------------------
(* The generator. *)

\* What the client does with an event (api.ts): tokens are appended, a
\* replacement takes the place of all of them.
Shows(e) == CASE e.k = "token"   -> Append(shown, e.n)
              [] e.k = "replace" -> <<e.n>>
              [] OTHER           -> shown

Yield(es) ==
    /\ sent' = sent \o es
    /\ shown' = IF es = <<>> THEN shown ELSE Shows(es[1])

\* One item of the queue: forwarded, an error noted, the end of the messages.
Forward ==
    /\ phase = "loop" /\ outq # <<>>
    /\ outq' = Tail(outq)
    /\ LET item == Head(outq)
       IN  CASE item.k = "msg_done" -> /\ phase' = IF error = "none" THEN "probe" ELSE "stop"
                                  /\ UNCHANGED <<error, sent, shown>>
             [] item.k = "err" -> error' = item.n /\ UNCHANGED <<phase, sent, shown>>
             [] OTHER          -> Yield(<<item>>) /\ UNCHANGED <<phase, error>>
    /\ UNCHANGED <<source, evq, msgq, pump, seen, streamed, probe>>

\* aget_state: is an approval pending, and what is the final answer; an error is
\* taken as neither.
Probe(lost) ==
    /\ phase = "probe"
    /\ probe' = IF lost THEN "lost" ELSE graph
    /\ phase' = "stop"
    /\ UNCHANGED <<source, evq, msgq, outq, pump, seen, streamed, error, sent, shown>>

\* The stop mark goes behind every event the graph emitted.
Stop ==
    /\ phase = "stop"
    /\ evq' = Append(evq, EvStop)
    /\ phase' = "join"
    /\ UNCHANGED <<source, msgq, outq, pump, seen, streamed, error, probe, sent, shown>>

\* await ev_task: a dead pump raises here.
Join ==
    /\ phase = "join" /\ pump.ev # "run"
    /\ phase' = IF pump.ev = "dead" THEN "broken" ELSE "drain"
    /\ UNCHANGED <<source, evq, msgq, outq, pump, seen, streamed, error, probe, sent, shown>>

\* What the event pump added in the meantime.
Drain ==
    /\ phase = "drain" /\ outq # <<>>
    /\ outq' = Tail(outq)
    /\ LET item == Head(outq)
       IN  IF item.k \in {"err", "msg_done"}
           THEN /\ error' = IF item.k = "err" /\ error = "none" THEN item.n ELSE error
                /\ UNCHANGED <<sent, shown>>
           ELSE Yield(<<item>>) /\ error' = error
    /\ UNCHANGED <<source, evq, msgq, pump, seen, streamed, phase, probe>>

\* snapshot_answer, or the last text of the message stream.
Final == replies
\* Mutant: what was streamed is left as it is.
NeedsReplacementNever == FALSE
NeedsReplacement == streamed # <<>> /\ Final # 0 /\ streamed # <<Final>>

\* The answer: as one token when none was streamed, replaced when what was
\* streamed is not the answer or the answer is blocked.
Answer(blocked) ==
    /\ phase = "drain" /\ outq = <<>>
    /\ blocked => Final # 0
    /\ phase' = IF blocked /\ probe # "paused" /\ error = "none" THEN "blocked" ELSE "finish"
    /\ IF probe = "paused" \/ error # "none" THEN Yield(<<>>)
       ELSE LET text == IF blocked THEN 0 ELSE Final
            IN  Yield(IF streamed = <<>> THEN IF Final = 0 THEN <<>> ELSE <<Token(text)>>
                      ELSE IF blocked \/ NeedsReplacement THEN <<Event("replace", text)>>
                      ELSE <<>>)
    /\ UNCHANGED <<source, evq, msgq, outq, pump, seen, streamed, error, probe>>

\* Status, the approval or the error, and the last event; an error has no `done'.
Closing ==
    CASE phase = "blocked"                      -> <<Event("error", 0), Event("done", 0)>>
      [] phase = "broken"                       -> <<Event("error", 0)>>
      [] phase = "finish" /\ probe = "paused"   -> <<Event("approval", 0), Event("done", 0)>>
      [] phase = "finish" /\ probe # "paused" /\ error # "none" -> <<Event("error", 0)>>
      [] OTHER                                  -> <<Event("done", 0)>>

\* The end, and `finally': both pumps are cancelled and the graph's stream closed.
Shut ==
    /\ phase' = "closed"
    /\ pump' = [t \in {"msg", "ev"} |-> IF pump[t] = "run" THEN "ended" ELSE pump[t]]
    /\ graph' = IF graph = "run" THEN "failed" ELSE graph
    /\ UNCHANGED <<replies, count, calls, evq, msgq, outq, seen, streamed, error, probe>>

Close ==
    /\ phase \in {"blocked", "broken", "finish"}
    /\ sent' = sent \o Closing
    /\ shown' = shown
    /\ Shut

\* The client goes away: the generator is closed at its next yield.
Disconnect ==
    /\ phase # "closed"
    /\ Shut
    /\ UNCHANGED <<sent, shown>>

-----------------------------------------------------------------------------
(* POST /chat tells the same turn in one response. *)

\* How the turn went: "timeout", "raised", "paused", "blocked" or "done".
ChatError(how) == CASE how = "timeout" -> "timeout"
                    [] how = "raised"  -> "raised"
                    [] how = "blocked" -> "blocked"
                    [] OTHER           -> "none"

-----------------------------------------------------------------------------
GraphStep ==
    \/ \E asTokens \in BOOLEAN : Write(asTokens)
    \/ Step
    \/ \E k \in {"call", "result"}, c \in Call : Message(k, c)
    \/ \E how \in {"done", "paused", "failed"} : GraphEnds(how)

MsgStep == MsgPump \/ \E why \in {"end", "raised", "timeout"} : MsgPumpEnds(why)
EvStep  == EvPump \/ EvPumpDies
Handler ==
    \/ Forward
    \/ \E lost \in BOOLEAN : Probe(lost)
    \/ Stop
    \/ Join
    \/ Drain
    \/ \E blocked \in BOOLEAN : Answer(blocked)
    \/ Close

Next == GraphStep \/ MsgStep \/ EvStep \/ Handler \/ Disconnect
Spec == Init /\ [][Next]_vars
\* The loop runs its tasks; a turn that does not end is timed out.
FairSpec == Spec /\ WF_vars(MsgStep) /\ WF_vars(EvStep) /\ WF_vars(Handler)

-----------------------------------------------------------------------------
Kinds == {"token", "step", "tool_start", "tool_end", "replace", "approval", "error", "done"}
TypeOK ==
    /\ graph \in {"run", "done", "paused", "failed"} /\ replies \in 0..MaxReplies
    /\ pump \in [{"msg", "ev"} -> {"run", "ended", "dead"}]
    /\ phase \in {"loop", "probe", "stop", "join", "drain", "blocked", "broken", "finish", "closed"}
    /\ \A i \in DOMAIN sent : sent[i].k \in Kinds

Has(k) == \E i \in DOMAIN sent : sent[i].k = k

\* `done' is the last event, and before it the client has had every event the
\* turn emitted, although the messages may end before the events have been
\* forwarded (agent.py:820-830).
DoneAfterAll ==
    Has("done") =>
        /\ Last(sent).k = "done"
        /\ outq = <<>> /\ \A i \in DOMAIN evq : evq[i].k = "ev_stop"
        /\ \A c \in seen : Contains(sent, Event("tool_start", c))

\* When the stream closes well, the answer the client shows is the turn's final
\* answer, whatever part of which text was streamed before it, and nothing of a
\* blocked one (agent.py:832-895).
ShownIsFinal ==
    (Has("done") /\ probe = "done") =>
        shown = IF Has("error") THEN <<0>> ELSE <<Final>>

\* A call is started once, before it ends, although its message comes in several
\* chunks (agent.py:705-711).
StartOnce ==
    \A c \in Call :
        /\ Cardinality({i \in DOMAIN sent : sent[i] = Event("tool_start", c)}) <= 1
        /\ \A i \in DOMAIN sent : sent[i] = Event("tool_end", c) =>
               \E j \in 1..(i - 1) : sent[j] = Event("tool_start", c)

\* The stream always comes to its end, with no pump left (agent.py:820, 1001).
StreamEnds == <>(phase = "closed" /\ "run" \notin {pump.msg, pump.ev})

\* The stream tells of a turn what the plain endpoint does: an error exactly when
\* it would, an approval exactly when it would.
SameAsPlain ==
    (phase = "closed" /\ sent # <<>> /\ Last(sent).k \in {"done", "error"}
        /\ pump.ev # "dead" /\ probe # "lost") =>
        LET how == CASE error # "none"     -> error
                     [] probe = "paused"   -> "paused"
                     [] Has("error")       -> "blocked"
                     [] OTHER              -> "done"
        IN  /\ Has("error") <=> ChatError(how) # "none"
            /\ Has("approval") <=> how = "paused"
            /\ error # "none" => graph = "failed"
            /\ error = "none" => graph \in {"done", "paused"} /\ probe = graph

\* What agent.py:815 says: the probe only observes.  A turn that waits for an
\* approval is told so whatever becomes of the probe.
ApprovalIsShown == (Has("done") /\ graph = "paused") => Has("approval")
=============================================================================
