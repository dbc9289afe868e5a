------------------------------ MODULE TurnProofs ------------------------------
(***************************************************************************)
(* What Turn promises for any set of tools, any number of inputs, of calls *)
(* in a message and of rounds: its type, the bound on its loop, that one   *)
(* input causes each side effect at most once and is answered from its own *)
(* results, that no side effect comes about without the user's approval,   *)
(* and that a turn that comes to its end has an answer.                    *)
(***************************************************************************)
EXTENDS Turn, TLAPS

-------------------------------------------------------------------------------
(* The inductive invariant. *)

\* A round is only begun while rounds are left, and strikes end the loop.
Rounds ==
    /\ loop.iter \in 0..MaxSteps + 1 /\ loop.strikes \in 0..2
    /\ at \in {"context", "domain", "agent", "tools", "gather", "paused"} =>
           loop.iter <= MaxSteps

\* The journal of an input counts its side effects.
Counted == \A k \in Effect : effects[k] = IF k \in journal THEN 1 ELSE 0

\* What a call may be answered from has been executed for this input, and only
\* the calls of the message have stages.
OwnResults ==
    /\ at \notin {"idle", "understand"} => loop.cache \subseteq fresh
    /\ at = "gather" => /\ rnd.cache \subseteq fresh
                        /\ \A i \in 1..MaxCalls :
                              rnd.stage[i] # "none" => i \in DOMAIN msg.calls
                        /\ \A i \in DOMAIN msg.calls :
                              rnd.stage[i] = "dup" => msg.calls[i] \in fresh

\* A round with a call that needs an approval has the user's decision, a yes is
\* a yes to all its calls, and one that was refused is not begun.
Asks == \E i \in DOMAIN msg.calls : msg.calls[i] \in SideEffect
Decided ==
    at = "gather" =>
        /\ Asks => rnd.decision # "none"
        /\ rnd.decision = "yes" => \A i \in DOMAIN msg.calls : msg.calls[i] \in yes
        /\ Started => ~Denied

\* Where a turn is that may end without an answer.
Conversing ==
    /\ at = "chat" => conv.intent = "chat"
    /\ at = "clarify" => ~conv.sure \/ conv.intent = "clarify"

\* Only a round that waits, or runs again, has an interrupt.
Holding == held => at \in {"paused", "gather"}

TurnInv == /\ TypeOK /\ Rounds /\ Counted /\ OwnResults /\ Decided
           /\ Conversing /\ AlwaysAnswered /\ Holding

-------------------------------------------------------------------------------
(* The message of the agent. *)

\* A message's calls are a sequence of keys no longer than MaxCalls.
LEMMA CallsFacts ==
    ASSUME NEW calls \in Calls
    PROVE  /\ calls \in Seq(Key) /\ Len(calls) \in 0..MaxCalls
           /\ DOMAIN calls = 1..Len(calls)
           /\ \A i \in DOMAIN calls : calls[i] \in Key /\ i \in 1..MaxCalls
<1>1. PICK n \in 0..MaxCalls : calls \in [1..n -> Key]
  BY DEF Calls
<1>2. n \in Nat /\ MaxCalls \in Nat
  BY TurnAssumption
<1>3. calls \in Seq(Key) /\ Len(calls) = n
  BY <1>1, <1>2
<1> QED  BY <1>1, <1>2, <1>3

\* A message without calls is one.
LEMMA NoCalls == <<>> \in Calls /\ DOMAIN <<>> = {}
<1>1. <<>> \in [1..0 -> Key] /\ DOMAIN <<>> = {}
  OBVIOUS
<1>2. 0 \in 0..MaxCalls
  BY TurnAssumption
<1> QED  BY <1>1, <1>2 DEF Calls

\* The rounds before the first and after the last call are typed.
LEMMA NoRoundType == NoRound \in Round
  BY TurnAssumption DEF NoRound, Round, Stage

\* What a report can be made of.
LEMMA StatusType ==
    ASSUME NEW verdict \in Verdict, NEW answer \in Text
    PROVE  Status("none", verdict, answer) \in {"completed", "partial", "failed"}
  BY DEF Status, Verdict

-------------------------------------------------------------------------------
(* The entry points. *)

\* A thread without inputs.
LEMMA InitInv == Init => TurnInv
<1> SUFFICES ASSUME Init PROVE TurnInv
  OBVIOUS
<1> USE TurnAssumption
<1>1. TypeOK
  <2>1. conv \in Conv /\ loop \in Loop
    BY DEF Init, Conv, Loop, Verdict
  <2>3. out \in Out
    BY DEF Init, Out, Nothing, Text
  <2>4. rnd \in Round
    BY NoRoundType DEF Init
  <2>2. msg.calls \in Calls /\ msg.text \in Text
    BY NoCalls DEF Init, NoMsg, Text
  <2>5. effects \in [Effect -> Nat]
    BY DEF Init
  <2>6. at \in Running \cup {"idle", "paused"} /\ held \in BOOLEAN
    BY DEF Init
  <2>8. asked \in 0..MaxAsk
    BY DEF Init
  <2>7. yes \subseteq Key /\ fresh \subseteq Key /\ journal \subseteq Effect
    BY DEF Init
  <2> QED  BY <2>1, <2>2, <2>3, <2>4, <2>5, <2>6, <2>7, <2>8 DEF TypeOK
<1>2. Rounds /\ Counted /\ OwnResults /\ Decided /\ Conversing
  BY DEF Init, Rounds, Counted, OwnResults, Decided, Conversing
<1>3. AlwaysAnswered /\ Holding
  BY DEF Init, AlwaysAnswered, Holding, Nothing
<1> QED  BY <1>1, <1>2, <1>3 DEF TurnInv

\* A new input: its calls, results and decision are its own.
LEMMA AskInv ==
    ASSUME TurnInv, NEW mode \in {"none", "auto", "plan"}, Ask(mode)
    PROVE  TurnInv'
<1> USE TurnAssumption
<1>1. TypeOK'
  <2>1. conv' \in Conv /\ out' \in Out /\ rnd' \in Round
    BY NoRoundType DEF TurnInv, TypeOK, Ask, Conv, Out, Nothing, Text
  <2>2. msg'.calls \in Calls /\ msg'.text \in Text
    BY NoCalls DEF Ask, NoMsg, Text
  <2>3. effects' \in [Effect -> Nat]
    BY DEF Ask
  <2>4. at' \in Running \cup {"idle", "paused"} /\ held' \in BOOLEAN /\ loop' \in Loop
    BY DEF Ask, TurnInv, TypeOK, Running
  <2>6. asked' \in 0..MaxAsk
    BY DEF Ask, TurnInv, TypeOK
  <2>5. yes' \subseteq Key /\ fresh' \subseteq Key /\ journal' \subseteq Effect
    BY DEF Ask
  <2> QED  BY <2>1, <2>2, <2>3, <2>4, <2>5, <2>6 DEF TypeOK
<1>2. Rounds' /\ Counted' /\ OwnResults' /\ Decided' /\ Conversing'
  BY DEF TurnInv, Ask, Rounds, Counted, OwnResults, Decided, Conversing
<1>3. AlwaysAnswered' /\ Holding'
  BY DEF Ask, AlwaysAnswered, Holding, Nothing
<1> QED  BY <1>1, <1>2, <1>3 DEF TurnInv

\* A request that is refused, or that resumes nothing.
LEMMA RefuseInv == TurnInv /\ (Refuse \/ ResumeNothing) => TurnInv'
<1> SUFFICES ASSUME TurnInv, Refuse \/ ResumeNothing PROVE TurnInv'
  OBVIOUS
<1>1. TypeOK'
  BY DEF TurnInv, TypeOK, Refuse, ResumeNothing, Out, Text
<1>2. Rounds' /\ Counted' /\ OwnResults' /\ Decided' /\ Conversing' /\ Holding'
  BY DEF TurnInv, Refuse, ResumeNothing, Rounds, Counted, OwnResults, Decided, Asks,
         Started, Denied, Conversing, Holding
<1>3. AlwaysAnswered'
  BY DEF Refuse, ResumeNothing, AlwaysAnswered
<1> QED  BY <1>1, <1>2, <1>3 DEF TurnInv

\* The user's decision on the round that waits.
LEMMA ResumeInv ==
    ASSUME TurnInv, NEW approved \in BOOLEAN, Resume(approved)
    PROVE  TurnInv'
<1> USE TurnAssumption
<1>0. TypeOK /\ msg.calls \in Calls
  BY DEF TurnInv, TypeOK
<1>1. /\ DOMAIN msg.calls \subseteq 1..MaxCalls
      /\ \A i \in DOMAIN msg.calls : msg.calls[i] \in Key
  BY <1>0, CallsFacts
<1>2. /\ rnd' \in Round /\ rnd'.decision = Decision(approved) /\ rnd'.cache = loop.cache
      /\ \A i \in 1..MaxCalls : rnd'.stage[i] = "none"
  BY <1>0, NoRoundType DEF Resume, TypeOK, NoRound, Round, Loop, Decision
<1>3. TypeOK'
  BY <1>0, <1>1, <1>2 DEF TypeOK, Resume, Out, Nothing, Text, Running
<1>4. Rounds' /\ Counted' /\ Conversing' /\ Holding' /\ AlwaysAnswered'
  BY DEF TurnInv, Resume, Rounds, Counted, Conversing, Holding, AlwaysAnswered
<1>5. OwnResults'
  BY <1>1, <1>2 DEF TurnInv, Resume, OwnResults
<1>6. ~Started'
  BY <1>1, <1>2 DEF Started, Resume
<1>7. Decided'
  BY <1>2, <1>6 DEF Decided, Asks, Decision, Resume
<1> QED  BY <1>3, <1>4, <1>5, <1>7 DEF TurnInv

-------------------------------------------------------------------------------
(* The nodes before the loop, and the ends of a turn. *)

\* The node that restates the input.
LEMMA UnderstandInv ==
    ASSUME TurnInv, at = "understand", at' = "context",
           conv' \in Conv, NEW scope \in SUBSET Key, loop' = NewLoop(scope),
           UNCHANGED <<msg, rnd, held, yes, journal, effects, fresh, asked, out>>
    PROVE  TurnInv'
<1> USE TurnAssumption
<1>1. loop' \in Loop /\ loop'.iter = 0 /\ loop'.strikes = 0 /\ loop'.cache = {}
  BY DEF TurnInv, TypeOK, NewLoop, Loop, Conv
<1>2. TypeOK'
  BY <1>1 DEF TurnInv, TypeOK, Running
<1>3. Rounds' /\ Counted' /\ OwnResults' /\ Decided'
  BY <1>1 DEF TurnInv, Rounds, Counted, OwnResults, Decided
<1>4. Conversing' /\ Holding' /\ AlwaysAnswered'
  BY DEF TurnInv, Conversing, Holding, AlwaysAnswered
<1> QED  BY <1>2, <1>3, <1>4 DEF TurnInv

\* The check for a follow-up question.
LEMMA FollowUpInv == TurnInv /\ FollowUp => TurnInv'
<1> SUFFICES ASSUME TurnInv, FollowUp PROVE TurnInv'
  OBVIOUS
<1>1. conv' \in Conv /\ loop.scope \in SUBSET Key
  BY DEF TurnInv, TypeOK, FollowUp, Conv, Loop
<1> QED  BY <1>1, UnderstandInv DEF FollowUp

\* The domain is chosen.
LEMMA RouterInv ==
    ASSUME TurnInv, NEW intent \in {"search", "chat", "clarify", "task"}, NEW sure \in BOOLEAN,
           NEW scope \in SUBSET SideEffect, Understand(intent, sure, scope)
    PROVE  TurnInv'
<1>1. conv' \in Conv /\ scope \in SUBSET Key
  BY TurnAssumption DEF TurnInv, TypeOK, Understand, Conv
<1> QED  BY <1>1, UnderstandInv DEF Understand

\* The way through the graph is chosen.
LEMMA RouteInv ==
    ASSUME TurnInv,
           \/ RouteIntent
           \/ \E mode \in {"react", "plan"} : DecideMode(mode)
    PROVE  TurnInv'
<1>1. at \in {"context", "domain"} /\ at' \in {"clarify", "chat", "task", "domain", "plan", "agent"}
  BY DEF RouteIntent, DecideMode
<1>2. UNCHANGED <<conv, loop, msg, rnd, held, yes, journal, effects, fresh, asked, out>>
  BY DEF RouteIntent, DecideMode
<1>3. TypeOK'
  BY <1>1, <1>2 DEF TurnInv, TypeOK, Running
<1>4. Rounds' /\ Counted' /\ OwnResults' /\ Decided' /\ AlwaysAnswered' /\ Holding'
  BY <1>1, <1>2 DEF TurnInv, Rounds, Counted, OwnResults, Decided, AlwaysAnswered, Holding
<1>5. Conversing'
  BY DEF TurnInv, TypeOK, Conv, RouteIntent, DecideMode, Conversing
<1> QED  BY <1>3, <1>4, <1>5 DEF TurnInv

\* A turn that came to the end of the graph, with an answer where one is due.
LEMMA FinishInv ==
    ASSUME TurnInv, NEW c \in Conv, NEW answer \in Text, Finish(c, answer),
           ~held,
           answer # "empty" \/ ~c.sure \/ c.intent \notin {"search", "task"},
           UNCHANGED <<loop, msg, rnd, held, yes, journal, effects, fresh, asked>>
    PROVE  TurnInv'
<1>1. out' \in Out /\ out'.answer = answer
  BY StatusType DEF Finish, Out, TurnInv, TypeOK, Conv
<1>2. TypeOK'
  BY <1>1 DEF TurnInv, TypeOK, Finish
<1>3. Rounds' /\ Counted' /\ OwnResults' /\ Decided' /\ Conversing' /\ Holding'
  BY DEF TurnInv, Finish, Rounds, Counted, OwnResults, Decided, Conversing, Holding
<1>4. AlwaysAnswered'
  BY <1>1 DEF AlwaysAnswered, Finish
<1> QED  BY <1>2, <1>3, <1>4 DEF TurnInv

\* A conversation ends with its answer.
LEMMA ConverseInv ==
    ASSUME TurnInv, NEW first \in Text, NEW second \in Text, Converse(first, second)
    PROVE  TurnInv'
<1>1. PICK answer \in Text : Finish(conv, answer)
  BY DEF Converse, Text
<1>2. ~held /\ conv \in Conv
  BY DEF TurnInv, TypeOK, Holding, Converse
<1>3. ~conv.sure \/ conv.intent \notin {"search", "task"}
  BY DEF TurnInv, Conversing, Converse
<1> QED  BY <1>1, <1>2, <1>3, FinishInv DEF Converse

\* A task list ends with its answer.
LEMMA TaskInv ==
    ASSUME TurnInv, NEW text \in Text, Task(text)
    PROVE  TurnInv'
<1>1. OrFallback(text) \in Text /\ OrFallback(text) # "empty"
  BY DEF OrFallback, Text
<1>2. ~held /\ conv \in Conv
  BY DEF TurnInv, TypeOK, Holding, Task
<1> QED  BY <1>1, <1>2, FinishInv DEF Task

\* A plan hands its results to the synthesis.
LEMMA PlanTurnInv ==
    ASSUME TurnInv, NEW verdict \in Verdict \ {"none"}, NEW text \in Text,
           PlanTurn(verdict, text)
    PROVE  TurnInv'
<1> DEFINE c == [conv EXCEPT !.mode = "plan", !.verdict = verdict]
           answer == OrFallback(IF text = "blocked" THEN "good" ELSE text)
<1>1. answer \in Text /\ answer # "empty"
  BY DEF OrFallback, Text
<1>2. ~held /\ c \in Conv
  BY DEF TurnInv, TypeOK, Holding, PlanTurn, Conv
<1>3. Finish(c, answer) /\ UNCHANGED <<loop, msg, rnd, held, yes, journal, effects, fresh, asked>>
  BY DEF PlanTurn
<1> HIDE DEF c, answer
<1> QED  BY <1>1, <1>2, <1>3, FinishInv

\* A synthesis ends with its answer.
LEMMA SynthesizeInv ==
    ASSUME TurnInv, NEW text \in Text, Synthesize(text)
    PROVE  TurnInv'
<1> DEFINE c == [conv EXCEPT !.spent = loop.spent]
           answer == IF msg.calls = <<>> /\ msg.text \in {"good", "blocked"} THEN "good"
                     ELSE OrFallback(text)
<1>1. answer \in Text /\ answer # "empty"
  BY DEF OrFallback, Text
<1>2. ~held /\ c \in Conv
  BY DEF TurnInv, TypeOK, Holding, Synthesize, Conv, Loop
<1>3. Finish(c, answer) /\ UNCHANGED <<loop, msg, rnd, held, yes, journal, effects, fresh, asked>>
  BY DEF Synthesize
<1> HIDE DEF c, answer
<1> QED  BY <1>1, <1>2, <1>3, FinishInv

\* A run that is cut off: a resumed round leaves its interrupt and runs again.
LEMMA BrokenInv ==
    ASSUME TurnInv, at \in Running, NEW error \in {"timeout", "crash", "denied_crash"},
           Broken(error)
    PROVE  TurnInv'
<1>1. out' \in Out /\ rnd' \in Round
  BY NoRoundType DEF Broken, Out, Text
<1>2. TypeOK'
  BY <1>1 DEF TurnInv, TypeOK, Broken
<1>3. held => at = "gather"
  BY DEF TurnInv, Holding, Running
<1>4. Rounds'
  BY <1>3 DEF TurnInv, Broken, Rounds
<1>5. OwnResults'
  BY <1>3 DEF TurnInv, Broken, OwnResults
<1>6. Counted' /\ Decided' /\ Conversing' /\ Holding'
  BY DEF TurnInv, Broken, Counted, Decided, Conversing, Holding
<1>7. AlwaysAnswered'
  BY DEF Broken, AlwaysAnswered
<1> QED  BY <1>2, <1>4, <1>5, <1>6, <1>7 DEF TurnInv

\* A run that raises or is cut off.
LEMMA AbortInv ==
    TurnInv /\ ((\E error \in {"timeout", "crash"} : Abort(error)) \/ GatherDenied) => TurnInv'
BY BrokenInv DEF Abort, GatherDenied, Running

-------------------------------------------------------------------------------
(* The loop agent -> tools -> agent. *)

\* The agent must answer: no rounds are left, or three strikes.
LEMMA ForcedInv ==
    ASSUME TurnInv, NEW text \in Text, ForcedAnswer(text)
    PROVE  TurnInv'
<1>1. msg'.calls \in Calls /\ msg'.text \in Text
  BY NoCalls DEF ForcedAnswer
<1>2. TypeOK'
  BY <1>1 DEF TurnInv, TypeOK, ForcedAnswer, Running
<1>3. Rounds' /\ Counted' /\ OwnResults' /\ Decided' /\ Conversing' /\ Holding'
  BY DEF TurnInv, ForcedAnswer, Rounds, Counted, OwnResults, Decided, Conversing, Holding
<1>4. AlwaysAnswered'
  BY DEF ForcedAnswer, AlwaysAnswered
<1> QED  BY <1>2, <1>3, <1>4 DEF TurnInv

\* A reply of the model: an answer, a round of calls or a strike.
LEMMA ReplyInv ==
    ASSUME TurnInv, NEW calls \in Calls, NEW text \in Text, NEW spent \in BOOLEAN,
           Reply(calls, text, spent)
    PROVE  TurnInv'
<1> USE TurnAssumption
<1>1. /\ loop \in Loop /\ loop.iter \in 0..MaxSteps /\ loop.strikes \in 0..1
  BY DEF TurnInv, TypeOK, Rounds, Reply, MustAnswer
<1>2. PICK strikes \in 0..2 :
         loop' = [loop EXCEPT !.iter = loop.iter + 1, !.spent = spent, !.strikes = strikes]
  <2> DEFINE strikes == IF Drifts(calls) THEN loop.strikes + 1 ELSE 0
  <2>1. strikes \in 0..2
    BY <1>1
  <2>2. loop' = [loop EXCEPT !.iter = loop.iter + 1, !.spent = spent, !.strikes = strikes]
    BY DEF Reply
  <2> HIDE DEF strikes
  <2> QED  BY <2>1, <2>2
<1>3. loop.iter + 1 \in 0..MaxSteps + 1 /\ strikes \in 0..3
  BY <1>1
<1>4. /\ loop' \in Loop /\ loop'.iter = loop.iter + 1 /\ loop'.strikes = strikes
      /\ loop'.cache = loop.cache
  BY <1>1, <1>2, <1>3 DEF Loop
<1>5. msg'.calls \in Calls /\ msg'.text \in Text
  BY DEF Reply
<1>6. TypeOK'
  BY <1>5, <1>4 DEF TurnInv, TypeOK, Reply, Running
<1>7. Rounds' /\ OwnResults'
  BY <1>3, <1>4 DEF TurnInv, Reply, Rounds, OwnResults
<1>8. Counted' /\ Decided' /\ Conversing' /\ Holding'
  BY DEF TurnInv, Reply, Counted, Decided, Conversing, Holding
<1>9. AlwaysAnswered'
  BY DEF Reply, AlwaysAnswered
<1> QED  BY <1>6, <1>7, <1>8, <1>9 DEF TurnInv

\* The edge after the agent: end, tools, or agent again.
LEMMA AfterAgentInv == TurnInv /\ AfterAgent => TurnInv'
<1> SUFFICES ASSUME TurnInv, AfterAgent PROVE TurnInv'
  OBVIOUS
<1>1. at' \in {"tools", "synthesize"} /\ UNCHANGED <<conv, loop, msg, rnd, held, yes, journal,
                                                     effects, fresh, asked, out>>
  BY DEF AfterAgent
<1>2. TypeOK'
  BY <1>1 DEF TurnInv, TypeOK, Running
<1>3. Rounds'
  BY TurnAssumption DEF TurnInv, Rounds, AfterAgent
<1>4. OwnResults' /\ Counted' /\ Decided' /\ Conversing' /\ Holding' /\ AlwaysAnswered'
  BY <1>1 DEF TurnInv, AfterAgent, OwnResults, Counted, Decided, Conversing, Holding, AlwaysAnswered
<1> QED  BY <1>2, <1>3, <1>4 DEF TurnInv

\* A round that needs the user's decision waits for it.
LEMMA PreflightInv == TurnInv /\ Preflight => TurnInv'
<1> SUFFICES ASSUME TurnInv, Preflight PROVE TurnInv'
  OBVIOUS
<1> USE TurnAssumption
<1>0. TypeOK /\ DOMAIN msg.calls \subseteq 1..MaxCalls
  BY CallsFacts DEF TurnInv, TypeOK
<1>1. CASE Asks
  <2>1. /\ at' = "paused" /\ held' = TRUE
        /\ out' = [status |-> "interrupted", answer |-> "empty", error |-> "approval"]
        /\ UNCHANGED <<rnd, conv, loop, msg, yes, journal, effects, fresh, asked>>
    BY <1>1 DEF Preflight, Asks
  <2>2. TypeOK'
    BY <1>0, <2>1 DEF TypeOK, Out, Text
  <2>3. Rounds' /\ OwnResults' /\ Counted' /\ Decided' /\ Conversing' /\ Holding'
    BY <2>1 DEF TurnInv, Preflight, Rounds, OwnResults, Counted, Decided, Conversing, Holding
  <2>4. AlwaysAnswered'
    BY <2>1 DEF AlwaysAnswered
  <2> QED  BY <2>2, <2>3, <2>4 DEF TurnInv
<1>2. CASE ~Asks
  <2>1. /\ at' = "gather" /\ held' = FALSE
        /\ rnd' = [NoRound EXCEPT !.cache = loop.cache]
        /\ UNCHANGED <<out, conv, loop, msg, yes, journal, effects, fresh, asked>>
    BY <1>2 DEF Preflight, Asks
  <2>2. /\ rnd' \in Round /\ rnd'.decision = "none" /\ rnd'.cache = loop.cache
        /\ \A i \in 1..MaxCalls : rnd'.stage[i] = "none"
    BY <1>0, <2>1, NoRoundType DEF TypeOK, NoRound, Round, Loop
  <2>3. TypeOK'
    BY <1>0, <2>1, <2>2 DEF TypeOK, Running
  <2>4. Rounds' /\ Counted' /\ Conversing' /\ Holding'
    BY <2>1 DEF TurnInv, Preflight, Rounds, Counted, Conversing, Holding
  <2>5. OwnResults'
    BY <1>0, <2>1, <2>2 DEF TurnInv, Preflight, OwnResults
  <2>6. ~Asks' /\ ~Started'
    BY <1>0, <1>2, <2>1, <2>2 DEF Asks, Started
  <2>7. Decided' /\ AlwaysAnswered'
    BY <2>1, <2>2, <2>6 DEF Decided, AlwaysAnswered
  <2> QED  BY <2>3, <2>4, <2>5, <2>7 DEF TurnInv
<1> QED  BY <1>1, <1>2

\* The calls of the round are begun, answered from results, or refused.
LEMMA GatherInv == TurnInv /\ Gather => TurnInv'
<1> SUFFICES ASSUME TurnInv, Gather PROVE TurnInv'
  OBVIOUS
<1> USE TurnAssumption
<1>0. /\ TypeOK /\ DOMAIN msg.calls \subseteq 1..MaxCalls
      /\ DOMAIN msg.calls = 1..Len(msg.calls) /\ Len(msg.calls) \in Nat
  BY CallsFacts DEF TurnInv, TypeOK
<1> DEFINE stage == [i \in 1..MaxCalls |->
                       IF i > Len(msg.calls) THEN "none"
                       ELSE IF msg.calls[i] \in rnd.cache THEN "dup"
                       ELSE IF \E j \in 1..(i - 1) : msg.calls[j] = msg.calls[i] THEN "wait"
                       ELSE "run"]
<1>1. /\ stage \in [1..MaxCalls -> Stage]
      /\ \A i \in 1..MaxCalls : stage[i] # "none" => i \in DOMAIN msg.calls
      /\ \A i \in DOMAIN msg.calls : stage[i] = "dup" => msg.calls[i] \in rnd.cache
  BY <1>0 DEF Stage
<1>2. /\ at' = at /\ rnd' = [rnd EXCEPT !.stage = stage] /\ at = "gather" /\ ~Denied
      /\ UNCHANGED <<conv, loop, msg, held, yes, journal, effects, fresh, asked, out>>
  BY DEF Gather
<1> HIDE DEF stage
<1>3. /\ rnd' \in Round /\ rnd'.stage = stage
      /\ rnd'.decision = rnd.decision /\ rnd'.cache = rnd.cache
  BY <1>0, <1>1, <1>2 DEF TypeOK, Round
<1>4. TypeOK'
  BY <1>0, <1>2, <1>3 DEF TypeOK
<1>5. Rounds' /\ Counted' /\ Conversing' /\ Holding' /\ AlwaysAnswered'
  BY <1>2 DEF TurnInv, Rounds, Counted, Conversing, Holding, AlwaysAnswered
<1>6. OwnResults'
  BY <1>1, <1>2, <1>3 DEF TurnInv, OwnResults
<1>7. Decided'
  BY <1>2, <1>3 DEF TurnInv, Decided, Asks, Denied
<1> QED  BY <1>4, <1>5, <1>6, <1>7 DEF TurnInv

\* The end of one call: a key is journalled with its effect, once.
LEMMA EndedInv ==
    ASSUME TurnInv, at = "gather", NEW i \in 1..MaxCalls, rnd.stage[i] = "run",
           NEW stage \in {"ok", "failed", "lost"}, NEW keys \in SUBSET Effect,
           keys \cap journal = {}, Ended(i, stage, keys)
    PROVE  TurnInv'
<1> USE TurnAssumption
<1>0. /\ TypeOK /\ DOMAIN msg.calls \subseteq 1..MaxCalls
      /\ \A j \in DOMAIN msg.calls : msg.calls[j] \in Key
  BY CallsFacts DEF TurnInv, TypeOK
<1>1. i \in DOMAIN msg.calls /\ rnd \in Round /\ ~Denied
  BY <1>0 DEF TurnInv, TypeOK, OwnResults, Decided, Started
<1> DEFINE stages == Stages(i, stage)
           cache == IF stage = "ok" THEN rnd.cache \cup {msg.calls[i]} ELSE rnd.cache
<1>2. /\ stages \in [1..MaxCalls -> Stage]
      /\ \A j \in 1..MaxCalls : stages[j] # "none" => j = i \/ rnd.stage[j] # "none"
      /\ \A j \in 1..MaxCalls :
            stages[j] = "dup" => rnd.stage[j] = "dup" \/ msg.calls[j] = msg.calls[i]
  BY <1>1 DEF Stages, Stage, Round
<1>3. cache \in SUBSET Key /\ cache \subseteq rnd.cache \cup {msg.calls[i]}
  BY <1>0, <1>1 DEF Round
<1>4. /\ rnd' = [rnd EXCEPT !.stage = stages, !.cache = cache]
      /\ effects' = [k \in Effect |-> effects[k] + IF k \in keys THEN 1 ELSE 0]
      /\ journal' = journal \cup keys /\ fresh' = fresh \cup {msg.calls[i]}
      /\ UNCHANGED <<at, conv, loop, msg, held, yes, asked, out>>
  BY DEF Ended
<1> HIDE DEF stages, cache
<1>5. /\ rnd' \in Round /\ rnd'.stage = stages /\ rnd'.cache = cache
      /\ rnd'.decision = rnd.decision
  BY <1>1, <1>2, <1>3, <1>4 DEF Round
<1>6. effects' \in [Effect -> Nat]
  BY <1>0, <1>4 DEF TypeOK
<1>7. TypeOK'
  BY <1>0, <1>1, <1>4, <1>5, <1>6 DEF TypeOK
<1>8. Counted'
  BY <1>0, <1>4 DEF TurnInv, TypeOK, Counted
<1>9. OwnResults'
  <2>1. cache \subseteq fresh' /\ (at \notin {"idle", "understand"} => loop.cache \subseteq fresh')
    BY <1>3, <1>4 DEF TurnInv, OwnResults
  <2>2. \A j \in 1..MaxCalls : stages[j] # "none" => j \in DOMAIN msg.calls
    BY <1>1, <1>2 DEF TurnInv, OwnResults
  <2>3. \A j \in DOMAIN msg.calls : stages[j] = "dup" => msg.calls[j] \in fresh'
    BY <1>0, <1>2, <1>4 DEF TurnInv, OwnResults
  <2> QED  BY <1>4, <1>5, <2>1, <2>2, <2>3 DEF OwnResults
<1>10. Decided'
  BY <1>1, <1>4, <1>5 DEF TurnInv, Decided, Asks, Denied
<1>11. Rounds' /\ Conversing' /\ Holding' /\ AlwaysAnswered'
  BY <1>4 DEF TurnInv, Rounds, Conversing, Holding, AlwaysAnswered
<1> QED  BY <1>7, <1>8, <1>9, <1>10, <1>11 DEF TurnInv

\* A call ends: its result, and its effect if it was approved.
LEMMA ExecEndInv ==
    ASSUME TurnInv, NEW i \in 1..MaxCalls, ExecEnd(i) \/ SubagentAsks(i)
    PROVE  TurnInv'
<1> DEFINE keys == ({msg.calls[i]} \cap SideEffect) \ journal
<1>1. keys \in SUBSET Effect /\ keys \cap journal = {}
  BY DEF Effect
<1>2. CASE Ended(i, "ok", keys)
  <2> HIDE DEF keys
  <2> QED  BY <1>1, <1>2, EndedInv DEF ExecEnd, SubagentAsks
<1>3. CASE \E stage \in {"failed", "lost"} : Ended(i, stage, {})
  BY <1>3, EndedInv DEF ExecEnd, SubagentAsks
<1> QED  BY <1>2, <1>3 DEF ExecEnd, SubagentAsks

\* The round's results go back to the agent.
LEMMA ToolsJoinInv == TurnInv /\ ToolsJoin => TurnInv'
<1> SUFFICES ASSUME TurnInv, ToolsJoin PROVE TurnInv'
  OBVIOUS
<1>0. TypeOK
  BY DEF TurnInv
<1>1. /\ loop' \in Loop /\ loop'.cache = rnd.cache
      /\ loop'.iter = loop.iter /\ loop'.strikes = loop.strikes
  BY <1>0 DEF TypeOK, ToolsJoin, Loop, Round
<1>2. msg'.calls \in Calls /\ msg'.text \in Text
  BY NoCalls DEF ToolsJoin, NoMsg, Text
<1>3. TypeOK'
  BY <1>0, <1>1, <1>2, NoRoundType DEF TypeOK, ToolsJoin, Running
<1>4. Rounds' /\ OwnResults'
  BY <1>1 DEF TurnInv, ToolsJoin, Rounds, OwnResults
<1>5. Counted' /\ Decided' /\ Conversing' /\ Holding' /\ AlwaysAnswered'
  BY DEF TurnInv, ToolsJoin, Counted, Decided, Conversing, Holding, AlwaysAnswered
<1> QED  BY <1>3, <1>4, <1>5 DEF TurnInv

-------------------------------------------------------------------------------
(* The theorems. *)

\* A step of nobody.
LEMMA StutterInv == TurnInv /\ UNCHANGED vars => TurnInv'
BY DEF vars, TurnInv, TypeOK, Rounds, Counted, OwnResults, Decided, Asks, Started, Denied,
       Conversing, AlwaysAnswered, Holding

\* Every step of the thread, of the user or of a node, keeps the invariant.
LEMMA NextInv == TurnInv /\ [Next]_vars => TurnInv'
<1> SUFFICES ASSUME TurnInv, [Next]_vars PROVE TurnInv'
  OBVIOUS
<1>1. CASE UserStep
  BY <1>1, AskInv, RefuseInv, ResumeInv DEF UserStep
<1>2. CASE NodeStep
  <2>1. CASE \/ FollowUp
             \/ \E intent \in {"search", "chat", "clarify", "task"}, sure \in BOOLEAN,
                   scope \in SUBSET SideEffect : Understand(intent, sure, scope)
             \/ RouteIntent
             \/ \E mode \in {"react", "plan"} : DecideMode(mode)
    BY <2>1, FollowUpInv, RouterInv, RouteInv
  <2>2. CASE \/ \E first, second \in Text : Converse(first, second)
             \/ \E text \in Text : Task(text) \/ Synthesize(text) \/ ForcedAnswer(text)
             \/ \E verdict \in Verdict \ {"none"}, text \in Text : PlanTurn(verdict, text)
    BY <2>2, ConverseInv, TaskInv, SynthesizeInv, ForcedInv, PlanTurnInv
  <2>3. CASE \/ \E calls \in Calls, text \in Text, spent \in BOOLEAN : Reply(calls, text, spent)
             \/ AfterAgent \/ Preflight
    BY <2>3, ReplyInv, AfterAgentInv, PreflightInv
  <2>4. CASE \/ Gather \/ GatherDenied
             \/ \E i \in 1..MaxCalls : ExecEnd(i) \/ SubagentAsks(i)
             \/ ToolsJoin
    BY <2>4, GatherInv, AbortInv, ExecEndInv, ToolsJoinInv
  <2> QED  BY <1>2, <2>1, <2>2, <2>3, <2>4 DEF NodeStep
<1>3. CASE \E error \in {"timeout", "crash"} : Abort(error)
  BY <1>3, AbortInv
<1>4. CASE UNCHANGED vars
  BY <1>4, StutterInv
<1> QED  BY <1>1, <1>2, <1>3, <1>4 DEF Next

\* The inductive invariant holds in every state of a thread.
THEOREM TurnInvariant == Spec => []TurnInv
BY InitInv, NextInv, PTL DEF Spec

\* The loop agent -> tools -> agent has at most one reply beyond its rounds, and
\* the third reply in a row outside the user's goal is never asked for
\* (nodes.py:1716, 2344), and every variable has its type.
THEOREM LoopBoundedHolds == Spec => [](TypeOK /\ LoopBounded)
<1>1. TurnInv => TypeOK /\ LoopBounded
  BY TurnAssumption DEF TurnInv, Rounds, LoopBounded
<1> QED  BY <1>1, TurnInvariant, PTL

\* Whatever is repeated for one input - a call of a round or of several, the node
\* that runs again when a resumed run was cut off - a side effect happens at most
\* once, and a repeated call is answered from a result of this very input
\* (graph.py:428, nodes.py:372-414, 1159).
THEOREM OncePerInputHolds == Spec => []OncePerInput
<1>1. TurnInv => OncePerInput
  BY DEF TurnInv, Counted, OwnResults, OncePerInput, EffectOncePerInput, RepeatIsOfThisInput
<1> QED  BY <1>1, TurnInvariant, PTL

\* A search, a plan or a task list that comes to its end has an answer
\* (nodes.py:1494, 2066, 2188).
THEOREM AlwaysAnsweredHolds == Spec => []AlwaysAnswered
<1>1. TurnInv => AlwaysAnswered
  BY DEF TurnInv
<1> QED  BY <1>1, TurnInvariant, PTL

\* Only the end of a call can cause a side effect.
LEMMA EffectIsOfACall ==
    ASSUME TypeOK, [Next]_vars, NEW k \in Effect, effects'[k] > effects[k]
    PROVE  \E i \in 1..MaxCalls :
              /\ at = "gather" /\ rnd.stage[i] = "run"
              /\ k = msg.calls[i] /\ k \in SideEffect
<1>1. effects # effects'
  BY DEF TypeOK
<1>2. effects' = [j \in Effect |-> 0] => FALSE
  BY DEF TypeOK
<1>3. \E i \in 1..MaxCalls : ExecEnd(i) \/ SubagentAsks(i)
  BY <1>1, <1>2
     DEF Next, vars, UserStep, NodeStep, Ask, Refuse, Resume, ResumeNothing, FollowUp,
         Understand, RouteIntent, DecideMode, Converse, Task, Synthesize, ForcedAnswer,
         PlanTurn, Reply, AfterAgent, Preflight, Gather, GatherDenied, ToolsJoin, Abort, Broken
<1>4. PICK i \in 1..MaxCalls : ExecEnd(i) \/ SubagentAsks(i)
  BY <1>3
<1>5. at = "gather" /\ rnd.stage[i] = "run"
  BY <1>4 DEF ExecEnd, SubagentAsks
<1>6. PICK keys \in {({msg.calls[i]} \cap SideEffect) \ journal, {}} :
         effects' = [j \in Effect |-> effects[j] + IF j \in keys THEN 1 ELSE 0]
  BY <1>4 DEF ExecEnd, SubagentAsks, Ended
<1>7. k \in keys
  BY <1>6 DEF TypeOK
<1> QED  BY <1>5, <1>6, <1>7

\* A side effect happens only in a round the user let go on, and only for a call
\* the user approved for this very input: neither a replayed node nor an earlier
\* input's approval nor a subagent lets one through (nodes.py:170, approval.py).
THEOREM EffectApprovedHolds == Spec => EffectApproved
<1>1. TurnInv /\ [Next]_vars =>
         [\A k \in Effect : effects'[k] > effects[k] =>
             /\ k \in yes /\ rnd.decision = "yes" /\ at = "gather"]_vars
  <2> SUFFICES ASSUME TurnInv, [Next]_vars, NEW k \in Effect, effects'[k] > effects[k]
               PROVE  k \in yes /\ rnd.decision = "yes" /\ at = "gather"
    OBVIOUS
  <2>1. PICK i \in 1..MaxCalls : /\ at = "gather" /\ rnd.stage[i] = "run"
                                 /\ k = msg.calls[i] /\ k \in SideEffect
    BY EffectIsOfACall DEF TurnInv
  <2>2. i \in DOMAIN msg.calls
    BY <2>1 DEF TurnInv, OwnResults
  <2>3. Asks /\ Started
    BY <2>1, <2>2 DEF Asks, Started
  <2>4. rnd.decision \in {"yes", "no"} /\ rnd.decision # "no"
    BY <2>1, <2>3 DEF TurnInv, TypeOK, Round, Decided, Denied, Asks
  <2> QED  BY <2>1, <2>2, <2>3, <2>4 DEF TurnInv, Decided
<1> QED  BY <1>1, TurnInvariant, PTL DEF Spec, EffectApproved
=============================================================================
