---------------------------- MODULE ModelGateway ----------------------------
(***************************************************************************)
(* The chain of models behind every call of a language model               *)
(* (core/model_gateway.py).  A node asks for its own object (_get_model in *)
(* nodes.py), which holds the candidates in order and a circuit breaker    *)
(* for each, and calls it a few times.  Time is a clock the breakers read. *)
(***************************************************************************)
EXTENDS Integers, FiniteSets, FiniteSetsExt

CONSTANTS N,          \* candidates: the primary model, then the fallbacks
          Threshold,  \* AGENT_MODEL_BREAKER_THRESHOLD
          Cooldown,   \* AGENT_MODEL_BREAKER_COOLDOWN
          Uses,       \* calls a node makes with one object
          MaxCalls,   \* bound: calls
          MaxTime     \* bound: the clock

ModelGatewayAssumption ==
    /\ N \in Nat \ {0} /\ Threshold \in Nat \ {0} /\ Cooldown \in Nat
    /\ Uses \in Nat \ {0} /\ MaxCalls \in Nat /\ MaxTime \in Nat

Cand == 1..N
VARIABLES
    fails,  \* the object's breakers: failures since the last success
    opened, \* when a breaker opened, or Closed
    used,   \* calls made with this object
    clock,
    kind,   \* of the call that runs: "invoke", "stream", "probe", or "idle"
    todo,   \* the candidates it has still to try
    shut,   \* those it does not try: their breakers were open
    tried,  \* those that failed it
    voice,  \* those whose text its caller has been given
    end,    \* of the last call, or "none"
    streak, \* failed attempts of a candidate in a row, over all objects
    calls
gvars == <<fails, opened, used, clock, kind, todo, shut, tried, voice, end, streak, calls>>

Closed == -1
Init ==
    /\ fails = [c \in Cand |-> 0] /\ opened = [c \in Cand |-> Closed] /\ used = 0
    /\ clock = 0 /\ kind = "idle" /\ todo = {} /\ shut = {} /\ tried = {}
    /\ voice = {} /\ end = "none" /\ streak = [c \in Cand |-> 0] /\ calls = 0

\* _get_model: another node, another object.
NewObject ==
    /\ kind = "idle" /\ used > 0
    /\ fails' = [c \in Cand |-> 0] /\ opened' = [c \in Cand |-> Closed] /\ used' = 0
    /\ UNCHANGED <<clock, kind, todo, shut, tried, voice, end, streak, calls>>

Tick == /\ clock < MaxTime /\ clock' = clock + 1
        /\ UNCHANGED <<fails, opened, used, kind, todo, shut, tried, voice, end, streak, calls>>

\* _available_indexes forgets every breaker whose cooldown is over.
Open(c) == opened[c] # Closed /\ clock - opened[c] < Cooldown
Forget  ==
    /\ fails'  = [c \in Cand |-> IF opened[c] # Closed /\ ~Open(c) THEN 0 ELSE fails[c]]
    /\ opened' = [c \in Cand |-> IF Open(c) THEN opened[c] ELSE Closed]

\* ainvoke, astream and probe, which asks the first candidate only.
Call(k) ==
    /\ kind = "idle" /\ used < Uses /\ calls < MaxCalls
    /\ used' = used + 1 /\ calls' = calls + 1 /\ Forget
    /\ shut' = {c \in Cand : Open(c)} /\ tried' = {} /\ voice' = {}
    /\ LET free == Cand \ shut'
       IN  /\ todo' = IF k = "probe" /\ free # {} THEN {Min(free)} ELSE free
           /\ kind' = IF free = {} THEN "idle" ELSE k
           /\ end'  = IF free = {} THEN "open" ELSE "none"
    /\ UNCHANGED <<clock, streak>>

\* The candidates are tried in their order.
Asked == Min(todo)
Ends(e) == kind' = "idle" /\ todo' = {} /\ end' = e

\* _record_success
Succeeds ==
    /\ kind # "idle" /\ Ends("ok")
    /\ LET c == Asked
       IN  /\ fails' = [fails EXCEPT ![c] = 0] /\ opened' = [opened EXCEPT ![c] = Closed]
           /\ streak' = [streak EXCEPT ![c] = 0] /\ voice' = voice \cup {c}
    /\ UNCHANGED <<used, clock, shut, tried, calls>>

\* A stream hands each piece of text on as it comes.
Chunk ==
    /\ kind = "stream" /\ Asked \notin voice /\ voice' = voice \cup {Asked}
    /\ UNCHANGED <<fails, opened, used, clock, kind, todo, shut, tried, end, streak, calls>>

\* Mutant: it does not matter that the caller has had text.
SpokeNever(c) == FALSE
Spoke(c) == c \in voice

\* should_fallback is true of it: _record_failure, and the next candidate,
\* unless the caller has had text of this one.
Fails ==
    /\ kind # "idle"
    /\ LET c == Asked
           f == fails[c] + 1
       IN  /\ fails'  = [fails EXCEPT ![c] = f]
           /\ opened' = [opened EXCEPT ![c] = IF f >= Threshold THEN clock ELSE @]
           /\ streak' = [streak EXCEPT ![c] = @ + 1] /\ tried' = tried \cup {c}
           /\ IF kind = "probe" THEN Ends("degraded")
              ELSE IF Spoke(c) THEN Ends("raised")
              ELSE IF todo = {c} THEN Ends("failed")
              ELSE todo' = todo \ {c} /\ UNCHANGED <<kind, end>>
    /\ UNCHANGED <<used, clock, shut, voice, calls>>

\* A request the model refuses, or a cancelled turn: no candidate is blamed.
Raises ==
    /\ kind # "idle" /\ Ends(IF kind = "probe" THEN "degraded" ELSE "raised")
    /\ UNCHANGED <<fails, opened, used, clock, shut, tried, voice, streak, calls>>

Next == \/ NewObject \/ Tick \/ Succeeds \/ Chunk \/ Fails \/ Raises
        \/ \E k \in {"invoke", "stream", "probe"} : Call(k)
Spec == Init /\ [][Next]_gvars

-----------------------------------------------------------------------------
TypeOK ==
    /\ fails \in [Cand -> 0..MaxCalls] /\ opened \in [Cand -> {Closed} \cup 0..MaxTime]
    /\ used \in 0..Uses /\ clock \in 0..MaxTime /\ calls \in 0..MaxCalls
    /\ kind \in {"idle", "invoke", "stream", "probe"} /\ todo \subseteq Cand
    /\ shut \cup tried \cup voice \subseteq Cand
    /\ end \in {"none", "ok", "failed", "open", "raised", "degraded"} /\ streak \in [Cand -> 0..MaxCalls]

\* A call that finds no model has really asked each that was not shut out, and
\* a shut one has failed Threshold times in a row, the last within a cooldown.
NoneLeftOut ==
    /\ end = "failed" => tried \cup shut = Cand
    /\ \A c \in shut : streak[c] >= Threshold

\* The text of an answer comes from one model: the next one is not asked once
\* a piece has been handed on.
OneVoice == Cardinality(voice) <= 1

\* A candidate that has failed Threshold times in a row is not asked within
\* the cooldown (it is: the breakers end with the object of one node).
OutageOpens ==
    (kind # "idle" /\ clock < Cooldown) => streak[Asked] < Threshold
=============================================================================
