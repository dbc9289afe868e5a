------------------------------ MODULE ToolGateway ------------------------------
(***************************************************************************)
(* ToolGateway.invoke (agent/core/tool_gateway.py) with the SQLite journal *)
(* of agent/core/idempotency.py: every tool call passes the read cache,    *)
(* the circuit breaker, the durable reservation of side effects, the       *)
(* semaphore, a timeout and bounded retries.                               *)
(*                                                                         *)
(* Every step ends where the code awaits: the journal (a thread of its     *)
(* own, one transaction per call), the semaphore, the adapter.  A call the *)
(* policy refuses, whose arguments are invalid or whose approval is        *)
(* missing, denied or pending returns before it has touched anything, and  *)
(* is left out; so is the order of eviction in the read cache.             *)
(***************************************************************************)
EXTENDS Naturals, FiniteSets

CONSTANTS
    Gate,        \* gateway instances, each with its cache and its breakers
    Call,        \* slots for invocations in flight
    Tool,        \* tool names
    Write,       \* side effects, by idempotency key
    Read,        \* cacheable reads, by cache key
    ToolOf,      \* the tool of each of them
    Slots,       \* max_concurrency
    Threshold,   \* breaker_threshold
    Attempts,    \* attempts of a read
    None,        \* no gateway, no operation
    Prompt,      \* TRUE: no reservation gets stale while its call goes on
    StoreFaults  \* TRUE: a journal access may raise

Op == Write \cup Read

ASSUME OpAssumption ==
    /\ Write \cap Read = {}
    /\ None \notin Gate \cup Op
    /\ ToolOf \in [Op -> Tool]
ASSUME BoundAssumption ==
    Slots \in Nat \ {0} /\ Threshold \in Nat \ {0} /\ Attempts \in Nat \ {0}

VARIABLES
    journal,  \* the rows of tool_idempotency; "stale" is a running row whose
              \* updated_at is too long ago
    runs,     \* how often the adapter was started for each side effect
    effect,   \* what became of each side effect in the world outside
    breaker,  \* _breakers of each gateway
    cache,    \* _read_cache of each gateway
    call      \* the invocations in flight

vars == <<journal, runs, effect, breaker, cache, call>>

-------------------------------------------------------------------------------
Journal == {"none", "running", "stale", "succeeded", "failed",
            "indeterminate"}
Effect == {"none", "inflight", "applied", "refused"}
Data == {"none", "current", "outdated"}  \* of a read, against the world now
Breaker == [fails : 0 .. Threshold, mode : {"closed", "open", "cooled"}]
Shut == [fails |-> 0, mode |-> "closed"]

\* How an adapter may answer a write: a valid success; something that fails
\* the envelope protocol or output_schema; a structured error that says the
\* effect was not applied; any other structured error.  "raised" stands for
\* a timeout or an exception.
Answers == {"ok", "invalid", "refused", "unsure"}
Replies == {"hit", "open", "storeDown", "replayed", "prior", "unknown", "busy",
            "ok", "unrecorded", "invalid", "refused", "failed"}

NoCall == [pc |-> "idle", gate |-> None, op |-> None, try |-> 0,
           last |-> "none", cut |-> FALSE, got |-> "none", reply |-> "none"]
CallState ==
    [pc    : {"idle", "reserve", "queue", "run", "settle", "close", "done"},
     gate  : Gate \cup {None},
     op    : Op \cup {None},
     try   : 0 .. Attempts,
     last  : Answers \cup {"raised", "none"},
     cut   : BOOLEAN,      \* cancelled while a journal thread was at work
     got   : Data,
     reply : Replies \cup {"none"}]

TypeOK ==
    /\ journal \in [Write -> Journal]
    /\ runs \in [Write -> Nat]
    /\ effect \in [Write -> Effect]
    /\ breaker \in [Gate -> [Tool -> Breaker]]
    /\ cache \in [Gate -> [Read -> Data]]
    /\ call \in [Call -> CallState]

Init ==
    /\ journal = [k \in Write |-> "none"]
    /\ runs = [k \in Write |-> 0]
    /\ effect = [k \in Write |-> "none"]
    /\ breaker = [g \in Gate |-> [t \in Tool |-> Shut]]
    /\ cache = [g \in Gate |-> [r \in Read |-> "none"]]
    /\ call = [c \in Call |-> NoCall]

Busy(c) == call[c].pc # "idle"
IsWrite(c) == call[c].op \in Write
Open(k) == journal[k] \in {"running", "stale"}   \* WHERE status = 'running'

\* The call that holds the reservation of its side effect.
Holds(c) == IsWrite(c) /\ call[c].pc \in {"queue", "run", "settle", "close"}

SetCall(c, rec) == call' = [call EXCEPT ![c] = rec]
Answer(c, r) ==
    SetCall(c, [NoCall EXCEPT !.pc = "done", !.gate = call[c].gate,
                              !.op = call[c].op, !.got = call[c].got,
                              !.reply = r])

\* _record_success and _record_failure on the breaker of the call's tool.
SetBreaker(c, b) ==
    breaker' = [breaker EXCEPT ![call[c].gate][ToolOf[call[c].op]] = b]
Count(c, transport) ==
    LET b == breaker[call[c].gate][ToolOf[call[c].op]]
        n == IF b.fails < Threshold THEN b.fails + 1 ELSE b.fails
    IN
    IF transport
    THEN SetBreaker(c, [fails |-> n,
                        mode |-> IF n = Threshold THEN "open" ELSE b.mode])
    ELSE UNCHANGED breaker

-------------------------------------------------------------------------------
(* Up to the first await. *)

Mode(g, o) == breaker[g][ToolOf[o]].mode
Cached(g, o) == o \in Read /\ cache[g][o] # "none"

\* A write clears the cache before it looks at the breaker.
LookAside(g, o) ==
    cache' = IF o \in Write
             THEN [cache EXCEPT ![g] = [r \in Read |-> "none"]] ELSE cache

ServeCached(c, g, r) ==
    /\ ~Busy(c) /\ Cached(g, r)
    /\ SetCall(c, [NoCall EXCEPT !.pc = "done", !.gate = g, !.op = r,
                                 !.got = cache[g][r], !.reply = "hit"])
    /\ UNCHANGED <<journal, runs, effect, breaker, cache>>

ShortCircuit(c, g, o) ==
    /\ ~Busy(c) /\ ~Cached(g, o) /\ Mode(g, o) = "open"
    /\ SetCall(c, [NoCall EXCEPT !.pc = "done", !.gate = g, !.op = o,
                                 !.reply = "open"])
    /\ LookAside(g, o)
    /\ UNCHANGED <<journal, runs, effect, breaker>>

\* A breaker whose cooldown has elapsed is forgotten on the way.
Admit(c, g, o) ==
    /\ ~Busy(c) /\ ~Cached(g, o) /\ Mode(g, o) # "open"
    /\ SetCall(c, [NoCall EXCEPT !.pc = IF o \in Write THEN "reserve"
                                                       ELSE "queue",
                                 !.gate = g, !.op = o, !.try = 1])
    /\ breaker' = IF Mode(g, o) = "cooled"
                  THEN [breaker EXCEPT ![g][ToolOf[o]] = Shut] ELSE breaker
    /\ LookAside(g, o)
    /\ UNCHANGED <<journal, runs, effect>>

-------------------------------------------------------------------------------
(* The journal's reserve, and the way to the adapter. *)

ReplyTo(j) == CASE j = "succeeded"     -> "replayed"
                [] j = "failed"        -> "prior"
                [] j = "indeterminate" -> "unknown"
                [] OTHER               -> "busy"

Leave(c) == SetCall(c, NoCall)

\* Broken: a row that has been running for too long is taken over.
AcquireStale(c) ==
    LET k == call[c].op IN
    /\ call[c].pc = "reserve" /\ journal[k] \in {"none", "stale"}
    /\ journal' = [journal EXCEPT ![k] = "running"]
    /\ IF call[c].cut THEN Leave(c)
       ELSE SetCall(c, [call[c] EXCEPT !.pc = "queue"])
    /\ UNCHANGED <<runs, effect, breaker, cache>>

\* The key is new: the call may go on, unless nobody waits for it any more.
Acquire(c) ==
    LET k == call[c].op IN
    /\ call[c].pc = "reserve" /\ journal[k] = "none"
    /\ journal' = [journal EXCEPT ![k] = "running"]
    /\ IF call[c].cut THEN Leave(c)
       ELSE SetCall(c, [call[c] EXCEPT !.pc = "queue"])
    /\ UNCHANGED <<runs, effect, breaker, cache>>

\* The key is taken: a row that has been running for too long gets a verdict.
Taken(c) ==
    LET k == call[c].op
        j == IF journal[k] = "stale" THEN "indeterminate" ELSE journal[k]
    IN
    /\ call[c].pc = "reserve" /\ journal[k] # "none"
    /\ journal' = [journal EXCEPT ![k] = j]
    /\ IF call[c].cut THEN Leave(c) ELSE Answer(c, ReplyTo(j))
    /\ UNCHANGED <<runs, effect, breaker, cache>>

\* No journal, no side effect.
ReserveFault(c) ==
    /\ StoreFaults /\ call[c].pc = "reserve"
    /\ IF call[c].cut THEN Leave(c) ELSE Answer(c, "storeDown")
    /\ UNCHANGED <<journal, runs, effect, breaker, cache>>

\* The semaphore; from here on the adapter may touch the world.
Enter(c) ==
    LET k == call[c].op IN
    /\ call[c].pc = "queue"
    /\ Cardinality({d \in Call : call[d].pc = "run"
                                 /\ call[d].gate = call[c].gate}) < Slots
    /\ SetCall(c, [call[c] EXCEPT !.pc = "run"])
    /\ IF IsWrite(c)
       THEN /\ runs' = [runs EXCEPT ![k] = @ + 1]
            /\ effect' = [effect EXCEPT ![k] = "inflight"]
       ELSE UNCHANGED <<runs, effect>>
    /\ UNCHANGED <<journal, breaker, cache>>

-------------------------------------------------------------------------------
(* The adapter and the world. *)

\* A read sees the world as it is at some moment of its run.
Fetch(c) ==
    /\ call[c].pc = "run" /\ ~IsWrite(c) /\ call[c].got = "none"
    /\ SetCall(c, [call[c] EXCEPT !.got = "current"])
    /\ UNCHANGED <<journal, runs, effect, breaker, cache>>

\* A started side effect happens now, even if its call timed out, was
\* cancelled or died with its process; what was read before is outdated.
Older(d) == IF d = "current" THEN "outdated" ELSE d
Land(k) ==
    /\ effect[k] = "inflight"
    /\ effect' = [effect EXCEPT ![k] = "applied"]
    /\ cache' = [g \in Gate |-> [r \in Read |-> Older(cache[g][r])]]
    /\ call' = [c \in Call |-> [call[c] EXCEPT !.got = Older(@)]]
    /\ UNCHANGED <<journal, runs, breaker>>

ReadOk(c) ==
    /\ call[c].pc = "run" /\ ~IsWrite(c) /\ call[c].got # "none"
    /\ SetBreaker(c, Shut)
    /\ cache' = [cache EXCEPT ![call[c].gate][call[c].op] = call[c].got]
    /\ Answer(c, "ok")
    /\ UNCHANGED <<journal, runs, effect>>

ReadInvalid(c) ==
    /\ call[c].pc = "run" /\ ~IsWrite(c)
    /\ Answer(c, "invalid")
    /\ UNCHANGED <<journal, runs, effect, breaker, cache>>

\* Broken: retries are not counted.
ReadFailsUncounted(c, transport, retryable) ==
    /\ call[c].pc = "run" /\ ~IsWrite(c)
    /\ IF retryable
       THEN /\ SetCall(c, [call[c] EXCEPT !.pc = "queue", !.got = "none"])
            /\ UNCHANGED breaker
       ELSE Count(c, transport) /\ Answer(c, "failed")
    /\ UNCHANGED <<journal, runs, effect, cache>>

\* A timeout, an exception or a structured error: again, after a backoff
\* outside the semaphore, if the error allows it and attempts are left.
ReadFails(c, transport, retryable) ==
    /\ call[c].pc = "run" /\ ~IsWrite(c)
    /\ IF retryable /\ call[c].try < Attempts
       THEN /\ SetCall(c, [call[c] EXCEPT !.pc = "queue", !.try = @ + 1,
                                          !.got = "none"])
            /\ UNCHANGED breaker
       ELSE Count(c, transport) /\ Answer(c, "failed")
    /\ UNCHANGED <<journal, runs, effect, cache>>

WriteAnswers(c, a) ==
    LET k == call[c].op IN
    /\ call[c].pc = "run" /\ IsWrite(c)
    /\ a = "ok" => effect[k] = "applied"
    /\ a = "refused" => effect[k] = "inflight"
    /\ effect' = IF a = "refused" THEN [effect EXCEPT ![k] = "refused"]
                                  ELSE effect
    /\ SetCall(c, [call[c] EXCEPT !.pc = "settle", !.last = a])
    /\ UNCHANGED <<journal, runs, breaker, cache>>

\* A side effect gets one attempt, whatever its retry policy says.
WriteRaises(c, transport) ==
    /\ call[c].pc = "run" /\ IsWrite(c)
    /\ Count(c, transport)
    /\ SetCall(c, [call[c] EXCEPT !.pc = "close", !.last = "raised"])
    /\ UNCHANGED <<journal, runs, effect, cache>>

-------------------------------------------------------------------------------
(* What the journal is told. *)

\* Broken: every structured error counts as "nothing was done".
VerdictHopeful(a) == CASE a = "ok"                    -> "succeeded"
                       [] a \in {"refused", "unsure"} -> "failed"
                       [] OTHER                       -> "indeterminate"
Verdict(a) == CASE a = "ok"      -> "succeeded"
                [] a = "refused" -> "failed"
                [] OTHER         -> "indeterminate"

\* Broken: the update has no WHERE status = 'running'.
RecordAlways(k, v) == journal' = [journal EXCEPT ![k] = v]
Record(k, v) == journal' = [journal EXCEPT ![k] = IF Open(k) THEN v ELSE @]

\* Broken: a success whose record was lost is reported like any other.
ProceedRegardless(c, recorded) ==
    LET a == call[c].last IN
    CASE call[c].cut -> Leave(c) /\ UNCHANGED breaker
      [] ~call[c].cut /\ a = "ok" -> SetBreaker(c, Shut) /\ Answer(c, "ok")
      [] ~call[c].cut /\ a = "invalid" ->
            Answer(c, "invalid") /\ UNCHANGED breaker
      [] OTHER ->
            /\ \E transport \in BOOLEAN :
                  /\ transport => a = "unsure"
                  /\ Count(c, transport)
            /\ SetCall(c, [call[c] EXCEPT !.pc = "close"])

\* After complete, reject or fail: a structured error still goes through
\* _record_failure and a last fail, which finds the row closed unless the
\* first update was lost.
Proceed(c, recorded) ==
    LET a == call[c].last IN
    CASE call[c].cut -> Leave(c) /\ UNCHANGED breaker
      [] ~call[c].cut /\ a = "ok" ->
            IF recorded THEN SetBreaker(c, Shut) /\ Answer(c, "ok")
            ELSE Answer(c, "unrecorded") /\ UNCHANGED breaker
      [] ~call[c].cut /\ a = "invalid" ->
            Answer(c, "invalid") /\ UNCHANGED breaker
      [] OTHER ->
            /\ \E transport \in BOOLEAN :
                  /\ transport => a = "unsure"
                  /\ Count(c, transport)
            /\ SetCall(c, [call[c] EXCEPT !.pc = "close"])

Settle(c) ==
    /\ call[c].pc = "settle"
    /\ Record(call[c].op, Verdict(call[c].last))
    /\ Proceed(c, TRUE)
    /\ UNCHANGED <<runs, effect, cache>>

SettleFault(c) ==
    /\ StoreFaults /\ call[c].pc = "settle"
    /\ Proceed(c, FALSE)
    /\ UNCHANGED <<journal, runs, effect, cache>>

Closing(c) ==
    IF call[c].cut THEN Leave(c)
    ELSE Answer(c, IF call[c].last = "refused" THEN "refused" ELSE "failed")
Close(c) ==
    /\ call[c].pc = "close"
    /\ Record(call[c].op, "indeterminate")
    /\ Closing(c)
    /\ UNCHANGED <<runs, effect, breaker, cache>>

CloseFault(c) ==
    /\ StoreFaults /\ call[c].pc = "close"
    /\ Closing(c)
    /\ UNCHANGED <<journal, runs, effect, breaker, cache>>

\* CancelledError: a journal thread that has been started goes on; at the
\* semaphore or in the adapter the reservation is marked first.
Cancel(c) ==
    /\ call[c].pc \in {"reserve", "queue", "run", "settle", "close"}
    /\ ~call[c].cut
    /\ IF ~IsWrite(c) THEN Leave(c)
       ELSE IF call[c].pc \in {"queue", "run"}
       THEN SetCall(c, [call[c] EXCEPT !.pc = "settle", !.last = "unsure",
                                       !.cut = TRUE])
       ELSE SetCall(c, [call[c] EXCEPT !.cut = TRUE])
    /\ UNCHANGED <<journal, runs, effect, breaker, cache>>

\* The caller takes the reply.
Return(c) ==
    /\ call[c].pc = "done"
    /\ Leave(c)
    /\ UNCHANGED <<journal, runs, effect, breaker, cache>>

-------------------------------------------------------------------------------
(* Time and processes. *)

\* stale_after_seconds pass over a running row.
Age(k) ==
    /\ journal[k] = "running"
    /\ Prompt => \A c \in Call : ~(Holds(c) /\ call[c].op = k)
    /\ journal' = [journal EXCEPT ![k] = "stale"]
    /\ UNCHANGED <<runs, effect, breaker, cache, call>>

Cool(g, t) ==
    /\ breaker[g][t].mode = "open"
    /\ breaker' = [breaker EXCEPT ![g][t].mode = "cooled"]
    /\ UNCHANGED <<journal, runs, effect, cache, call>>

\* By its time to live, or by READ_CACHE_MAX.
Evict(g, r) ==
    /\ cache[g][r] # "none"
    /\ cache' = [cache EXCEPT ![g][r] = "none"]
    /\ UNCHANGED <<journal, runs, effect, breaker, call>>

\* The process of a gateway dies; the journal and the world stay.
Crash(g) ==
    /\ call' = [c \in Call |-> IF call[c].gate = g THEN NoCall ELSE call[c]]
    /\ breaker' = [breaker EXCEPT ![g] = [t \in Tool |-> Shut]]
    /\ cache' = [cache EXCEPT ![g] = [r \in Read |-> "none"]]
    /\ UNCHANGED <<journal, runs, effect>>

-------------------------------------------------------------------------------
Begin(c, g) ==
    \/ \E r \in Read : ServeCached(c, g, r)
    \/ \E o \in Op : ShortCircuit(c, g, o) \/ Admit(c, g, o)
Reserve(c) == Acquire(c) \/ Taken(c) \/ ReserveFault(c)
Finish(c) ==
    Settle(c) \/ SettleFault(c) \/ Close(c) \/ CloseFault(c) \/ Return(c)
Adapter(c) ==
    \/ Fetch(c)
    \/ ReadOk(c)
    \/ ReadInvalid(c)
    \/ \E transport, retryable \in BOOLEAN : ReadFails(c, transport, retryable)
    \/ \E a \in Answers : WriteAnswers(c, a)
    \/ \E transport \in BOOLEAN : WriteRaises(c, transport)
\* asyncio.wait_for runs out.
Timeout(c) == ReadFails(c, TRUE, TRUE) \/ WriteRaises(c, TRUE)

Next ==
    \/ \E c \in Call : \/ \E g \in Gate : Begin(c, g)
                       \/ Reserve(c)
                       \/ Enter(c)
                       \/ Adapter(c)
                       \/ Finish(c)
                       \/ Cancel(c)
    \/ \E k \in Write : Land(k) \/ Age(k)
    \/ \E g \in Gate : \/ \E t \in Tool : Cool(g, t)
                       \/ \E r \in Read : Evict(g, r)
                       \/ Crash(g)

Spec == Init /\ [][Next]_vars

\* Journal threads end, every adapter run is under a timeout, and the
\* semaphore is first come first served.  No adapter has to answer.
Fairness == \A c \in Call :
    WF_vars(Reserve(c)) /\ WF_vars(Finish(c)) /\ WF_vars(Timeout(c))
        /\ SF_vars(Enter(c))

FairSpec == Spec /\ Fairness

-------------------------------------------------------------------------------
(* What at-most-once rests on (proved in ToolGatewayProofs). *)

\* Who has a process and an operation, and which operations get where.
CallShape == \A c \in Call :
    /\ Busy(c) => call[c].gate \in Gate /\ call[c].op \in Op
    /\ call[c].pc \in {"reserve", "settle", "close"} => IsWrite(c)

\* A reservation has one holder, and a row.
OneHolder ==
    /\ \A c, d \in Call :
          Holds(c) /\ Holds(d) /\ call[c].op = call[d].op => c = d
    /\ \A c \in Call : Holds(c) => journal[call[c].op] # "none"

\* The adapter is started under a reservation, and once.
StartedOnce ==
    /\ \A k \in Write : /\ runs[k] = 0 <=> effect[k] = "none"
                        /\ journal[k] = "none" => runs[k] = 0
    /\ \A c \in Call :
          IsWrite(c) => /\ call[c].pc = "queue" => runs[call[c].op] = 0
                        /\ call[c].pc = "run" =>
                              effect[call[c].op] \in {"inflight", "applied"}

\* What a call is about to put on record, or has been told, is true.
Truthful == \A c \in Call : IsWrite(c) =>
    /\ call[c].last = "ok" => effect[call[c].op] = "applied"
    /\ call[c].last = "refused" => effect[call[c].op] = "refused"

-------------------------------------------------------------------------------
(* Properties. *)

\* A side effect is attempted at most once, whatever is repeated, retried,
\* cancelled, timed out or restarted.
AtMostOnce == \A k \in Write : runs[k] <= 1

\* A verdict on record is true: "succeeded" means the effect was applied, and
\* "failed", which tells the caller to change the request, that it never was.
VerdictsTrue == \A k \in Write :
    /\ journal[k] = "succeeded" => effect[k] = "applied"
    /\ journal[k] = "failed" => effect[k] = "refused"

\* So is a reply: a success, first hand or replayed, has been applied, and an
\* error with effect_applied "no" has not.
RepliesTrue == \A c \in Call : IsWrite(c) =>
    /\ call[c].reply \in {"ok", "replayed", "unrecorded"} =>
          effect[call[c].op] = "applied"
    /\ call[c].reply \in {"refused", "prior"} =>
          effect[call[c].op] = "refused"

\* The inductive invariant.
IndInv ==
    /\ TypeOK
    /\ CallShape
    /\ OneHolder
    /\ StartedOnce
    /\ Truthful
    /\ AtMostOnce
    /\ VerdictsTrue
    /\ RepliesTrue

\* idempotency.py: "a successful result must be replayable after a process
\* restart".  Whoever has been told of a success will be told so again.
SuccessReplayable == \A c \in Call :
    IsWrite(c) /\ call[c].reply \in {"ok", "replayed"} =>
        journal[call[c].op] = "succeeded"

\* agent/README.md: the read cache is emptied once a write has succeeded.  No
\* entry of the gateway that reports the success is older than the write.
NoStaleReads ==
    [][\A c \in Call : IsWrite(c) /\ call[c].pc = "settle" /\ call'[c].reply = "ok"
          => \A r \in Read : cache'[call[c].gate][r] # "outdated"]_vars

\* Every invocation comes to an end, cancelled or not.
CallsEnd == \A c \in Call : Busy(c) ~> ~Busy(c)

\* The journal and the gateways keep the promise of EffectOnce.
Once == INSTANCE EffectOnce WITH
            Key <- Write,
            tries <- runs,
            fate <- effect,
            verdict <- [k \in Write |->
                           IF journal[k] \in {"none", "running", "stale"}
                           THEN "open"
                           ELSE IF journal[k] = "indeterminate" THEN "unknown"
                           ELSE journal[k]]
EffectOncePromise == Once!EffectSpec

-----------------------------------------------------------------------------
\* For TLC: every operation is that of a tool of its own.
OwnTools == [o \in Op |-> o]
===============================================================================
