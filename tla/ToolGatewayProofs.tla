--------------------------- MODULE ToolGatewayProofs ---------------------------
(***************************************************************************)
(* Proofs about ToolGateway, for any number of gateways, calls, tools and  *)
(* operations, with or without journal faults, prompt or not.              *)
(*                                                                         *)
(* Almost every action moves one call and touches at most the key of that  *)
(* call.  CallStep states what such a move must show for the invariant to  *)
(* be kept; the lemmas after it show that for one action each.             *)
(***************************************************************************)
EXTENDS ToolGateway, TLAPS

\* A call that holds the reservation of its side effect.
Holder(r) == r.op \in Write /\ r.pc \in {"queue", "run", "settle", "close"}

\* What IndInv says of one call.
Sound(r) ==
    /\ r.pc # "idle" => r.gate \in Gate /\ r.op \in Op
    /\ r.pc \in {"reserve", "settle", "close"} => r.op \in Write
    /\ Holder(r) => journal[r.op] # "none"
    /\ r.op \in Write =>
          /\ r.pc = "queue" => runs[r.op] = 0
          /\ r.pc = "run" => effect[r.op] \in {"inflight", "applied"}
    /\ r.op \in Write =>
          /\ r.last = "ok" => effect[r.op] = "applied"
          /\ r.last = "refused" => effect[r.op] = "refused"
    /\ r.op \in Write =>
          /\ r.reply \in {"ok", "replayed", "unrecorded"} =>
                effect[r.op] = "applied"
          /\ r.reply \in {"refused", "prior"} => effect[r.op] = "refused"

\* What it says of one side effect.
KeySound(k) ==
    /\ runs[k] = 0 <=> effect[k] = "none"
    /\ journal[k] = "none" => runs[k] = 0
    /\ runs[k] <= 1
    /\ journal[k] = "succeeded" => effect[k] = "applied"
    /\ journal[k] = "failed" => effect[k] = "refused"

\* An effect only goes forward.
Later(e, f) == \/ e = f
               \/ e = "none" /\ f = "inflight"
               \/ e = "inflight" /\ f \in {"applied", "refused"}

\* What a step may do to side effect k, whose reservation belongs to a call
\* that moves if it does anything but close the row.
KeyStep(c, k) ==
    /\ \/ effect'[k] = effect[k] /\ runs'[k] = runs[k]
       \/ Holds(c) /\ call[c].op = k
    /\ Later(effect[k], effect'[k])
    /\ journal[k] # "none" => journal'[k] # "none"

-------------------------------------------------------------------------------
\* The invariant, call by call and key by key.
LEMMA Pointwise ==
    ASSUME IndInv
    PROVE  /\ TypeOK
           /\ \A c \in Call : Sound(call[c])
           /\ \A k \in Write : KeySound(k)
           /\ \A c, d \in Call :
                 Holds(c) /\ Holds(d) /\ call[c].op = call[d].op => c = d
  BY DEF IndInv, TypeOK, CallShape, OneHolder, StartedOnce, Truthful,
         AtMostOnce, VerdictsTrue, RepliesTrue, Sound, Holder, KeySound, Holds,
         IsWrite, Busy

\* The same of the next state: what is sound call by call and key by key.
LEMMA PointwiseNext ==
    ASSUME TypeOK',
           \A c \in Call : Sound(call[c])',
           \A k \in Write : KeySound(k)',
           \A c, d \in Call :
              (Holds(c) /\ Holds(d) /\ call[c].op = call[d].op)' => c = d
    PROVE  IndInv'
  BY DEF IndInv, TypeOK, CallShape, OneHolder, StartedOnce, Truthful,
         AtMostOnce, VerdictsTrue, RepliesTrue, Sound, Holder, KeySound, Holds,
         IsWrite, Busy

\* A move of one call that is sound itself, and leaves the keys sound, keeps
\* the invariant.
LEMMA CallStep ==
    ASSUME IndInv, TypeOK', NEW c \in Call, NEW r \in CallState,
           call' = [call EXCEPT ![c] = r],
           Sound(r)',
           \A k \in Write : KeyStep(c, k) /\ KeySound(k)',
           Holder(r) => \/ Holds(c) /\ call[c].op = r.op
                        \/ journal[r.op] = "none"
    PROVE  IndInv'
  <1>1. /\ TypeOK
        /\ \A d \in Call : Sound(call[d])
        /\ \A d, e \in Call :
              Holds(d) /\ Holds(e) /\ call[d].op = call[e].op => d = e
    BY Pointwise
  <1>2. call'[c] = r /\ \A d \in Call \ {c} : call'[d] = call[d]
    BY <1>1 DEF TypeOK
  <1>3. \A d \in Call : Sound(call[d])'
    <2> SUFFICES ASSUME NEW d \in Call, d # c
                 PROVE  Sound(call[d])'
      BY <1>2
    <2>1. call'[d] = call[d] /\ Sound(call[d])
      BY <1>1, <1>2
    <2>2. CASE call[d].op \notin Write
      BY <2>1, <2>2 DEF Sound, Holder
    <2>3. CASE call[d].op \in Write
      <3> DEFINE k == call[d].op
      <3>1. KeyStep(c, k)
        BY <2>3
      <3>2. Holder(call[d]) => effect'[k] = effect[k] /\ runs'[k] = runs[k]
        BY <1>1, <3>1 DEF KeyStep, Holder, Holds, IsWrite
      <3>3. QED
        BY <2>1, <2>3, <3>1, <3>2 DEF Sound, Holder, KeyStep, Later
    <2>4. QED
      BY <2>2, <2>3
  <1>4. \A d, e \in Call :
           (Holds(d) /\ Holds(e) /\ call[d].op = call[e].op)' => d = e
    BY <1>1, <1>2 DEF Holds, IsWrite, Holder, Sound
  <1>5. QED
    BY <1>3, <1>4, PointwiseNext

\* A move that starts nothing and changes no effect, with a sound verdict on
\* whatever rows it writes.
LEMMA JournalStep ==
    ASSUME IndInv, NEW c \in Call, NEW r \in CallState, SetCall(c, r),
           UNCHANGED <<runs, effect>>,
           journal' \in [Write -> Journal],
           breaker' \in [Gate -> [Tool -> Breaker]],
           cache' \in [Gate -> [Read -> Data]],
           \A k \in Write : /\ journal[k] # "none" => journal'[k] # "none"
                            /\ KeySound(k)',
           Sound(r),
           Holder(r) => Holds(c) /\ call[c].op = r.op
    PROVE  IndInv'
  <1>1. ASSUME NEW k \in Write
        PROVE  KeyStep(c, k) /\ KeySound(k)'
    BY DEF KeyStep, Later
  <1>2. Sound(r)'
    BY DEF Sound, Holder
  <1>3. call' = [call EXCEPT ![c] = r]
    BY DEF SetCall
  <1>4. TypeOK'
    BY <1>3 DEF IndInv, TypeOK
  <1>5. QED
    BY <1>1, <1>2, <1>3, <1>4, CallStep

\* A move that leaves the journal alone as well.
LEMMA QuietStep ==
    ASSUME IndInv, NEW c \in Call, NEW r \in CallState, SetCall(c, r),
           UNCHANGED <<journal, runs, effect>>,
           breaker' \in [Gate -> [Tool -> Breaker]],
           cache' \in [Gate -> [Read -> Data]],
           Sound(r),
           Holder(r) => Holds(c) /\ call[c].op = r.op
    PROVE  IndInv'
  <1>1. journal \in [Write -> Journal] /\ \A k \in Write : KeySound(k)
    BY Pointwise DEF TypeOK
  <1>2. ASSUME NEW k \in Write
        PROVE  KeySound(k)'
    BY <1>1 DEF KeySound
  <1>3. QED
    BY <1>1, <1>2, JournalStep

-------------------------------------------------------------------------------
(* The records calls are set to, and the types of breakers. *)

\* A call that has left is typed, sound, and holds nothing.
LEMMA NoCallFacts ==
    /\ NoCall \in CallState /\ Sound(NoCall) /\ ~Holder(NoCall)
    /\ NoCall.op \notin Op
  <1>1. NoCall \in CallState
    BY BoundAssumption DEF NoCall, CallState, Data
  <1>2. NoCall.pc = "idle" /\ NoCall.op \notin Op
    BY OpAssumption DEF NoCall
  <1>3. ~Holder(NoCall)
    BY <1>2 DEF Holder
  <1>4. Sound(NoCall)
    BY <1>2, <1>3 DEF Sound, Op
  <1>5. QED
    BY <1>1, <1>2, <1>3, <1>4

\* The record Answer leaves.
Told(c, r) == [NoCall EXCEPT !.pc = "done", !.gate = call[c].gate,
                             !.op = call[c].op, !.got = call[c].got,
                             !.reply = r]

\* It is typed, holds nothing, and carries the reply.
LEMMA ToldFacts ==
    ASSUME TypeOK, NEW c \in Call, NEW r \in Replies
    PROVE  /\ Told(c, r) \in CallState /\ ~Holder(Told(c, r))
           /\ Told(c, r).pc = "done" /\ Told(c, r).op = call[c].op
           /\ Told(c, r).gate = call[c].gate /\ Told(c, r).reply = r
           /\ Told(c, r).last = "none"
  <1>1. call[c] \in CallState
    BY DEF TypeOK
  <1>2. /\ call[c].gate \in Gate \cup {None} /\ call[c].op \in Op \cup {None}
        /\ call[c].got \in Data
    BY <1>1 DEF CallState
  <1>3. /\ Told(c, r).pc = "done" /\ Told(c, r).op = call[c].op
        /\ Told(c, r).gate = call[c].gate /\ Told(c, r).reply = r
        /\ Told(c, r).last = "none"
    BY DEF Told, NoCall
  <1>4. Told(c, r) \in CallState
    <2>1. NoCall \in CallState
      BY NoCallFacts
    <2>2. QED
      BY <1>2, <2>1 DEF Told, CallState
  <1>5. QED
    BY <1>3, <1>4 DEF Holder

\* A reply that promises nothing is sound.
LEMMA ToldSound ==
    ASSUME IndInv, NEW c \in Call, NEW r \in Replies, Busy(c),
           r \notin {"ok", "replayed", "unrecorded", "refused", "prior"}
    PROVE  Sound(Told(c, r))
  <1>1. TypeOK /\ Sound(call[c])
    BY Pointwise
  <1>2. /\ Told(c, r).pc = "done" /\ Told(c, r).op = call[c].op
        /\ Told(c, r).gate = call[c].gate /\ Told(c, r).reply = r
        /\ Told(c, r).last = "none" /\ ~Holder(Told(c, r))
    BY <1>1, ToldFacts
  <1>3. call[c].gate \in Gate /\ call[c].op \in Op
    BY <1>1 DEF Sound, Busy
  <1>4. QED
    BY <1>2, <1>3 DEF Sound

\* Every way a breaker changes leaves it a breaker.
LEMMA BreakerTyped ==
    ASSUME TypeOK, NEW c \in Call, call[c].gate \in Gate, call[c].op \in Op,
           \/ \E b \in Breaker : SetBreaker(c, b)
           \/ SetBreaker(c, Shut)
           \/ \E transport \in BOOLEAN : Count(c, transport)
           \/ UNCHANGED breaker
    PROVE  breaker' \in [Gate -> [Tool -> Breaker]]
  <1>1. ToolOf[call[c].op] \in Tool
    BY OpAssumption
  <1>2. Shut \in Breaker
    BY BoundAssumption DEF Shut, Breaker
  <1>3. ASSUME NEW b \in Breaker, SetBreaker(c, b)
        PROVE  breaker' \in [Gate -> [Tool -> Breaker]]
    BY <1>1, <1>3 DEF TypeOK, SetBreaker
  <1>4. ASSUME NEW transport \in BOOLEAN, Count(c, transport)
        PROVE  breaker' \in [Gate -> [Tool -> Breaker]]
    <2> DEFINE b == breaker[call[c].gate][ToolOf[call[c].op]]
               n == IF b.fails < Threshold THEN b.fails + 1 ELSE b.fails
               e == [fails |-> n,
                     mode |-> IF n = Threshold THEN "open" ELSE b.mode]
    <2>1. b \in Breaker
      BY <1>1 DEF TypeOK
    <2>2. e \in Breaker
      <3>1. b.fails \in 0 .. Threshold /\ b.mode \in {"closed", "open", "cooled"}
        BY <2>1 DEF Breaker
      <3>2. n \in 0 .. Threshold
        BY <3>1, BoundAssumption
      <3>3. QED
        BY <3>1, <3>2 DEF Breaker
    <2>3. SetBreaker(c, e) \/ UNCHANGED breaker
      BY <1>4 DEF Count
    <2>4. QED
      BY <1>3, <2>2, <2>3 DEF TypeOK
  <1>5. QED
    BY <1>2, <1>3, <1>4 DEF TypeOK

\* What is known of a call that is about to move.
LEMMA CallFacts ==
    ASSUME IndInv, NEW c \in Call
    PROVE  /\ TypeOK /\ call[c] \in CallState /\ Sound(call[c])
           /\ Busy(c) => call[c].gate \in Gate /\ call[c].op \in Op
           /\ breaker \in [Gate -> [Tool -> Breaker]]
           /\ cache \in [Gate -> [Read -> Data]]
  <1>1. TypeOK /\ Sound(call[c])
    BY Pointwise
  <1>2. QED
    BY <1>1 DEF TypeOK, Sound, Busy

-------------------------------------------------------------------------------
(* The moves that leave journal, adapter and world alone. *)

\* A read that is served from the cache.
LEMMA ServeCachedInv ==
    ASSUME IndInv, NEW c \in Call, NEW g \in Gate, NEW k \in Read,
           ServeCached(c, g, k)
    PROVE  IndInv'
  <1> DEFINE r == [NoCall EXCEPT !.pc = "done", !.gate = g, !.op = k,
                                 !.got = cache[g][k], !.reply = "hit"]
  <1>1. TypeOK /\ NoCall \in CallState /\ k \in Op /\ k \notin Write
    BY CallFacts, NoCallFacts, OpAssumption DEF Op
  <1>2. cache[g][k] \in Data
    BY <1>1 DEF TypeOK
  <1>3. r \in CallState
    BY <1>1, <1>2 DEF CallState, Replies
  <1>4. r.pc = "done" /\ r.gate = g /\ r.op = k
    BY <1>1 DEF NoCall
  <1>5. SetCall(c, r)
    BY DEF ServeCached
  <1> HIDE DEF r
  <1>6. Sound(r) /\ ~Holder(r)
    BY <1>1, <1>4 DEF Sound, Holder
  <1>7. QED
    BY <1>1, <1>3, <1>5, <1>6, QuietStep DEF ServeCached, TypeOK

\* The cache that expires under a read keeps its type.
LEMMA LookAsideTyped ==
    ASSUME TypeOK, NEW g \in Gate, NEW o \in Op, LookAside(g, o)
    PROVE  cache' \in [Gate -> [Read -> Data]]
  BY DEF LookAside, TypeOK, Data

\* A call that meets an open breaker.
LEMMA ShortCircuitInv ==
    ASSUME IndInv, NEW c \in Call, NEW g \in Gate, NEW o \in Op,
           ShortCircuit(c, g, o)
    PROVE  IndInv'
  <1> DEFINE r == [NoCall EXCEPT !.pc = "done", !.gate = g, !.op = o,
                                 !.reply = "open"]
  <1>1. TypeOK /\ NoCall \in CallState
    BY CallFacts, NoCallFacts
  <1>2. r \in CallState
    BY <1>1 DEF CallState, Replies
  <1>3. /\ r.pc = "done" /\ r.gate = g /\ r.op = o /\ r.reply = "open"
        /\ r.last = "none"
    BY <1>1 DEF NoCall
  <1>4. SetCall(c, r)
    BY DEF ShortCircuit
  <1> HIDE DEF r
  <1>5. Sound(r) /\ ~Holder(r)
    BY <1>3 DEF Sound, Holder
  <1>6. cache' \in [Gate -> [Read -> Data]]
    BY <1>1, LookAsideTyped DEF ShortCircuit
  <1>7. QED
    BY <1>1, <1>2, <1>4, <1>5, <1>6, QuietStep DEF ShortCircuit, TypeOK

\* A call that is let in holds nothing yet.
LEMMA AdmitInv ==
    ASSUME IndInv, NEW c \in Call, NEW g \in Gate, NEW o \in Op,
           Admit(c, g, o)
    PROVE  IndInv'
  <1> DEFINE r == [NoCall EXCEPT !.pc = IF o \in Write THEN "reserve"
                                                       ELSE "queue",
                                 !.gate = g, !.op = o, !.try = 1]
  <1>1. TypeOK /\ NoCall \in CallState
    BY CallFacts, NoCallFacts
  <1>2. r \in CallState
    <2> DEFINE q == IF o \in Write THEN "reserve" ELSE "queue"
    <2>1. q \in {"reserve", "queue"} /\ 1 \in 0 .. Attempts
      BY BoundAssumption
    <2>2. r = [NoCall EXCEPT !.pc = q, !.gate = g, !.op = o, !.try = 1]
      OBVIOUS
    <2> HIDE DEF q, r
    <2>3. QED
      BY <1>1, <2>1, <2>2 DEF CallState
  <1>3. /\ r.pc = IF o \in Write THEN "reserve" ELSE "queue"
        /\ r.gate = g /\ r.op = o /\ r.reply = "none"
        /\ r.last = "none"
    BY <1>1 DEF NoCall
  <1>4. SetCall(c, r)
    BY DEF Admit
  <1> HIDE DEF r
  <1>5. Sound(r) /\ ~Holder(r)
    BY <1>3 DEF Sound, Holder
  <1>6. cache' \in [Gate -> [Read -> Data]]
    BY <1>1, LookAsideTyped DEF Admit
  <1>7. breaker' \in [Gate -> [Tool -> Breaker]]
    <2>1. ToolOf[o] \in Tool /\ Shut \in Breaker
      BY OpAssumption, BoundAssumption DEF Shut, Breaker
    <2>2. QED
      BY <1>1, <2>1 DEF Admit, TypeOK
  <1>8. QED
    BY <1>1, <1>2, <1>4, <1>5, <1>6, <1>7, QuietStep DEF Admit

\* A call that gives up or is told nothing it can rely on.
LEMMA LeaveInv ==
    ASSUME IndInv, NEW c \in Call, Leave(c),
           UNCHANGED <<journal, runs, effect>>,
           breaker' \in [Gate -> [Tool -> Breaker]],
           cache' \in [Gate -> [Read -> Data]]
    PROVE  IndInv'
  BY NoCallFacts, QuietStep DEF Leave

\* A reply that promises nothing, and touches nothing.
LEMMA AnswerInv ==
    ASSUME IndInv, NEW c \in Call, NEW r \in Replies, Busy(c), Answer(c, r),
           Sound(Told(c, r)),
           UNCHANGED <<journal, runs, effect>>,
           breaker' \in [Gate -> [Tool -> Breaker]],
           cache' \in [Gate -> [Read -> Data]]
    PROVE  IndInv'
  <1>1. Told(c, r) \in CallState /\ ~Holder(Told(c, r))
    BY CallFacts, ToldFacts
  <1>2. SetCall(c, Told(c, r))
    BY DEF Answer, Told
  <1>3. QED
    BY <1>1, <1>2, QuietStep

\* The journal fails before anything is reserved.
LEMMA ReserveFaultInv ==
    ASSUME IndInv, NEW c \in Call, ReserveFault(c)
    PROVE  IndInv'
  <1>1. Busy(c)
    BY DEF ReserveFault, Busy
  <1>2. "storeDown" \in Replies /\ Sound(Told(c, "storeDown"))
    BY <1>1, ToldSound DEF Replies
  <1>3. QED
    BY <1>1, <1>2, CallFacts, LeaveInv, AnswerInv DEF ReserveFault

\* A read enters its adapter.
LEMMA FetchInv ==
    ASSUME IndInv, NEW c \in Call, Fetch(c)
    PROVE  IndInv'
  <1> DEFINE r == [call[c] EXCEPT !.got = "current"]
  <1>1. call[c] \in CallState /\ Sound(call[c])
    BY CallFacts
  <1>2. r \in CallState
    BY <1>1 DEF CallState, Data
  <1>3. r.pc = call[c].pc /\ r.gate = call[c].gate /\ r.op = call[c].op
    BY <1>1 DEF CallState
  <1>4. SetCall(c, r)
    BY DEF Fetch
  <1> HIDE DEF r
  <1>5. Sound(r) /\ ~Holder(r)
    BY <1>1, <1>3 DEF Fetch, IsWrite, Sound, Holder
  <1>6. QED
    BY <1>2, <1>4, <1>5, CallFacts, QuietStep DEF Fetch

\* A read is told what it likes: nothing depends on it.
LEMMA ReadTold ==
    ASSUME IndInv, NEW c \in Call, NEW r \in Replies, Busy(c), ~IsWrite(c)
    PROVE  Sound(Told(c, r))
  <1>1. /\ Told(c, r).pc = "done" /\ Told(c, r).op = call[c].op
        /\ Told(c, r).gate = call[c].gate /\ ~Holder(Told(c, r))
    BY CallFacts, ToldFacts
  <1>2. QED
    BY <1>1, CallFacts DEF IsWrite, Sound

\* A read's adapter returns.
LEMMA ReadEndsInv ==
    ASSUME IndInv, NEW c \in Call, ReadOk(c) \/ ReadInvalid(c)
    PROVE  IndInv'
  <1>1. Busy(c) /\ ~IsWrite(c)
    BY DEF ReadOk, ReadInvalid, Busy
  <1>2. call[c].gate \in Gate /\ call[c].op \in Op /\ TypeOK
    BY <1>1, CallFacts
  <1>3. "ok" \in Replies /\ "invalid" \in Replies
    BY DEF Replies
  <1>4. breaker' \in [Gate -> [Tool -> Breaker]]
    BY <1>2, BreakerTyped DEF ReadOk, ReadInvalid
  <1>5. cache' \in [Gate -> [Read -> Data]]
    <2>1. call[c].got \in Data
      BY CallFacts DEF CallState
    <2>2. cache \in [Gate -> [Read -> Data]] /\ call[c].op \in Read
      BY <1>1, <1>2 DEF TypeOK, IsWrite, Op
    <2>3. CASE ReadOk(c)
      <3>1. cache' = [cache EXCEPT ![call[c].gate][call[c].op] = call[c].got]
        BY <2>3 DEF ReadOk
      <3>2. QED
        BY <1>2, <2>1, <2>2, <3>1
    <2>4. CASE ReadInvalid(c)
      BY <2>2, <2>4 DEF ReadInvalid
    <2>5. QED
      BY <2>3, <2>4
  <1>6. CASE ReadOk(c)
    BY <1>1, <1>3, <1>4, <1>5, <1>6, ReadTold, AnswerInv DEF ReadOk
  <1>7. CASE ReadInvalid(c)
    BY <1>1, <1>3, <1>4, <1>5, <1>7, ReadTold, AnswerInv DEF ReadInvalid
  <1>8. QED
    BY <1>6, <1>7

\* A read's adapter raises or times out, and is retried or told.
LEMMA ReadFailsInv ==
    ASSUME IndInv, NEW c \in Call, NEW t \in BOOLEAN, NEW retryable \in BOOLEAN,
           ReadFails(c, t, retryable)
    PROVE  IndInv'
  <1> DEFINE r == [call[c] EXCEPT !.pc = "queue", !.try = @ + 1, !.got = "none"]
             again == retryable /\ call[c].try < Attempts
  <1>1. Busy(c) /\ ~IsWrite(c)
    BY DEF ReadFails, Busy
  <1>2. call[c].gate \in Gate /\ call[c].op \in Op /\ TypeOK
    BY <1>1, CallFacts
  <1>3. call[c] \in CallState /\ call[c].try \in 0 .. Attempts
    BY CallFacts DEF CallState
  <1>4. CASE again
    <2>1. call[c].try + 1 \in 0 .. Attempts
      BY <1>3, <1>4, BoundAssumption
    <2>2. r \in CallState
      <3> DEFINE m == call[c].try + 1
      <3>1. r = [call[c] EXCEPT !.pc = "queue", !.try = m, !.got = "none"]
        OBVIOUS
      <3>2. m \in 0 .. Attempts
        BY <2>1
      <3> HIDE DEF m, r
      <3>3. QED
        BY <1>3, <3>1, <3>2 DEF CallState, Data
    <2>3. r.pc = "queue" /\ r.gate = call[c].gate /\ r.op = call[c].op
      BY <1>3 DEF CallState
    <2>4. SetCall(c, r) /\ UNCHANGED <<journal, runs, effect, breaker, cache>>
      BY <1>4 DEF ReadFails
    <2> HIDE DEF r
    <2>5. Sound(r) /\ ~Holder(r)
      BY <1>1, <1>2, <2>3 DEF IsWrite, Sound, Holder
    <2>6. QED
      BY <2>2, <2>4, <2>5, CallFacts, QuietStep
  <1>5. CASE ~again
    <2>1. /\ Count(c, t) /\ Answer(c, "failed")
          /\ UNCHANGED <<journal, runs, effect, cache>>
      BY <1>5 DEF ReadFails
    <2>2. breaker' \in [Gate -> [Tool -> Breaker]]
      BY <1>2, <2>1, BreakerTyped
    <2>3. "failed" \in Replies
      BY DEF Replies
    <2>4. QED
      BY <1>1, <1>2, <2>1, <2>2, <2>3, ReadTold, AnswerInv DEF TypeOK
  <1>6. QED
    BY <1>4, <1>5

\* The wrapper of a write raises: its adapter may still be at work.
LEMMA WriteRaisesInv ==
    ASSUME IndInv, NEW c \in Call, NEW t \in BOOLEAN, WriteRaises(c, t)
    PROVE  IndInv'
  <1> DEFINE r == [call[c] EXCEPT !.pc = "close", !.last = "raised"]
  <1>1. Busy(c) /\ Holds(c) /\ call[c].op \in Write
    BY DEF WriteRaises, Busy, Holds, IsWrite
  <1>2. /\ TypeOK /\ call[c] \in CallState /\ Sound(call[c])
        /\ call[c].gate \in Gate /\ call[c].op \in Op
    BY <1>1, CallFacts
  <1>3. r \in CallState
    BY <1>2 DEF CallState
  <1>4. /\ r.pc = "close" /\ r.gate = call[c].gate /\ r.op = call[c].op
        /\ r.last = "raised" /\ r.reply = call[c].reply
    BY <1>2 DEF CallState
  <1>5. SetCall(c, r) /\ UNCHANGED <<journal, runs, effect, cache>>
    BY DEF WriteRaises
  <1> HIDE DEF r
  <1>6. journal[r.op] # "none"
    BY <1>1, <1>2, <1>4 DEF Sound, Holder, Holds
  <1>7. Sound(r)
    BY <1>1, <1>2, <1>4, <1>6 DEF Sound, Holder
  <1>8. breaker' \in [Gate -> [Tool -> Breaker]]
    BY <1>2, BreakerTyped DEF WriteRaises
  <1>9. QED
    BY <1>1, <1>2, <1>3, <1>4, <1>5, <1>7, <1>8, QuietStep DEF TypeOK

\* A call returns to its caller.
LEMMA ReturnInv ==
    ASSUME IndInv, NEW c \in Call, Return(c)
    PROVE  IndInv'
  BY CallFacts, LeaveInv DEF Return

\* A caller gives up: an entered adapter goes on in its thread.
LEMMA CancelInv ==
    ASSUME IndInv, NEW c \in Call, Cancel(c)
    PROVE  IndInv'
  <1> DEFINE r == [call[c] EXCEPT !.pc = "settle", !.last = "unsure",
                                  !.cut = TRUE]
             q == [call[c] EXCEPT !.cut = TRUE]
  <1>1. /\ TypeOK /\ call[c] \in CallState /\ Sound(call[c])
        /\ call[c].gate \in Gate /\ call[c].op \in Op
    BY CallFacts DEF Cancel, Busy
  <1>2. /\ UNCHANGED <<journal, runs, effect>>
        /\ breaker' \in [Gate -> [Tool -> Breaker]]
        /\ cache' \in [Gate -> [Read -> Data]]
    BY CallFacts DEF Cancel
  <1>3. CASE ~IsWrite(c)
    BY <1>2, <1>3, LeaveInv DEF Cancel
  <1>4. CASE IsWrite(c) /\ call[c].pc \in {"queue", "run"}
    <2>1. r \in CallState
      BY <1>1 DEF CallState, Answers
    <2>2. /\ r.pc = "settle" /\ r.gate = call[c].gate /\ r.op = call[c].op
          /\ r.last = "unsure" /\ r.reply = call[c].reply
      BY <1>1 DEF CallState
    <2>3. SetCall(c, r)
      BY <1>4 DEF Cancel
    <2> HIDE DEF r
    <2>4. Holds(c) /\ call[c].op \in Write
      BY <1>4 DEF Holds, IsWrite
    <2>5. journal[r.op] # "none"
      BY <1>1, <2>2, <2>4 DEF Sound, Holder, Holds
    <2>6. Sound(r)
      BY <1>1, <2>2, <2>4, <2>5 DEF Sound, Holder
    <2>7. QED
      BY <1>2, <2>1, <2>2, <2>3, <2>4, <2>6, QuietStep
  <1>5. CASE IsWrite(c) /\ call[c].pc \notin {"queue", "run"}
    <2>1. q \in CallState
      BY <1>1 DEF CallState
    <2>2. /\ q.pc = call[c].pc /\ q.gate = call[c].gate /\ q.op = call[c].op
          /\ q.last = call[c].last /\ q.reply = call[c].reply
      BY <1>1 DEF CallState
    <2>3. SetCall(c, q)
      BY <1>5 DEF Cancel
    <2> HIDE DEF q
    <2>4. Sound(q)
      BY <1>1, <2>2 DEF Sound, Holder
    <2>5. Holder(q) => Holds(c) /\ call[c].op = q.op
      BY <2>2 DEF Holder, Holds, IsWrite
    <2>6. QED
      BY <1>2, <2>1, <2>3, <2>4, <2>5, QuietStep
  <1>6. QED
    BY <1>3, <1>4, <1>5

-------------------------------------------------------------------------------
(* What the journal is told. *)

\* Record closes the row it is given, or none.
LEMMA RecordTyped ==
    ASSUME TypeOK, NEW k \in Write, NEW v \in Journal, Record(k, v)
    PROVE  /\ journal' \in [Write -> Journal]
           /\ \A j \in Write : \/ journal'[j] = journal[j]
                               \/ j = k /\ journal'[j] = v
  <1>1. journal \in [Write -> Journal]
    BY DEF TypeOK
  <1>2. CASE Open(k)
    BY <1>1, <1>2 DEF Record
  <1>3. CASE ~Open(k)
    BY <1>1, <1>3 DEF Record
  <1>4. QED
    BY <1>2, <1>3

\* A row that is closed with a true verdict leaves every key sound.
LEMMA RecordSound ==
    ASSUME IndInv, NEW k \in Write, NEW v \in Journal, Record(k, v),
           UNCHANGED <<runs, effect>>, v # "none",
           v = "succeeded" => effect[k] = "applied",
           v = "failed" => effect[k] = "refused"
    PROVE  /\ journal' \in [Write -> Journal]
           /\ \A j \in Write : /\ journal[j] # "none" => journal'[j] # "none"
                               /\ KeySound(j)'
  <1>1. TypeOK /\ \A j \in Write : KeySound(j)
    BY Pointwise
  <1>2. /\ journal' \in [Write -> Journal]
        /\ \A j \in Write : \/ journal'[j] = journal[j]
                            \/ j = k /\ journal'[j] = v
    BY <1>1, RecordTyped
  <1>3. ASSUME NEW j \in Write
        PROVE  /\ journal[j] # "none" => journal'[j] # "none"
               /\ KeySound(j)'
    BY <1>1, <1>2 DEF KeySound
  <1>4. QED
    BY <1>2, <1>3

\* After the verdict: whatever the call is told is as true as the verdict.
LEMMA ProceedMoves ==
    ASSUME IndInv, NEW c \in Call, NEW recorded \in BOOLEAN,
           call[c].pc = "settle", Proceed(c, recorded)
    PROVE  /\ breaker' \in [Gate -> [Tool -> Breaker]]
           /\ \E r \in CallState :
                 /\ SetCall(c, r) /\ Sound(r)
                 /\ Holder(r) => Holds(c) /\ call[c].op = r.op
  <1>1. /\ TypeOK /\ call[c] \in CallState /\ Sound(call[c]) /\ Busy(c)
        /\ call[c].gate \in Gate /\ call[c].op \in Op /\ call[c].op \in Write
        /\ Holds(c)
    <2>1. Busy(c) /\ Sound(call[c])
      BY CallFacts DEF Busy
    <2>2. call[c].op \in Write
      BY <2>1 DEF Sound
    <2>3. QED
      BY <2>1, <2>2, CallFacts DEF Holds, IsWrite
  <1>2. /\ call[c].last = "ok" => effect[call[c].op] = "applied"
        /\ journal[call[c].op] # "none"
    BY <1>1 DEF Sound, Holder
  <1>3. ASSUME NEW a \in Replies, Answer(c, a), Sound(Told(c, a))
        PROVE  \E r \in CallState :
                  /\ SetCall(c, r) /\ Sound(r)
                  /\ Holder(r) => Holds(c) /\ call[c].op = r.op
    <2>1. Told(c, a) \in CallState /\ ~Holder(Told(c, a))
      BY <1>1, ToldFacts
    <2>2. SetCall(c, Told(c, a))
      BY <1>3 DEF Answer, Told
    <2>3. QED
      BY <1>3, <2>1, <2>2
  <1>4. CASE call[c].cut
    <2>1. Leave(c) /\ UNCHANGED breaker
      BY <1>4 DEF Proceed
    <2>2. SetCall(c, NoCall)
      BY <2>1 DEF Leave
    <2>3. QED
      BY <1>1, <2>1, <2>2, NoCallFacts, CallFacts
  <1>5. CASE ~call[c].cut /\ call[c].last = "ok"
    <2>1. \/ SetBreaker(c, Shut) /\ Answer(c, "ok")
          \/ Answer(c, "unrecorded") /\ UNCHANGED breaker
      BY <1>5 DEF Proceed
    <2>2. breaker' \in [Gate -> [Tool -> Breaker]]
      BY <1>1, <2>1, BreakerTyped
    <2>3. ASSUME NEW a \in {"ok", "unrecorded"}
          PROVE  a \in Replies /\ Sound(Told(c, a))
      <3>1. a \in Replies
        BY DEF Replies
      <3>2. /\ Told(c, a).pc = "done" /\ Told(c, a).op = call[c].op
            /\ Told(c, a).gate = call[c].gate /\ Told(c, a).reply = a
            /\ Told(c, a).last = "none" /\ ~Holder(Told(c, a))
        BY <1>1, <3>1, ToldFacts
      <3>3. QED
        BY <1>1, <1>2, <1>5, <3>1, <3>2 DEF Sound
    <2>4. QED
      BY <1>3, <2>1, <2>2, <2>3
  <1>6. CASE ~call[c].cut /\ call[c].last = "invalid"
    <2>1. Answer(c, "invalid") /\ UNCHANGED breaker
      BY <1>6 DEF Proceed
    <2>2. "invalid" \in Replies /\ Sound(Told(c, "invalid"))
      BY <1>1, ToldSound DEF Replies
    <2>3. QED
      BY <1>3, <2>1, <2>2, CallFacts
  <1>7. CASE ~call[c].cut /\ call[c].last \notin {"ok", "invalid"}
    <2> DEFINE r == [call[c] EXCEPT !.pc = "close"]
    <2>1. /\ \E transport \in BOOLEAN : Count(c, transport)
          /\ SetCall(c, r)
      BY <1>7 DEF Proceed
    <2>2. r \in CallState
      BY <1>1 DEF CallState
    <2>3. /\ r.pc = "close" /\ r.gate = call[c].gate /\ r.op = call[c].op
          /\ r.last = call[c].last /\ r.reply = call[c].reply
      BY <1>1 DEF CallState
    <2> HIDE DEF r
    <2>4. Sound(r) /\ (Holder(r) => Holds(c) /\ call[c].op = r.op)
      BY <1>1, <1>2, <2>3 DEF Sound, Holder
    <2>5. breaker' \in [Gate -> [Tool -> Breaker]]
      BY <1>1, <2>1, BreakerTyped
    <2>6. QED
      BY <2>1, <2>2, <2>4, <2>5
  <1>8. QED
    BY <1>4, <1>5, <1>6, <1>7

\* What a call becomes when its row is closed is sound and holds nothing.
LEMMA ClosingMoves ==
    ASSUME IndInv, NEW c \in Call, call[c].pc = "close", Closing(c)
    PROVE  \E r \in CallState : SetCall(c, r) /\ Sound(r) /\ ~Holder(r)
  <1>1. /\ TypeOK /\ call[c] \in CallState /\ Sound(call[c]) /\ Busy(c)
        /\ call[c].gate \in Gate /\ call[c].op \in Op /\ call[c].op \in Write
    <2>1. Busy(c) /\ Sound(call[c])
      BY CallFacts DEF Busy
    <2>2. call[c].op \in Write
      BY <2>1 DEF Sound
    <2>3. QED
      BY <2>1, <2>2, CallFacts
  <1>2. CASE call[c].cut
    BY <1>2, NoCallFacts DEF Closing, Leave
  <1>3. CASE ~call[c].cut
    <2> DEFINE a == IF call[c].last = "refused" THEN "refused" ELSE "failed"
    <2>1. a \in Replies /\ Answer(c, a)
      BY <1>3 DEF Closing, Replies
    <2>2. a = "refused" => effect[call[c].op] = "refused"
      BY <1>1 DEF Sound
    <2>3. a \in {"refused", "failed"}
      OBVIOUS
    <2> HIDE DEF a
    <2>4. /\ Told(c, a).pc = "done" /\ Told(c, a).op = call[c].op
          /\ Told(c, a).gate = call[c].gate /\ Told(c, a).reply = a
          /\ ~Holder(Told(c, a)) /\ Told(c, a) \in CallState
          /\ Told(c, a).last = "none"
      BY <1>1, <2>1, ToldFacts
    <2>5. Sound(Told(c, a))
      BY <1>1, <2>2, <2>3, <2>4 DEF Sound
    <2>6. SetCall(c, Told(c, a))
      BY <2>1 DEF Answer, Told
    <2>7. QED
      BY <2>4, <2>5, <2>6
  <1>4. QED
    BY <1>2, <1>3

\* A settled call records what its adapter answered.
LEMMA SettleInv ==
    ASSUME IndInv, NEW c \in Call, Settle(c)
    PROVE  IndInv'
  <1> DEFINE v == Verdict(call[c].last)
  <1>1. /\ TypeOK /\ Sound(call[c]) /\ call[c].pc = "settle"
        /\ call[c].op \in Write
    BY CallFacts DEF Settle, Sound
  <1>2. /\ v \in {"succeeded", "failed", "indeterminate"}
        /\ v = "succeeded" => call[c].last = "ok"
        /\ v = "failed" => call[c].last = "refused"
    BY DEF Verdict
  <1>3. Record(call[c].op, v) /\ UNCHANGED <<runs, effect, cache>>
    BY DEF Settle
  <1> HIDE DEF v
  <1>4. /\ v \in Journal /\ v # "none"
        /\ v = "succeeded" => effect[call[c].op] = "applied"
        /\ v = "failed" => effect[call[c].op] = "refused"
    BY <1>1, <1>2 DEF Sound, Journal
  <1>5. /\ journal' \in [Write -> Journal]
        /\ \A j \in Write : /\ journal[j] # "none" => journal'[j] # "none"
                            /\ KeySound(j)'
    BY <1>1, <1>3, <1>4, RecordSound
  <1>6. /\ breaker' \in [Gate -> [Tool -> Breaker]]
        /\ \E r \in CallState :
              /\ SetCall(c, r) /\ Sound(r)
              /\ Holder(r) => Holds(c) /\ call[c].op = r.op
    BY <1>1, ProceedMoves DEF Settle
  <1>7. QED
    BY <1>3, <1>5, <1>6, CallFacts, JournalStep

\* The journal fails when a result is recorded: the row stays open.
LEMMA SettleFaultInv ==
    ASSUME IndInv, NEW c \in Call, SettleFault(c)
    PROVE  IndInv'
  <1>1. /\ breaker' \in [Gate -> [Tool -> Breaker]]
        /\ \E r \in CallState :
              /\ SetCall(c, r) /\ Sound(r)
              /\ Holder(r) => Holds(c) /\ call[c].op = r.op
    BY ProceedMoves DEF SettleFault
  <1>2. QED
    BY <1>1, CallFacts, QuietStep DEF SettleFault

\* A call that knows no result closes its row as indeterminate.
LEMMA CloseInv ==
    ASSUME IndInv, NEW c \in Call, Close(c)
    PROVE  IndInv'
  <1>1. call[c].op \in Write
    BY CallFacts DEF Close, Sound
  <1>2. /\ journal' \in [Write -> Journal]
        /\ \A j \in Write : /\ journal[j] # "none" => journal'[j] # "none"
                            /\ KeySound(j)'
    <2>1. "indeterminate" \in Journal
      BY DEF Journal
    <2>2. QED
      BY <1>1, <2>1, RecordSound DEF Close
  <1>3. \E r \in CallState : SetCall(c, r) /\ Sound(r) /\ ~Holder(r)
    BY ClosingMoves DEF Close
  <1>4. QED
    BY <1>2, <1>3, CallFacts, JournalStep DEF Close

\* The journal fails at that too.
LEMMA CloseFaultInv ==
    ASSUME IndInv, NEW c \in Call, CloseFault(c)
    PROVE  IndInv'
  <1>1. \E r \in CallState : SetCall(c, r) /\ Sound(r) /\ ~Holder(r)
    BY ClosingMoves DEF CloseFault
  <1>2. QED
    BY <1>1, CallFacts, QuietStep DEF CloseFault

\* A call that finds the key taken is told what the row says, and a stale
\* row is closed as indeterminate.
LEMMA TakenInv ==
    ASSUME IndInv, NEW c \in Call, Taken(c)
    PROVE  IndInv'
  <1> DEFINE k == call[c].op
             j == IF journal[k] = "stale" THEN "indeterminate" ELSE journal[k]
  <1>1. /\ TypeOK /\ Sound(call[c]) /\ Busy(c)
        /\ call[c].gate \in Gate /\ call[c].op \in Op /\ k \in Write
    <2>1. Busy(c) /\ Sound(call[c]) /\ call[c].pc = "reserve"
      BY CallFacts DEF Taken, Busy
    <2>2. QED
      BY <2>1, CallFacts DEF Sound
  <1>2. /\ journal[k] # "none" /\ journal[k] \in Journal /\ KeySound(k)
        /\ journal' = [journal EXCEPT ![k] = j]
    BY <1>1, Pointwise DEF Taken, TypeOK
  <1>3. /\ j \in Journal /\ j # "none"
        /\ j = "succeeded" => effect[k] = "applied"
        /\ j = "failed" => effect[k] = "refused"
    BY <1>2 DEF Journal, KeySound
  <1>4. /\ IF call[c].cut THEN Leave(c) ELSE Answer(c, ReplyTo(j))
        /\ UNCHANGED <<runs, effect, breaker, cache>>
    BY DEF Taken
  <1> HIDE DEF j
  <1>5. /\ journal' \in [Write -> Journal]
        /\ \A i \in Write : /\ journal[i] # "none" => journal'[i] # "none"
                            /\ KeySound(i)'
    <2>1. /\ journal \in [Write -> Journal]
          /\ \A i \in Write : KeySound(i)
      BY Pointwise DEF TypeOK
    <2>2. /\ journal' \in [Write -> Journal]
          /\ \A i \in Write : journal'[i] = IF i = k THEN j ELSE journal[i]
      BY <1>1, <1>2, <1>3, <2>1
    <2>3. ASSUME NEW i \in Write
          PROVE  /\ journal[i] # "none" => journal'[i] # "none"
                 /\ KeySound(i)'
      <3>1. UNCHANGED <<runs, effect>>
        BY <1>4
      <3>2. CASE i = k
        BY <1>2, <1>3, <2>2, <3>1, <3>2 DEF KeySound
      <3>3. CASE i # k
        BY <2>1, <2>2, <3>1, <3>3 DEF KeySound
      <3>4. QED
        BY <3>2, <3>3
    <2>4. QED
      BY <2>2, <2>3
  <1>6. \E r \in CallState : SetCall(c, r) /\ Sound(r) /\ ~Holder(r)
    <2>1. CASE call[c].cut
      BY <1>4, <2>1, NoCallFacts DEF Leave
    <2>2. CASE ~call[c].cut
      <3> DEFINE a == ReplyTo(j)
      <3>1. /\ a \in {"replayed", "prior", "unknown", "busy"}
            /\ a = "replayed" => effect[k] = "applied"
            /\ a = "prior" => effect[k] = "refused"
        BY <1>3 DEF ReplyTo
      <3>2. Answer(c, a)
        BY <1>4, <2>2
      <3> HIDE DEF a
      <3>3. a \in Replies
        BY <3>1 DEF Replies
      <3>4. /\ Told(c, a).pc = "done" /\ Told(c, a).op = call[c].op
            /\ Told(c, a).gate = call[c].gate /\ Told(c, a).reply = a
            /\ ~Holder(Told(c, a)) /\ Told(c, a) \in CallState
            /\ Told(c, a).last = "none"
        BY <1>1, <3>3, ToldFacts
      <3>5. Sound(Told(c, a))
        BY <1>1, <3>1, <3>4 DEF Sound
      <3>6. SetCall(c, Told(c, a))
        BY <3>2 DEF Answer, Told
      <3>7. QED
        BY <3>4, <3>5, <3>6
    <2>3. QED
      BY <2>1, <2>2
  <1>7. QED
    BY <1>4, <1>5, <1>6, CallFacts, JournalStep

-------------------------------------------------------------------------------
(* The moves that take a key, start its adapter, or see it answer. *)

\* A call takes a key nobody has reserved.
LEMMA AcquireInv ==
    ASSUME IndInv, NEW c \in Call, Acquire(c)
    PROVE  IndInv'
  <1> DEFINE k == call[c].op
             q == [call[c] EXCEPT !.pc = "queue"]
  <1>1. /\ TypeOK /\ call[c] \in CallState /\ Sound(call[c]) /\ Busy(c)
        /\ call[c].gate \in Gate /\ call[c].op \in Op /\ k \in Write
        /\ call[c].pc = "reserve"
    <2>1. Busy(c) /\ Sound(call[c]) /\ call[c].pc = "reserve"
      BY CallFacts DEF Acquire, Busy
    <2>2. QED
      BY <2>1, CallFacts DEF Sound
  <1>2. /\ \A i \in Write : KeySound(i)
        /\ journal \in [Write -> Journal]
    BY Pointwise DEF TypeOK
  <1>3. journal[k] = "none" /\ journal' = [journal EXCEPT ![k] = "running"]
    BY DEF Acquire
  <1>4. UNCHANGED <<runs, effect, breaker, cache>>
    BY DEF Acquire
  <1>5. /\ journal' \in [Write -> Journal]
        /\ \A i \in Write :
              journal'[i] = IF i = k THEN "running" ELSE journal[i]
    BY <1>1, <1>2, <1>3 DEF Journal
  <1>6. ASSUME NEW i \in Write
        PROVE  /\ journal[i] # "none" => journal'[i] # "none"
               /\ KeySound(i)'
    <2>1. CASE i = k
      BY <1>2, <1>3, <1>4, <1>5, <2>1 DEF KeySound
    <2>2. CASE i # k
      BY <1>2, <1>4, <1>5, <2>2 DEF KeySound
    <2>3. QED
      BY <2>1, <2>2
  <1>7. CASE call[c].cut
    <2>1. SetCall(c, NoCall)
      BY <1>7 DEF Acquire, Leave
    <2>2. QED
      BY <1>4, <1>5, <1>6, <2>1, NoCallFacts, CallFacts, JournalStep
  <1>8. CASE ~call[c].cut
    <2>1. call' = [call EXCEPT ![c] = q]
      BY <1>8 DEF Acquire, SetCall
    <2>2. q \in CallState
      BY <1>1 DEF CallState
    <2>3. /\ q.pc = "queue" /\ q.gate = call[c].gate /\ q.op = k
          /\ q.last = call[c].last /\ q.reply = call[c].reply
      BY <1>1 DEF CallState
    <2> HIDE DEF q
    <2>a. PICK r \in CallState :
             /\ call' = [call EXCEPT ![c] = r]
             /\ r.pc = "queue" /\ r.gate = call[c].gate /\ r.op = k
             /\ r.last = call[c].last /\ r.reply = call[c].reply
      BY <2>1, <2>2, <2>3
    <2>4. runs[k] = 0 /\ journal'[k] = "running"
      BY <1>1, <1>2, <1>3, <1>5 DEF KeySound
    <2>5. Sound(r)'
      BY <1>1, <1>4, <2>a, <2>4 DEF Sound, Holder
    <2>6. ASSUME NEW i \in Write
          PROVE  KeyStep(c, i) /\ KeySound(i)'
      <3>1. KeyStep(c, i)
        BY <1>4, <1>6 DEF KeyStep, Later
      <3>2. QED
        BY <1>6, <3>1
    <2>7. TypeOK'
      BY <1>1, <1>4, <1>5, <2>a DEF TypeOK
    <2>8. QED
      BY <1>3, <2>a, <2>5, <2>6, <2>7, CallStep
  <1>9. QED
    BY <1>7, <1>8

\* The holder of a key starts its adapter, for the first time.
LEMMA EnterInv ==
    ASSUME IndInv, NEW c \in Call, Enter(c)
    PROVE  IndInv'
  <1> DEFINE k == call[c].op
             q == [call[c] EXCEPT !.pc = "run"]
  <1>1. /\ TypeOK /\ call[c] \in CallState /\ Sound(call[c]) /\ Busy(c)
        /\ call[c].gate \in Gate /\ k \in Op /\ call[c].pc = "queue"
    BY CallFacts DEF Enter, Busy
  <1>2. /\ \A i \in Write : KeySound(i)
        /\ runs \in [Write -> Nat] /\ effect \in [Write -> Effect]
    BY Pointwise DEF TypeOK
  <1>3. SetCall(c, q) /\ UNCHANGED <<journal, breaker, cache>>
    BY DEF Enter
  <1>4. q \in CallState
    BY <1>1 DEF CallState
  <1>a. /\ q.pc = "run" /\ q.gate = call[c].gate /\ q.op = k
        /\ q.last = call[c].last /\ q.reply = call[c].reply
    BY <1>1 DEF CallState
  <1> HIDE DEF q
  <1>5. PICK r \in CallState :
           /\ SetCall(c, r)
           /\ r.pc = "run" /\ r.gate = call[c].gate /\ r.op = k
           /\ r.last = call[c].last /\ r.reply = call[c].reply
    BY <1>3, <1>4, <1>a
  <1>6. CASE ~IsWrite(c)
    <2>1. UNCHANGED <<runs, effect>>
      BY <1>6 DEF Enter
    <2>2. Sound(r) /\ ~Holder(r)
      BY <1>1, <1>5, <1>6 DEF Sound, Holder, IsWrite
    <2>3. QED
      BY <1>3, <1>5, <2>1, <2>2, CallFacts, QuietStep
  <1>7. CASE IsWrite(c)
    <2>1. k \in Write /\ Holds(c) /\ journal[k] # "none" /\ runs[k] = 0
      BY <1>1, <1>7 DEF IsWrite, Holds, Sound, Holder
    <2>2. effect[k] = "none"
      BY <1>2, <2>1 DEF KeySound
    <2>3. /\ runs' = [runs EXCEPT ![k] = runs[k] + 1]
          /\ effect' = [effect EXCEPT ![k] = "inflight"]
      BY <1>7 DEF Enter
    <2>4. /\ runs' \in [Write -> Nat] /\ effect' \in [Write -> Effect]
          /\ runs'[k] = 1 /\ effect'[k] = "inflight"
          /\ \A i \in Write \ {k} : runs'[i] = runs[i] /\ effect'[i] = effect[i]
      BY <1>2, <2>1, <2>3 DEF Effect
    <2>5. ASSUME NEW i \in Write
          PROVE  KeyStep(c, i) /\ KeySound(i)'
      <3>1. CASE i = k
        <4>1. KeyStep(c, i)
          BY <1>3, <2>1, <2>2, <2>4, <3>1 DEF KeyStep, Later
        <4>2. KeySound(i)'
          BY <1>2, <1>3, <2>1, <2>2, <2>4, <3>1 DEF KeySound
        <4>3. QED
          BY <4>1, <4>2
      <3>2. CASE i # k
        <4>1. KeyStep(c, i)
          BY <1>3, <2>4, <3>2 DEF KeyStep, Later
        <4>2. KeySound(i)'
          BY <1>2, <1>3, <2>4, <3>2 DEF KeySound
        <4>3. QED
          BY <4>1, <4>2
      <3>3. QED
        BY <3>1, <3>2
    <2>6. Sound(r)'
      BY <1>1, <1>3, <1>5, <2>1, <2>2, <2>4 DEF Sound, Holder
    <2>7. call' = [call EXCEPT ![c] = r]
      BY <1>5 DEF SetCall
    <2>8. TypeOK'
      BY <1>1, <1>3, <1>5, <2>4, <2>7 DEF TypeOK
    <2>9. QED
      BY <1>5, <2>1, <2>5, <2>6, <2>7, <2>8, CallStep
  <1>8. QED
    BY <1>6, <1>7

\* A write's adapter answers: what it says of its effect is true.
LEMMA WriteAnswersInv ==
    ASSUME IndInv, NEW c \in Call, NEW a \in Answers, WriteAnswers(c, a)
    PROVE  IndInv'
  <1> DEFINE k == call[c].op
             q == [call[c] EXCEPT !.pc = "settle", !.last = a]
  <1>1. /\ TypeOK /\ call[c] \in CallState /\ Sound(call[c])
        /\ call[c].gate \in Gate /\ k \in Op /\ k \in Write
        /\ call[c].pc = "run" /\ Holds(c)
    BY CallFacts DEF WriteAnswers, Busy, IsWrite, Holds
  <1>2. /\ \A i \in Write : KeySound(i)
        /\ effect \in [Write -> Effect]
    BY Pointwise DEF TypeOK
  <1>3. /\ call' = [call EXCEPT ![c] = q]
        /\ UNCHANGED <<journal, runs, breaker, cache>>
        /\ a = "ok" => effect[k] = "applied"
        /\ a = "refused" => effect[k] = "inflight"
        /\ effect' = IF a = "refused" THEN [effect EXCEPT ![k] = "refused"]
                                      ELSE effect
    BY DEF WriteAnswers, SetCall
  <1>4. q \in CallState
    BY <1>1 DEF CallState
  <1>a. /\ q.pc = "settle" /\ q.gate = call[c].gate /\ q.op = k
        /\ q.last = a /\ q.reply = call[c].reply
    BY <1>1 DEF CallState
  <1> HIDE DEF q
  <1>5. PICK r \in CallState :
           /\ call' = [call EXCEPT ![c] = r]
           /\ r.pc = "settle" /\ r.gate = call[c].gate /\ r.op = k
           /\ r.last = a /\ r.reply = call[c].reply
    BY <1>3, <1>4, <1>a
  <1>6. /\ effect' \in [Write -> Effect]
        /\ effect'[k] = IF a = "refused" THEN "refused" ELSE effect[k]
        /\ \A i \in Write \ {k} : effect'[i] = effect[i]
    BY <1>1, <1>2, <1>3 DEF Effect
  <1>7. ASSUME NEW i \in Write
        PROVE  KeyStep(c, i) /\ KeySound(i)'
    <2>1. CASE i = k
      <3>1. KeyStep(c, i)
        BY <1>1, <1>3, <1>6, <2>1 DEF KeyStep, Later
      <3>2. KeySound(i)'
        BY <1>2, <1>3, <1>6, <2>1 DEF KeySound
      <3>3. QED
        BY <3>1, <3>2
    <2>2. CASE i # k
      <3>1. KeyStep(c, i)
        BY <1>3, <1>6, <2>2 DEF KeyStep, Later
      <3>2. KeySound(i)'
        BY <1>2, <1>3, <1>6, <2>2 DEF KeySound
      <3>3. QED
        BY <3>1, <3>2
    <2>3. QED
      BY <2>1, <2>2
  <1>8. Sound(r)'
    BY <1>1, <1>3, <1>5, <1>6 DEF Sound, Holder
  <1>9. TypeOK'
    BY <1>1, <1>3, <1>5, <1>6 DEF TypeOK
  <1>10. QED
    BY <1>1, <1>3, <1>5, <1>7, <1>8, <1>9, CallStep

-------------------------------------------------------------------------------
(* The world, time and processes. *)

\* An effect in flight comes about.
LEMMA LandInv ==
    ASSUME IndInv, NEW k \in Write, Land(k)
    PROVE  IndInv'
  <1>1. /\ TypeOK
        /\ \A c \in Call : Sound(call[c])
        /\ \A i \in Write : KeySound(i)
        /\ \A c, d \in Call :
              Holds(c) /\ Holds(d) /\ call[c].op = call[d].op => c = d
    BY Pointwise
  <1>2. /\ effect[k] = "inflight" /\ effect' = [effect EXCEPT ![k] = "applied"]
        /\ UNCHANGED <<journal, runs, breaker>>
    BY DEF Land
  <1>3. /\ effect' \in [Write -> Effect] /\ effect'[k] = "applied"
        /\ \A i \in Write \ {k} : effect'[i] = effect[i]
    BY <1>1, <1>2 DEF TypeOK, Effect
  <1>4. \A d \in Data : Older(d) \in Data
    BY DEF Older, Data
  <1>5. ASSUME NEW c \in Call
        PROVE  /\ call'[c] \in CallState
               /\ call'[c].pc = call[c].pc /\ call'[c].gate = call[c].gate
               /\ call'[c].op = call[c].op /\ call'[c].last = call[c].last
               /\ call'[c].reply = call[c].reply
    <2> DEFINE d == Older(call[c].got)
    <2>1. call[c] \in CallState
      BY <1>1 DEF TypeOK
    <2>2. d \in Data
      BY <1>4, <2>1 DEF CallState
    <2>3. call'[c] = [call[c] EXCEPT !.got = d]
      BY DEF Land
    <2> HIDE DEF d
    <2>4. QED
      BY <2>1, <2>2, <2>3 DEF CallState
  <1>6. TypeOK'
    <2>1. call' \in [Call -> CallState]
      <3>1. \E f : call' = [c \in Call |-> f[c]]
        <4>1. call' = [c \in Call |-> [call[c] EXCEPT !.got = Older(@)]]
          BY DEF Land
        <4>2. call' = [c \in Call |-> call'[c]]
          BY <4>1
        <4>3. QED
          BY <4>2
      <3>2. QED
        BY <1>5, <3>1
    <2>2. cache' \in [Gate -> [Read -> Data]]
      <3>1. cache' = [g \in Gate |-> [j \in Read |-> Older(cache[g][j])]]
        BY DEF Land
      <3>2. \A g \in Gate, j \in Read : Older(cache[g][j]) \in Data
        BY <1>1, <1>4 DEF TypeOK
      <3>3. QED
        BY <3>1, <3>2
    <2>3. QED
      BY <1>1, <1>2, <1>3, <2>1, <2>2 DEF TypeOK
  <1>7. ASSUME NEW c \in Call
        PROVE  Sound(call[c])'
    <2>1. Sound(call[c])
      BY <1>1
    <2>2. CASE call[c].op = k
      BY <1>2, <1>3, <1>5, <2>1, <2>2 DEF Sound, Holder
    <2>3. CASE call[c].op # k
      BY <1>2, <1>3, <1>5, <2>1, <2>3 DEF Sound, Holder
    <2>4. QED
      BY <2>2, <2>3
  <1>8. ASSUME NEW i \in Write
        PROVE  KeySound(i)'
    <2>1. CASE i = k
      BY <1>1, <1>2, <1>3, <2>1 DEF KeySound
    <2>2. CASE i # k
      BY <1>1, <1>2, <1>3, <2>2 DEF KeySound
    <2>3. QED
      BY <2>1, <2>2
  <1>9. \A c, d \in Call :
           (Holds(c) /\ Holds(d) /\ call[c].op = call[d].op)' => c = d
    BY <1>1, <1>5 DEF Holds, IsWrite
  <1>10. QED
    BY <1>6, <1>7, <1>8, <1>9, PointwiseNext

\* Steps that move no call and change no effect.
LEMMA BackgroundStep ==
    ASSUME IndInv, UNCHANGED <<runs, effect, call>>,
           journal' \in [Write -> Journal],
           breaker' \in [Gate -> [Tool -> Breaker]],
           cache' \in [Gate -> [Read -> Data]],
           \A k \in Write : \/ journal'[k] = journal[k]
                            \/ journal[k] = "running" /\ journal'[k] = "stale"
    PROVE  IndInv'
  <1>1. /\ TypeOK
        /\ \A c \in Call : Sound(call[c])
        /\ \A i \in Write : KeySound(i)
        /\ \A c, d \in Call :
              Holds(c) /\ Holds(d) /\ call[c].op = call[d].op => c = d
    BY Pointwise
  <1>2. TypeOK'
    BY <1>1 DEF TypeOK
  <1>3. ASSUME NEW c \in Call
        PROVE  Sound(call[c])'
    <2>1. Sound(call[c])
      BY <1>1
    <2>2. QED
      BY <2>1 DEF Sound, Holder
  <1>4. ASSUME NEW i \in Write
        PROVE  KeySound(i)'
    BY <1>1 DEF KeySound
  <1>5. \A c, d \in Call :
           (Holds(c) /\ Holds(d) /\ call[c].op = call[d].op)' => c = d
    BY <1>1 DEF Holds, IsWrite
  <1>6. QED
    BY <1>2, <1>3, <1>4, <1>5, PointwiseNext

\* A reservation gets stale.
LEMMA AgeInv ==
    ASSUME IndInv, NEW k \in Write, Age(k)
    PROVE  IndInv'
  <1>1. TypeOK
    BY Pointwise
  <1>2. journal' \in [Write -> Journal]
    BY <1>1 DEF Age, TypeOK, Journal
  <1>3. ASSUME NEW i \in Write
        PROVE  \/ journal'[i] = journal[i]
               \/ journal[i] = "running" /\ journal'[i] = "stale"
    BY <1>1 DEF Age, TypeOK
  <1>4. QED
    BY <1>1, <1>2, <1>3, BackgroundStep DEF Age, TypeOK

\* A breaker's time is over.
LEMMA CoolInv ==
    ASSUME IndInv, NEW g \in Gate, NEW t \in Tool, Cool(g, t)
    PROVE  IndInv'
  <1>1. TypeOK
    BY Pointwise
  <1>2. breaker' \in [Gate -> [Tool -> Breaker]]
    <2> DEFINE b == [breaker[g][t] EXCEPT !.mode = "cooled"]
    <2>1. breaker[g][t] \in Breaker
      BY <1>1 DEF TypeOK
    <2>2. b \in Breaker
      BY <2>1 DEF Breaker
    <2>3. breaker' = [breaker EXCEPT ![g][t] = b]
      BY DEF Cool
    <2> HIDE DEF b
    <2>4. QED
      BY <1>1, <2>2, <2>3 DEF TypeOK
  <1>3. QED
    BY <1>1, <1>2, BackgroundStep DEF Cool, TypeOK

\* A cached read expires.
LEMMA EvictInv ==
    ASSUME IndInv, NEW g \in Gate, NEW j \in Read, Evict(g, j)
    PROVE  IndInv'
  <1>1. TypeOK
    BY Pointwise
  <1>2. cache' \in [Gate -> [Read -> Data]]
    BY <1>1 DEF Evict, TypeOK, Data
  <1>3. QED
    BY <1>1, <1>2, BackgroundStep DEF Evict, TypeOK

\* A process dies with its calls, its cache and its breakers.
LEMMA CrashInv ==
    ASSUME IndInv, NEW g \in Gate, Crash(g)
    PROVE  IndInv'
  <1>1. /\ TypeOK
        /\ \A c \in Call : Sound(call[c])
        /\ \A i \in Write : KeySound(i)
        /\ \A c, d \in Call :
              Holds(c) /\ Holds(d) /\ call[c].op = call[d].op => c = d
    BY Pointwise
  <1>2. UNCHANGED <<journal, runs, effect>>
    BY DEF Crash
  <1>3. /\ call' = [c \in Call |-> IF call[c].gate = g THEN NoCall ELSE call[c]]
        /\ \A c \in Call : call'[c] = NoCall \/ call'[c] = call[c]
    BY DEF Crash
  <1>4. TypeOK'
    <2>1. Shut \in Breaker
      BY BoundAssumption DEF Shut, Breaker
    <2>2. breaker' \in [Gate -> [Tool -> Breaker]]
      BY <1>1, <2>1 DEF Crash, TypeOK
    <2>3. cache' \in [Gate -> [Read -> Data]]
      BY <1>1 DEF Crash, TypeOK, Data
    <2>4. call' \in [Call -> CallState]
      BY <1>1, <1>3, NoCallFacts DEF TypeOK
    <2>5. QED
      BY <1>1, <1>2, <2>2, <2>3, <2>4 DEF TypeOK
  <1>5. ASSUME NEW c \in Call
        PROVE  Sound(call[c])'
    <2>1. CASE call'[c] = NoCall
      <3>1. NoCall.pc = "idle" /\ NoCall.op \notin Write
        BY NoCallFacts DEF NoCall, Op
      <3>2. QED
        BY <2>1, <3>1 DEF Sound, Holder
    <2>2. CASE call'[c] = call[c]
      <3>1. Sound(call[c])
        BY <1>1
      <3>2. QED
        BY <1>2, <2>2, <3>1 DEF Sound, Holder
    <2>3. QED
      BY <1>3, <2>1, <2>2
  <1>6. \A i \in Write : KeySound(i)'
    BY <1>1, <1>2 DEF KeySound
  <1>7. \A c, d \in Call :
           (Holds(c) /\ Holds(d) /\ call[c].op = call[d].op)' => c = d
    <2>1. ASSUME NEW c \in Call, Holds(c)'
          PROVE  Holds(c) /\ call'[c] = call[c]
      <3>1. call'[c] # NoCall
        BY <2>1, NoCallFacts DEF Holds, IsWrite, Holder
      <3>2. QED
        BY <1>3, <2>1, <3>1 DEF Holds, IsWrite
    <2>2. QED
      BY <1>1, <2>1
  <1>8. QED
    BY <1>4, <1>5, <1>6, <1>7, PointwiseNext

-------------------------------------------------------------------------------
(* The invariant. *)

\* Nothing reserved, nothing started.
LEMMA InitInd ==
    ASSUME Init
    PROVE  IndInv
  <1>1. TypeOK
    <2>1. Shut \in Breaker
      BY BoundAssumption DEF Shut, Breaker
    <2>2. QED
      BY <2>1, NoCallFacts DEF Init, TypeOK, Journal, Effect, Data
  <1>2. \A c \in Call : call[c] = NoCall
    BY DEF Init
  <1>3. NoCall.pc = "idle" /\ NoCall.op \notin Write
    BY NoCallFacts DEF NoCall, Op
  <1>4. CallShape /\ OneHolder /\ Truthful /\ RepliesTrue
    BY <1>2, <1>3
       DEF CallShape, OneHolder, Truthful, RepliesTrue, Busy, IsWrite, Holds
  <1>5. StartedOnce /\ AtMostOnce /\ VerdictsTrue
    BY <1>2, <1>3
       DEF Init, StartedOnce, AtMostOnce, VerdictsTrue, IsWrite
  <1>6. QED
    BY <1>1, <1>4, <1>5 DEF IndInv

\* Every step keeps the invariant.
LEMMA StepInd ==
    ASSUME IndInv, [Next]_vars
    PROVE  IndInv'
  <1>1. ASSUME NEW c \in Call, NEW g \in Gate, Begin(c, g)
        PROVE  IndInv'
    BY <1>1, ServeCachedInv, ShortCircuitInv, AdmitInv DEF Begin
  <1>2. ASSUME NEW c \in Call, Reserve(c) \/ Enter(c) \/ Cancel(c)
        PROVE  IndInv'
    BY <1>2, AcquireInv, TakenInv, ReserveFaultInv, EnterInv, CancelInv
       DEF Reserve
  <1>3. ASSUME NEW c \in Call, Adapter(c)
        PROVE  IndInv'
    BY <1>3, FetchInv, ReadEndsInv, ReadFailsInv, WriteAnswersInv,
       WriteRaisesInv DEF Adapter
  <1>4. ASSUME NEW c \in Call, Finish(c)
        PROVE  IndInv'
    BY <1>4, SettleInv, SettleFaultInv, CloseInv, CloseFaultInv, ReturnInv
       DEF Finish
  <1>5. ASSUME UNCHANGED vars
        PROVE  IndInv'
    <2>1. TypeOK
      BY Pointwise
    <2>2. QED
      BY <1>5, <2>1, BackgroundStep DEF vars, TypeOK
  <1>6. QED
    BY <1>1, <1>2, <1>3, <1>4, <1>5, LandInv, AgeInv, CoolInv, EvictInv,
       CrashInv DEF Next

\* The invariant holds in every state, for any number of processes, calls and
\* operations, and however often the journal, a process or a caller gives up.
THEOREM GatewayInvariant == Spec => []IndInv
  <1>1. Init => IndInv
    BY InitInd
  <1>2. IndInv /\ [Next]_vars => IndInv'
    BY StepInd
  <1>3. QED
    BY <1>1, <1>2, PTL DEF Spec

\* A side effect is attempted at most once, whatever is repeated, retried,
\* cancelled, timed out or restarted, in any number of processes.
THEOREM AtMostOnceHolds == Spec => []AtMostOnce
  <1>1. IndInv => AtMostOnce
    BY DEF IndInv
  <1>2. QED
    BY <1>1, GatewayInvariant, PTL

\* What the journal and the replies say of a side effect is true.
THEOREM TruthHolds == Spec => [](VerdictsTrue /\ RepliesTrue)
  <1>1. IndInv => VerdictsTrue /\ RepliesTrue
    BY DEF IndInv
  <1>2. QED
    BY <1>1, GatewayInvariant, PTL

-------------------------------------------------------------------------------
(* The promise of EffectOnce. *)

\* The verdict a row stands for.
VerdictOf(j) == IF j \in {"none", "running", "stale"} THEN "open"
                ELSE IF j = "indeterminate" THEN "unknown" ELSE j
OnRecord == [k \in Write |-> VerdictOf(journal[k])]

\* EffectOnce sees rows only through the verdicts they stand for.
LEMMA Stutter ==
    ASSUME UNCHANGED <<runs, effect>>,
           \A k \in Write : VerdictOf(journal'[k]) = VerdictOf(journal[k])
    PROVE  UNCHANGED Once!evars
  <1>1. OnRecord' = OnRecord
    BY DEF OnRecord
  <1>2. QED
    BY <1>1 DEF Once!evars, OnRecord, VerdictOf

\* A row that is closed with a true verdict is a conclusion.
LEMMA Concludes ==
    ASSUME TypeOK, NEW k \in Write,
           NEW v \in {"succeeded", "failed", "indeterminate"},
           UNCHANGED <<runs, effect>>,
           Open(k), journal' = [journal EXCEPT ![k] = v],
           v = "succeeded" => effect[k] = "applied",
           v = "failed" => effect[k] = "refused"
    PROVE  Once!Conclude(k)
  <1> DEFINE w == VerdictOf(v)
  <1>1. /\ w \in {"succeeded", "failed", "unknown"}
        /\ w = "succeeded" => effect[k] = "applied"
        /\ w = "failed" => effect[k] = "refused"
    BY DEF VerdictOf
  <1>2. OnRecord[k] = "open"
    BY DEF OnRecord, VerdictOf, Open
  <1>3. OnRecord' = [OnRecord EXCEPT ![k] = w]
    <2>1. \A i \in Write : journal'[i] = IF i = k THEN v ELSE journal[i]
      BY DEF TypeOK
    <2> HIDE DEF w
    <2>2. \A i \in Write :
             VerdictOf(journal'[i]) = IF i = k THEN w ELSE VerdictOf(journal[i])
      BY <2>1 DEF w
    <2>3. QED
      BY <2>2 DEF OnRecord
  <1> HIDE DEF w
  <1>4. QED
    BY <1>1, <1>2, <1>3 DEF Once!Conclude, OnRecord, VerdictOf

\* Record either closes an open row or leaves everything as it is.
LEMMA RecordConcludes ==
    ASSUME TypeOK, NEW k \in Write,
           NEW v \in {"succeeded", "failed", "indeterminate"},
           UNCHANGED <<runs, effect>>, Record(k, v),
           v = "succeeded" => effect[k] = "applied",
           v = "failed" => effect[k] = "refused"
    PROVE  Once!Conclude(k) \/ UNCHANGED Once!evars
  <1>1. CASE Open(k)
    <2>1. journal' = [journal EXCEPT ![k] = v]
      BY <1>1 DEF Record
    <2>2. QED
      BY <1>1, <2>1, Concludes
  <1>2. CASE ~Open(k)
    <2>1. \A i \in Write : journal'[i] = journal[i]
      BY <1>2 DEF Record, TypeOK
    <2>2. QED
      BY <2>1, Stutter
  <1>3. QED
    BY <1>1, <1>2

\* Entering an adapter is the attempt at its effect.
LEMMA EnterAttempts ==
    ASSUME IndInv, NEW c \in Call, Enter(c)
    PROVE  \/ \E k \in Write : Once!Attempt(k)
           \/ UNCHANGED Once!evars
  <1> DEFINE k == call[c].op
  <1>1. CASE ~IsWrite(c)
    <2>1. UNCHANGED <<runs, effect, journal>>
      BY <1>1 DEF Enter
    <2>2. QED
      BY <2>1, Stutter
  <1>2. CASE IsWrite(c)
    <2>1. k \in Write /\ runs[k] = 0
      BY <1>2, CallFacts DEF Enter, IsWrite, Sound
    <2>2. /\ runs' = [runs EXCEPT ![k] = 1]
          /\ effect' = [effect EXCEPT ![k] = "inflight"]
          /\ journal' = journal
      BY <1>2, <2>1, CallFacts DEF Enter, TypeOK
    <2>3. Once!Attempt(k)
      BY <2>1, <2>2 DEF Once!Attempt
    <2>4. QED
      BY <2>1, <2>3
  <1>3. QED
    BY <1>1, <1>2

\* An adapter that answers decides its effect, or finds it decided.
LEMMA AnswerHappens ==
    ASSUME IndInv, NEW c \in Call, NEW a \in Answers, WriteAnswers(c, a)
    PROVE  \/ \E k \in Write : Once!Happen(k)
           \/ UNCHANGED Once!evars
  <1> DEFINE k == call[c].op
  <1>1. /\ k \in Write /\ UNCHANGED <<journal, runs>>
        /\ a = "refused" => effect[k] = "inflight"
        /\ effect' = IF a = "refused" THEN [effect EXCEPT ![k] = "refused"]
                                      ELSE effect
    BY DEF WriteAnswers, IsWrite
  <1>2. CASE a = "refused"
    <2>1. Once!Happen(k)
      BY <1>1, <1>2 DEF Once!Happen
    <2>2. QED
      BY <1>1, <2>1
  <1>3. CASE a # "refused"
    BY <1>1, <1>3, Stutter
  <1>4. QED
    BY <1>2, <1>3

\* So does an effect that comes about on its own.
LEMMA LandHappens ==
    ASSUME NEW k \in Write, Land(k)
    PROVE  Once!Happen(k)
  <1>1. /\ effect[k] = "inflight" /\ effect' = [effect EXCEPT ![k] = "applied"]
        /\ UNCHANGED <<runs, journal>>
    BY DEF Land
  <1>2. QED
    BY <1>1 DEF Once!Happen

\* The steps that close a row.
LEMMA JournalConcludes ==
    ASSUME IndInv, NEW c \in Call, Taken(c) \/ Settle(c) \/ Close(c)
    PROVE  \/ \E k \in Write : Once!Conclude(k)
           \/ UNCHANGED Once!evars
  <1> DEFINE k == call[c].op
  <1>1. TypeOK /\ Sound(call[c]) /\ k \in Write
    BY CallFacts DEF Taken, Settle, Close, Sound
  <1>2. UNCHANGED <<runs, effect>>
    BY DEF Taken, Settle, Close
  <1>3. CASE Taken(c)
    <2>1. CASE journal[k] = "stale"
      <3>1. Open(k) /\ journal' = [journal EXCEPT ![k] = "indeterminate"]
        BY <1>3, <2>1 DEF Taken, Open
      <3>2. QED
        BY <1>1, <1>2, <3>1, Concludes
    <2>2. CASE journal[k] # "stale"
      <3>1. \A i \in Write : journal'[i] = journal[i]
        BY <1>1, <1>3, <2>2 DEF Taken, TypeOK
      <3>2. QED
        BY <1>2, <3>1, Stutter
    <2>3. QED
      BY <2>1, <2>2
  <1>4. CASE Settle(c)
    <2> DEFINE v == Verdict(call[c].last)
    <2>1. /\ v \in {"succeeded", "failed", "indeterminate"}
          /\ v = "succeeded" => call[c].last = "ok"
          /\ v = "failed" => call[c].last = "refused"
      BY DEF Verdict
    <2>2. Record(k, v)
      BY <1>4 DEF Settle
    <2> HIDE DEF v
    <2>3. /\ v = "succeeded" => effect[k] = "applied"
          /\ v = "failed" => effect[k] = "refused"
      BY <1>1, <2>1 DEF Sound
    <2>4. QED
      BY <1>1, <1>2, <2>1, <2>2, <2>3, RecordConcludes
  <1>5. CASE Close(c)
    <2>1. Record(k, "indeterminate")
      BY <1>5 DEF Close
    <2>2. QED
      BY <1>1, <1>2, <2>1, RecordConcludes
  <1>6. QED
    BY <1>3, <1>4, <1>5

\* All other steps say nothing new about a side effect.
LEMMA OthersStutter ==
    ASSUME IndInv,
           \/ UNCHANGED <<journal, runs, effect>>
           \/ \E c \in Call : Acquire(c)
           \/ \E k \in Write : Age(k)
    PROVE  UNCHANGED Once!evars
  <1>1. TypeOK
    BY Pointwise
  <1>2. CASE UNCHANGED <<journal, runs, effect>>
    BY <1>2, Stutter
  <1>3. ASSUME NEW k \in Write, NEW j \in {"running", "stale"},
               VerdictOf(journal[k]) = "open",
               journal' = [journal EXCEPT ![k] = j],
               UNCHANGED <<runs, effect>>
        PROVE  UNCHANGED Once!evars
    <2>1. \A i \in Write : journal'[i] = IF i = k THEN j ELSE journal[i]
      BY <1>1, <1>3 DEF TypeOK
    <2>2. VerdictOf(j) = "open"
      BY DEF VerdictOf
    <2>3. \A i \in Write : VerdictOf(journal'[i]) = VerdictOf(journal[i])
      BY <1>3, <2>1, <2>2
    <2>4. QED
      BY <1>3, <2>3, Stutter
  <1>4. ASSUME NEW c \in Call, Acquire(c)
        PROVE  UNCHANGED Once!evars
    <2>1. call[c].op \in Write
      BY <1>4, CallFacts DEF Acquire, Sound
    <2>2. QED
      BY <1>3, <1>4, <2>1 DEF Acquire, VerdictOf
  <1>5. ASSUME NEW k \in Write, Age(k)
        PROVE  UNCHANGED Once!evars
    BY <1>3, <1>5 DEF Age, VerdictOf
  <1>6. QED
    BY <1>2, <1>4, <1>5

\* Every step is one EffectOnce allows.
LEMMA StepKeepsPromise ==
    ASSUME IndInv, [Next]_vars
    PROVE  [Once!EffectNext]_(Once!evars)
  <1>1. CASE \/ \E c \in Call : \/ Enter(c)
                                \/ Taken(c) \/ Settle(c) \/ Close(c)
                                \/ \E a \in Answers : WriteAnswers(c, a)
             \/ \E k \in Write : Land(k)
    BY <1>1, EnterAttempts, JournalConcludes, AnswerHappens, LandHappens
       DEF Once!EffectNext
  <1>2. CASE \/ \E c \in Call : Acquire(c)
             \/ \E k \in Write : Age(k)
    BY <1>2, OthersStutter
  <1>3. CASE \/ \E c \in Call, g \in Gate : Begin(c, g)
             \/ \E c \in Call : ReserveFault(c) \/ Cancel(c)
             \/ \E c \in Call : SettleFault(c) \/ CloseFault(c) \/ Return(c)
             \/ UNCHANGED vars
    <2>1. UNCHANGED <<journal, runs, effect>>
      BY <1>3 DEF Begin, ServeCached, ShortCircuit, Admit, ReserveFault, Cancel,
                  SettleFault, CloseFault, Return, vars
    <2>2. QED
      BY <2>1, OthersStutter
  <1>4. CASE \E c \in Call :
                \/ Fetch(c) \/ ReadOk(c) \/ ReadInvalid(c)
                \/ \E t, retryable \in BOOLEAN : ReadFails(c, t, retryable)
                \/ \E t \in BOOLEAN : WriteRaises(c, t)
    <2>1. UNCHANGED <<journal, runs, effect>>
      BY <1>4 DEF Fetch, ReadOk, ReadInvalid, ReadFails, WriteRaises
    <2>2. QED
      BY <2>1, OthersStutter
  <1>5. CASE \E g \in Gate : \/ \E t \in Tool : Cool(g, t)
                             \/ \E j \in Read : Evict(g, j)
                             \/ Crash(g)
    <2>1. UNCHANGED <<journal, runs, effect>>
      BY <1>5 DEF Cool, Evict, Crash
    <2>2. QED
      BY <2>1, OthersStutter
  <1>6. QED
    BY <1>1, <1>2, <1>3, <1>4, <1>5 DEF Next, Reserve, Adapter, Finish

\* The gateways and their journal implement EffectOnce: seen through what the
\* rows stand for, every step attempts, decides or concludes one side effect
\* as that specification allows, or leaves all of them alone.
THEOREM KeepsPromise == Spec => EffectOncePromise
  <1>1. Init => Once!EffectInit
    BY DEF Init, Once!EffectInit
  <1>2. IndInv /\ [Next]_vars => [Once!EffectNext]_(Once!evars)
    BY StepKeepsPromise
  <1>3. QED
    BY <1>1, <1>2, GatewayInvariant, PTL
       DEF Spec, EffectOncePromise, Once!EffectSpec
-------------------------------------------------------------------------------
(* A success stays on record, as long as no reservation gets stale while its *)
(* call goes on: a stale row gets a verdict of its own, under the call.      *)

\* The row of a call at work is open and fresh, and what it was told is there.
Backed(r, rows) == r.op \in Write =>
    /\ r.pc \in {"queue", "run", "settle"} => rows[r.op] = "running"
    /\ r.reply \in {"ok", "replayed"} => rows[r.op] = "succeeded"
AllBacked == \A c \in Call : Backed(call[c], journal)

\* A record that claims no more than the one before.
Claims(r, q) == r.op \in Write =>
    /\ r.op = q.op
    /\ r.pc \in {"queue", "run", "settle"} => q.pc \in {"queue", "run", "settle"}
    /\ r.reply \notin {"ok", "replayed"} \/ r.reply = q.reply

\* One call moves, and touches at most a row that is its own, not taken yet or
\* stale, and that nobody has been told a success of.
LEMMA BackedStep ==
    ASSUME IndInv, AllBacked, NEW c \in Call, NEW r, SetCall(c, r),
           Backed(r, journal'),
           \A k \in Write :
              \/ journal'[k] = journal[k]
              \/ /\ journal[k] # "succeeded"
                 /\ \/ Holds(c) /\ call[c].op = k
                    \/ journal[k] \in {"none", "stale"}
    PROVE  AllBacked'
  <1>1. /\ call'[c] = r /\ \A d \in Call \ {c} : call'[d] = call[d]
        /\ \A d, e \in Call :
              Holds(d) /\ Holds(e) /\ call[d].op = call[e].op => d = e
    BY Pointwise DEF TypeOK, SetCall
  <1>2. ASSUME NEW d \in Call, d # c
        PROVE  Backed(call[d], journal)'
    <2>1. call'[d] = call[d] /\ Backed(call[d], journal)
      BY <1>1, <1>2 DEF AllBacked
    <2>2. call[d].op \in Write /\ call[d].pc \in {"queue", "run", "settle"} =>
             Holds(d)
      BY DEF Holds, IsWrite
    <2>3. Holds(d) /\ Holds(c) => call[d].op # call[c].op
      BY <1>1, <1>2
    <2>4. QED
      BY <2>1, <2>2, <2>3 DEF Backed
  <1>3. QED
    BY <1>1, <1>2 DEF AllBacked

\* The same of a call that claims nothing new while the journal stays.
LEMMA BackedQuiet ==
    ASSUME IndInv, AllBacked, NEW c \in Call, NEW r, SetCall(c, r),
           journal' = journal, Claims(r, call[c])
    PROVE  AllBacked'
  <1>1. Backed(r, journal)
    BY DEF AllBacked, Backed, Claims
  <1>2. QED
    BY <1>1, BackedStep

\* A call that leaves, or is told of no success.
LEMMA LeaveClaims == ASSUME NEW q PROVE Claims(NoCall, q)
  BY NoCallFacts DEF Claims, Op

\* A reply other than a success claims no more than before.
LEMMA ToldClaims ==
    ASSUME TypeOK, NEW c \in Call, NEW a \in Replies \ {"ok", "replayed"}
    PROVE  Claims(Told(c, a), call[c])
  BY ToldFacts DEF Claims

\* The calls that are told something leave the journal alone.
LEMMA BackedEnds ==
    ASSUME IndInv, AllBacked, NEW c \in Call, journal' = journal,
           \/ Leave(c)
           \/ \E a \in Replies \ {"ok", "replayed"} : Answer(c, a)
    PROVE  AllBacked'
  <1>1. CASE Leave(c)
    BY <1>1, LeaveClaims, BackedQuiet DEF Leave
  <1>2. ASSUME NEW a \in Replies \ {"ok", "replayed"}, Answer(c, a)
        PROVE  AllBacked'
    <2>1. SetCall(c, Told(c, a)) /\ Claims(Told(c, a), call[c])
      BY <1>2, CallFacts, ToldClaims DEF Answer, Told
    <2>2. QED
      BY <2>1, BackedQuiet
  <1>3. QED
    BY <1>1, <1>2

\* A new call claims nothing yet.
LEMMA BackedBegin ==
    ASSUME IndInv, AllBacked, NEW c \in Call, NEW g \in Gate, Begin(c, g)
    PROVE  AllBacked'
  <1>1. journal' = journal
    BY DEF Begin, ServeCached, ShortCircuit, Admit
  <1>2. ASSUME NEW k \in Read, ServeCached(c, g, k)
        PROVE  AllBacked'
    <2> DEFINE got == cache[g][k]
               r == [NoCall EXCEPT !.pc = "done", !.gate = g, !.op = k,
                                   !.got = got, !.reply = "hit"]
    <2>1. SetCall(c, r)
      BY <1>2 DEF ServeCached
    <2>2. r.op = k /\ k \notin Write
      BY OpAssumption DEF NoCall
    <2> HIDE DEF r
    <2>3. QED
      BY <1>1, <2>1, <2>2, BackedQuiet DEF Claims
  <1>3. ASSUME NEW o \in Op, ShortCircuit(c, g, o)
        PROVE  AllBacked'
    <2> DEFINE r == [NoCall EXCEPT !.pc = "done", !.gate = g, !.op = o,
                                   !.reply = "open"]
    <2>1. SetCall(c, r)
      BY <1>3 DEF ShortCircuit
    <2>2. r.pc = "done" /\ r.reply = "open"
      BY DEF NoCall
    <2> HIDE DEF r
    <2>3. QED
      BY <1>1, <2>1, <2>2, BackedStep DEF Backed
  <1>4. ASSUME NEW o \in Op, Admit(c, g, o)
        PROVE  AllBacked'
    <2> DEFINE pc == IF o \in Write THEN "reserve" ELSE "queue"
               r == [NoCall EXCEPT !.pc = pc, !.gate = g, !.op = o, !.try = 1]
    <2>1. SetCall(c, r)
      BY <1>4 DEF Admit
    <2>2. r.pc = pc /\ r.op = o /\ r.reply = "none"
      BY DEF NoCall
    <2> HIDE DEF r
    <2>3. QED
      BY <1>1, <2>1, <2>2, BackedStep DEF Backed
  <1>5. QED
    BY <1>2, <1>3, <1>4 DEF Begin

\* A reservation is open and fresh when it is made.
LEMMA BackedAcquire ==
    ASSUME IndInv, AllBacked, NEW c \in Call, Acquire(c)
    PROVE  AllBacked'
  <1> DEFINE k == call[c].op
             q == [call[c] EXCEPT !.pc = "queue"]
  <1>1. /\ call[c] \in CallState /\ Sound(call[c]) /\ TypeOK
        /\ call[c].pc = "reserve" /\ k \in Write /\ journal[k] = "none"
    BY CallFacts DEF Acquire, Sound
  <1>2. journal'[k] = "running" /\ \A i \in Write \ {k} : journal'[i] = journal[i]
    BY <1>1 DEF Acquire, TypeOK
  <1>3. CASE call[c].cut
    <2>1. SetCall(c, NoCall) /\ Backed(NoCall, journal')
      BY <1>3, NoCallFacts DEF Acquire, Leave, Backed, Op
    <2>2. QED
      BY <1>1, <1>2, <2>1, BackedStep
  <1>4. CASE ~call[c].cut
    <2>1. SetCall(c, q)
      BY <1>4 DEF Acquire
    <2>2. q.op = k /\ q.reply = call[c].reply
      BY <1>1 DEF CallState
    <2>3. call[c].reply \notin {"ok", "replayed"}
      BY <1>1 DEF AllBacked, Backed
    <2> HIDE DEF q
    <2>4. Backed(q, journal')
      BY <1>2, <2>2, <2>3 DEF Backed
    <2>5. QED
      BY <1>1, <1>2, <2>1, <2>4, BackedStep
  <1>5. QED
    BY <1>3, <1>4

\* A call that finds the row taken is told what the row says.
LEMMA BackedTaken ==
    ASSUME IndInv, AllBacked, NEW c \in Call, Taken(c)
    PROVE  AllBacked'
  <1> DEFINE k == call[c].op
             j == IF journal[k] = "stale" THEN "indeterminate" ELSE journal[k]
  <1>1. /\ TypeOK /\ k \in Write /\ journal[k] # "none"
        /\ journal[k] \in Journal
    BY CallFacts DEF Taken, Sound, TypeOK
  <1>2. journal' = [journal EXCEPT ![k] = j]
    BY DEF Taken
  <1>3. /\ journal'[k] = j /\ \A i \in Write \ {k} : journal'[i] = journal[i]
        /\ j # journal[k] => journal[k] = "stale"
    BY <1>1, <1>2 DEF TypeOK
  <1>4. CASE call[c].cut
    <2>1. SetCall(c, NoCall) /\ Backed(NoCall, journal')
      BY <1>4, NoCallFacts DEF Taken, Leave, Backed, Op
    <2>2. QED
      BY <1>1, <1>3, <2>1, BackedStep
  <1>5. CASE ~call[c].cut
    <2> DEFINE a == ReplyTo(j)
    <2>1. Answer(c, a)
      BY <1>5 DEF Taken
    <2>2. a \in Replies /\ (a \in {"ok", "replayed"} => j = "succeeded")
      BY DEF ReplyTo, Replies
    <2> HIDE DEF a, j
    <2>3. /\ SetCall(c, Told(c, a)) /\ Told(c, a).pc = "done"
          /\ Told(c, a).op = k /\ Told(c, a).reply = a
      BY <1>1, <2>1, <2>2, ToldFacts DEF Answer, Told
    <2>4. Backed(Told(c, a), journal')
      BY <1>3, <2>2, <2>3 DEF Backed
    <2>5. QED
      BY <1>1, <1>3, <2>3, <2>4, BackedStep
  <1>6. QED
    BY <1>4, <1>5

\* What a call does in the adapter changes nothing it claims.
LEMMA BackedAdapter ==
    ASSUME IndInv, AllBacked, NEW c \in Call, Enter(c) \/ Adapter(c) \/ Cancel(c)
    PROVE  AllBacked'
  <1>1. call[c] \in CallState /\ TypeOK
    BY CallFacts
  <1>2. journal' = journal
    BY DEF Enter, Adapter, Cancel, Fetch, ReadOk, ReadInvalid, ReadFails,
           WriteAnswers, WriteRaises
  <1>3. CASE Enter(c)
    <2> DEFINE r == [call[c] EXCEPT !.pc = "run"]
    <2>1. SetCall(c, r) /\ call[c].pc = "queue"
      BY <1>3 DEF Enter
    <2>2. r.op = call[c].op /\ r.reply = call[c].reply
      BY <1>1 DEF CallState
    <2> HIDE DEF r
    <2>3. QED
      BY <1>2, <2>1, <2>2, BackedQuiet DEF Claims
  <1>4. ASSUME ~IsWrite(c), Adapter(c)
        PROVE  AllBacked'
    <2>1. ASSUME NEW r, SetCall(c, r), r.op = call[c].op
          PROVE  AllBacked'
      BY <1>2, <1>4, <2>1, BackedQuiet DEF Claims, IsWrite
    <2>2. CASE Fetch(c)
      <3> DEFINE r == [call[c] EXCEPT !.got = "current"]
      <3>1. SetCall(c, r) /\ r.op = call[c].op
        BY <1>1, <2>2 DEF Fetch, CallState
      <3>2. QED
        BY <2>1, <3>1
    <2>3. ASSUME NEW a \in Replies, Answer(c, a)
          PROVE  AllBacked'
      <3>1. SetCall(c, Told(c, a)) /\ Told(c, a).op = call[c].op
        BY <1>1, <2>3, ToldFacts DEF Answer, Told
      <3>2. QED
        BY <2>1, <3>1
    <2>4. ASSUME NEW t \in BOOLEAN, NEW u \in BOOLEAN, ReadFails(c, t, u)
          PROVE  AllBacked'
      <3> DEFINE try == call[c].try + 1
                 r == [call[c] EXCEPT !.pc = "queue", !.try = try, !.got = "none"]
      <3>1. SetCall(c, r) \/ Answer(c, "failed")
        BY <1>1, <2>4 DEF ReadFails, CallState
      <3>2. r.op = call[c].op
        BY <1>1 DEF CallState
      <3> HIDE DEF r
      <3>3. QED
        BY <2>1, <2>3, <3>1, <3>2 DEF Replies
    <2>5. QED
      BY <1>4, <2>2, <2>3, <2>4
         DEF Adapter, ReadOk, ReadInvalid, WriteAnswers, WriteRaises, Replies
  <1>5. ASSUME NEW a \in Answers, WriteAnswers(c, a)
        PROVE  AllBacked'
    <2> DEFINE r == [call[c] EXCEPT !.pc = "settle", !.last = a]
    <2>1. SetCall(c, r) /\ call[c].pc = "run"
      BY <1>5 DEF WriteAnswers
    <2>2. r.op = call[c].op /\ r.reply = call[c].reply
      BY <1>1 DEF CallState
    <2> HIDE DEF r
    <2>3. QED
      BY <1>2, <2>1, <2>2, BackedQuiet DEF Claims
  <1>6. ASSUME NEW t \in BOOLEAN, WriteRaises(c, t)
        PROVE  AllBacked'
    <2> DEFINE r == [call[c] EXCEPT !.pc = "close", !.last = "raised"]
    <2>1. SetCall(c, r)
      BY <1>6 DEF WriteRaises
    <2>2. r.op = call[c].op /\ r.reply = call[c].reply /\ r.pc = "close"
      BY <1>1 DEF CallState
    <2> HIDE DEF r
    <2>3. QED
      BY <1>2, <2>1, <2>2, BackedQuiet DEF Claims
  <1>7. CASE Cancel(c)
    <2> DEFINE r == [call[c] EXCEPT !.pc = "settle", !.last = "unsure",
                                    !.cut = TRUE]
               q == [call[c] EXCEPT !.cut = TRUE]
    <2>1. \/ Leave(c)
          \/ SetCall(c, r) /\ call[c].pc \in {"queue", "run"}
          \/ SetCall(c, q)
      BY <1>7 DEF Cancel
    <2>2. /\ r.op = call[c].op /\ r.reply = call[c].reply
          /\ q.op = call[c].op /\ q.reply = call[c].reply /\ q.pc = call[c].pc
      BY <1>1 DEF CallState
    <2> HIDE DEF r, q
    <2>3. QED
      BY <1>2, <2>1, <2>2, BackedEnds, BackedQuiet DEF Claims
  <1>8. QED
    BY <1>3, <1>4, <1>5, <1>6, <1>7 DEF Adapter, Fetch, ReadOk, ReadInvalid,
       ReadFails

\* A success is told after it has been put on record, on a row that was open.
LEMMA BackedFinish ==
    ASSUME IndInv, AllBacked, NEW c \in Call, Finish(c)
    PROVE  AllBacked'
  <1> DEFINE k == call[c].op
             q == [call[c] EXCEPT !.pc = "close"]
  <1>1. /\ call[c] \in CallState /\ TypeOK /\ Sound(call[c])
        /\ call[c].pc \in {"settle", "close"} => k \in Write /\ Holds(c)
    BY CallFacts DEF Sound, Holds, IsWrite
  <1>2. q.op = k /\ q.reply = call[c].reply /\ q.pc = "close"
    BY <1>1 DEF CallState
  <1> HIDE DEF q
  <1>3. ASSUME NEW recorded \in BOOLEAN, call[c].pc = "settle",
               Proceed(c, recorded)
        PROVE  \/ Leave(c)
               \/ \E a \in Replies \ {"ok", "replayed"} : Answer(c, a)
               \/ SetCall(c, q)
               \/ Answer(c, "ok") /\ recorded /\ call[c].last = "ok"
    BY <1>3 DEF Proceed, Replies, q
  <1>4. CASE Settle(c)
    <2> DEFINE v == Verdict(call[c].last)
    <2>1. /\ v \in Journal /\ (call[c].last = "ok" => v = "succeeded")
          /\ Record(k, v) /\ Proceed(c, TRUE) /\ call[c].pc = "settle"
      BY <1>4 DEF Settle, Verdict, Journal
    <2> HIDE DEF v
    <2>2. journal[k] = "running" /\ call[c].reply \notin {"ok", "replayed"}
      BY <1>1, <2>1 DEF AllBacked, Backed
    <2>3. journal'[k] = v /\ \A i \in Write \ {k} : journal'[i] = journal[i]
      BY <1>1, <2>1, <2>2 DEF Record, Open, TypeOK
    <2>4. ASSUME NEW r, SetCall(c, r), Backed(r, journal')
          PROVE  AllBacked'
      BY <1>1, <2>1, <2>2, <2>3, <2>4, BackedStep
    <2>5. ASSUME NEW a \in Replies, Answer(c, a),
                 a \in {"ok", "replayed"} => v = "succeeded"
          PROVE  AllBacked'
      <3>1. /\ SetCall(c, Told(c, a)) /\ Told(c, a).pc = "done"
            /\ Told(c, a).op = k /\ Told(c, a).reply = a
        BY <1>1, <2>5, ToldFacts DEF Answer, Told
      <3>2. Backed(Told(c, a), journal')
        BY <2>3, <2>5, <3>1 DEF Backed
      <3>3. QED
        BY <2>4, <3>1, <3>2
    <2>6. CASE Leave(c)
      BY <2>4, <2>6, NoCallFacts DEF Leave, Backed, Op
    <2>7. CASE SetCall(c, q)
      BY <1>2, <2>2, <2>4, <2>7 DEF Backed
    <2>8. QED
      BY <1>3, <2>1, <2>5, <2>6, <2>7 DEF Replies
  <1>5. CASE SettleFault(c)
    <2>1. journal' = journal /\ Proceed(c, FALSE) /\ call[c].pc = "settle"
      BY <1>5 DEF SettleFault
    <2>2. QED
      BY <1>2, <1>3, <2>1, BackedEnds, BackedQuiet DEF Claims
  <1>6. ASSUME Closing(c)
        PROVE  \/ Leave(c)
               \/ \E a \in Replies \ {"ok", "replayed"} : Answer(c, a)
    BY <1>6 DEF Closing, Replies
  <1>7. CASE Close(c)
    <2>1. /\ call[c].pc = "close" /\ k \in Write /\ Holds(c)
          /\ Record(k, "indeterminate") /\ Closing(c)
      BY <1>1, <1>7 DEF Close
    <2>2. /\ \A i \in Write \ {k} : journal'[i] = journal[i]
          /\ journal'[k] = journal[k] \/ journal[k] \in {"running", "stale"}
      BY <1>1, <2>1 DEF Record, Open, TypeOK
    <2>3. CASE Leave(c)
      BY <2>1, <2>2, <2>3, NoCallFacts, BackedStep DEF Leave, Backed, Op
    <2>4. ASSUME NEW a \in Replies \ {"ok", "replayed"}, Answer(c, a)
          PROVE  AllBacked'
      <3>1. /\ SetCall(c, Told(c, a)) /\ Told(c, a).pc = "done"
            /\ Told(c, a).reply = a
        BY <1>1, <2>4, ToldFacts DEF Answer, Told
      <3>2. Backed(Told(c, a), journal')
        BY <3>1 DEF Backed
      <3>3. QED
        BY <2>1, <2>2, <3>1, <3>2, BackedStep
    <2>5. QED
      BY <1>6, <2>1, <2>3, <2>4
  <1>8. CASE CloseFault(c)
    BY <1>6, <1>8, BackedEnds DEF CloseFault
  <1>9. CASE Return(c)
    BY <1>9, BackedEnds DEF Return
  <1>10. QED
    BY <1>4, <1>5, <1>7, <1>8, <1>9 DEF Finish

\* Time, the world and dying processes.
LEMMA BackedBackground ==
    ASSUME IndInv, AllBacked, Prompt,
           \/ \E k \in Write : Land(k) \/ Age(k)
           \/ \E g \in Gate : \/ \E t \in Tool : Cool(g, t)
                              \/ \E j \in Read : Evict(g, j)
                              \/ Crash(g)
           \/ UNCHANGED vars
    PROVE  AllBacked'
  <1>1. TypeOK
    BY Pointwise
  <1>2. ASSUME NEW k \in Write, Land(k)
        PROVE  AllBacked'
    <2>1. ASSUME NEW c \in Call
          PROVE  /\ call'[c].pc = call[c].pc /\ call'[c].op = call[c].op
                 /\ call'[c].reply = call[c].reply
      <3> DEFINE d == Older(call[c].got)
      <3>1. call[c] \in CallState /\ call'[c] = [call[c] EXCEPT !.got = d]
        BY <1>1, <1>2 DEF Land, TypeOK
      <3> HIDE DEF d
      <3>2. QED
        BY <3>1 DEF CallState
    <2>2. QED
      BY <1>2, <2>1 DEF AllBacked, Backed, Land
  <1>3. ASSUME NEW k \in Write, Age(k)
        PROVE  AllBacked'
    <2>1. /\ \A i \in Write \ {k} : journal'[i] = journal[i]
          /\ journal[k] = "running" /\ call' = call
          /\ \A c \in Call : ~(Holds(c) /\ call[c].op = k)
      BY <1>1, <1>3 DEF Age, TypeOK
    <2>2. QED
      BY <2>1 DEF AllBacked, Backed, Holds, IsWrite
  <1>4. ASSUME NEW g \in Gate, Crash(g)
        PROVE  AllBacked'
    <2>1. \A c \in Call : call'[c] = NoCall \/ call'[c] = call[c]
      BY <1>4 DEF Crash
    <2>2. NoCall.op \notin Write /\ journal' = journal
      BY <1>4, NoCallFacts DEF Crash, Op
    <2>3. QED
      BY <2>1, <2>2 DEF AllBacked, Backed
  <1>5. ASSUME NEW g \in Gate, NEW t \in Tool, Cool(g, t)
        PROVE  AllBacked'
    BY <1>5 DEF Cool, AllBacked, Backed
  <1>6. ASSUME NEW g \in Gate, NEW j \in Read, Evict(g, j)
        PROVE  AllBacked'
    BY <1>6 DEF Evict, AllBacked, Backed
  <1>7. CASE UNCHANGED vars
    BY <1>7 DEF vars, AllBacked, Backed
  <1>8. QED
    BY <1>2, <1>3, <1>4, <1>5, <1>6, <1>7

\* Whoever has been told of a success will be told so again, by any process and
\* after any number of crashes (idempotency.py), as long as calls end before
\* their reservation gets stale.
THEOREM SuccessReplayableHolds == Spec => [](Prompt => SuccessReplayable)
  <1>1. Init => AllBacked
    <2>1. NoCall.op \notin Write
      BY NoCallFacts DEF Op
    <2>2. QED
      BY <2>1 DEF Init, AllBacked, Backed
  <1>2. IndInv /\ (Prompt => AllBacked) /\ [Next]_vars => (Prompt => AllBacked)'
    <2> SUFFICES ASSUME IndInv, AllBacked, Prompt, [Next]_vars
                 PROVE  AllBacked'
      OBVIOUS
    <2>1. ASSUME NEW c \in Call,
                 \/ \E g \in Gate : Begin(c, g)
                 \/ Reserve(c) \/ Enter(c) \/ Adapter(c) \/ Finish(c) \/ Cancel(c)
          PROVE  AllBacked'
      <3>1. CASE ReserveFault(c)
        BY <3>1, BackedEnds DEF ReserveFault, Replies
      <3>2. QED
        BY <2>1, <3>1, BackedBegin, BackedAcquire, BackedTaken, BackedAdapter,
           BackedFinish DEF Reserve
    <2>2. QED
      BY <2>1, BackedBackground DEF Next
  <1>3. AllBacked => SuccessReplayable
    BY DEF AllBacked, Backed, SuccessReplayable, IsWrite
  <1>4. QED
    BY <1>1, <1>2, <1>3, GatewayInvariant, PTL DEF Spec
===============================================================================
