--------------------------- MODULE DialogueProofs ---------------------------
(***************************************************************************)
(* What a client is told and what a model is given of a conversation, for  *)
(* every value of the constants of Dialogue: the invariants of the chat    *)
(* stream, of the task stream, of the summary and of the fit to a window.  *)
(***************************************************************************)
EXTENDS Dialogue, FiniteSetTheorems, FunctionTheorems, SequenceTheorems, WellFoundedInduction,
        TLAPS

\* What is in the queues, and what a client may be sent.
EvItem   == [k : {"token", "step", "ev_stop"}, n : Nat]
MsgItem  == [k : {"call", "result"}, n : StreamCall]
OutItem  == [k : {"token", "step", "msg_done"}, n : Nat]
            \cup [k : {"tool_start", "tool_end"}, n : StreamCall]
            \cup [k : {"err"}, n : {"raised", "timeout"}]
SentItem == [k : {"token", "step", "replace", "approval", "error", "done"}, n : Nat]
            \cup [k : {"tool_start", "tool_end"}, n : StreamCall]

\* The shape of every variable of the stream.
StreamTyped ==
    /\ graph \in {"run", "done", "paused", "failed"} /\ replies \in Nat /\ count \in Nat
    /\ toolCalls \in [StreamCall -> {"none", "called", "answered"}]
    /\ evq \in Seq(EvItem) /\ msgq \in Seq(MsgItem) /\ outq \in Seq(OutItem)
    /\ pump \in [{"msg", "ev"} -> {"run", "ended", "dead"}] /\ pump.msg # "dead"
    /\ seen \subseteq StreamCall /\ streamed \in Seq(Nat)
    /\ phase \in {"loop", "probe", "stop", "join", "drain", "blocked", "broken", "finish", "closed"}
    /\ error \in {"none", "raised", "timeout"}
         /\ probe \in {"none", "done", "paused", "failed", "lost"}
    /\ sent \in Seq(SentItem) /\ shown \in Seq(Nat)

No(q, k) == \A i \in DOMAIN q : q[i].k # k
At(q, e) == \E i \in DOMAIN q : q[i] = e
Begun(c) == Stream!Event("tool_start", c)
Ends(c)  == Stream!Event("tool_end", c)
Late     == {"stop", "join", "drain", "blocked", "broken", "finish"}

\* Each call is started once, in what was sent or what waits; its end, and its
\* result, come after.
Starts ==
    /\ \A c \in StreamCall : \A i, j \in DOMAIN sent : sent[i] = Begun(c) /\ sent[j] = Begun(c) => i = j
    /\ \A c \in StreamCall : \A i, j \in DOMAIN outq : outq[i] = Begun(c) /\ outq[j] = Begun(c) => i = j
    /\ \A c \in StreamCall : ~(At(sent, Begun(c)) /\ At(outq, Begun(c)))
    /\ \A c \in StreamCall : c \in seen <=> At(sent, Begun(c)) \/ At(outq, Begun(c))
    /\ \A c \in StreamCall : \A i \in DOMAIN sent : sent[i] = Ends(c)
         => \E j \in 1..(i - 1) : sent[j] = Begun(c)
    /\ \A c \in StreamCall : \A i \in DOMAIN outq : outq[i] = Ends(c) =>
          At(sent, Begun(c)) \/ \E j \in 1..(i - 1) : outq[j] = Begun(c)
    /\ \A i \in DOMAIN msgq : msgq[i].k = "result" =>
          msgq[i].n \in seen \/ \E j \in 1..(i - 1) : msgq[j] = Stream!Event("call", msgq[i].n)
    /\ \A c \in StreamCall : toolCalls[c] # "none" => c \in seen \/ At(msgq, Stream!Event("call", c))

\* The end of the messages is in the queue once, behind their error.
Ended(q) ==
    \E i \in DOMAIN q :
       /\ q[i].k = "msg_done"
       /\ \A j \in DOMAIN q : q[j].k = "msg_done" => j = i
       /\ \A j \in DOMAIN q : q[j].k = "err" => j < i

\* The messages end once, behind their error; after them the graph is over.
Messages ==
    /\ phase = "loop" /\ pump.msg = "run"
         => error = "none" /\ No(outq, "err") /\ No(outq, "msg_done")
    /\ phase = "loop" /\ pump.msg = "ended" =>
          Ended(outq)
    /\ phase \notin {"loop", "closed"}
         => pump.msg = "ended" /\ No(outq, "err") /\ No(outq, "msg_done")
    /\ phase # "closed" /\ pump.msg = "ended" =>
          /\ graph # "run" /\ (error # "none" => graph = "failed")
          /\ IF No(outq, "err")
               /\ error = "none" THEN graph \in {"done", "paused"} ELSE graph = "failed"
    /\ graph = "done" => replies > 0

\* A stop mark is the last of the events; there is one.
StopLast(q) == \A i \in DOMAIN q : q[i].k = "ev_stop" => i = Len(q)
Stopped(q)  == q # <<>> /\ q[Len(q)].k = "ev_stop"

\* The stop mark is the last of the events, and the event pump ends with it.
Events ==
    /\ StopLast(evq)
    /\ No(evq, "ev_stop") \/ phase \in {"join", "broken", "closed"}
    /\ phase \in {"loop", "probe", "stop"} => pump.ev # "ended"
    /\ phase = "join" /\ pump.ev = "run" => Stopped(evq)
    /\ phase = "join" /\ pump.ev = "ended" => evq = <<>>
    /\ phase \in {"drain", "blocked", "finish"} => pump.ev = "ended" /\ evq = <<>>
    /\ phase = "broken" => pump.ev = "dead"
    /\ phase \in {"blocked", "finish"} => outq = <<>>

\* What the generator knows of the turn.
Knows ==
    /\ phase \in {"loop", "probe"} => probe = "none"
    /\ phase = "probe" => error = "none"
    /\ phase \in Late => IF error = "none" THEN probe \in {graph, "lost"} ELSE probe = "none"
    /\ phase = "blocked" => error = "none" /\ probe # "paused"
    /\ phase # "closed" => No(sent, "done") /\ No(sent, "error") /\ No(sent, "approval")

\* What was streamed is what is shown and the tokens that wait: `h' places the
\* other `n' tokens in the queue.
PlacedAs(st, sh, q, n, h) ==
    /\ Len(sh) + n = Len(st)
    /\ \A i \in 1..Len(sh) : sh[i] = st[i]
    /\ \A i, j \in 1..n : i < j => h[i] < h[j]
    /\ \A i \in 1..n : q[h[i]] = Stream!Token(st[Len(sh) + i])
    /\ \A p \in DOMAIN q : q[p].k = "token" => \E i \in 1..n : h[i] = p
Follows(st, sh, q) == \E n \in 0..Len(st) : \E h \in [1..n -> DOMAIN q] : PlacedAs(st, sh, q, n, h)
Display ==
    /\ phase \in {"loop", "probe", "stop", "join", "drain"} => Follows(streamed, shown, outq)
    /\ phase \in {"blocked", "finish"} /\ error = "none" /\ probe = "done" =>
          shown = IF phase = "blocked" THEN <<0>> ELSE <<Stream!Final>>

\* A stream that closed by itself has said how the turn stood.
Said ==
    phase = "closed" =>
       /\ "run" \notin {pump.msg, pump.ev}
       /\ graph # "run"
       /\ \/ No(sent, "done") /\ No(sent, "error") /\ No(sent, "approval")
          \/ /\ pump.ev = "dead" /\ No(sent, "done") /\ No(sent, "approval")
             /\ IF error = "none" THEN probe \in {graph, "lost"} /\ graph \in {"done", "paused"}
                ELSE graph = "failed"
          \/ /\ pump.ev = "ended" /\ outq = <<>> /\ evq = <<>> /\ error # "none" /\ graph = "failed"
             /\ No(sent, "done") /\ No(sent, "approval") /\ Stream!Has("error")
          \/ /\ pump.ev = "ended" /\ outq = <<>> /\ evq = <<>> /\ error = "none"
             /\ graph \in {"done", "paused"} /\ probe \in {graph, "lost"}
             /\ Stream!Has("done") /\ Stream!Last(sent).k = "done"
             /\ probe = "paused" => Stream!Has("approval") /\ No(sent, "error")
             /\ probe # "paused" => No(sent, "approval")
             /\ probe = "done" => shown = IF Stream!Has("error") THEN <<0>> ELSE <<Stream!Final>>

StreamInv == StreamTyped /\ Starts /\ Messages /\ Events /\ Knows /\ Display /\ Said


\* The rest of a queue.
LEMMA TailFacts ==
  ASSUME NEW S, NEW q \in Seq(S), q # <<>>
  PROVE  /\ Head(q) \in S /\ Head(q) = q[1] /\ Tail(q) \in Seq(S)
         /\ Len(q) \in Nat \ {0} /\ Len(Tail(q)) = Len(q) - 1
         /\ DOMAIN q = 1..Len(q) /\ DOMAIN Tail(q) = 1..(Len(q) - 1)
         /\ \A i \in 1..(Len(q) - 1) : Tail(q)[i] = q[i + 1]
OBVIOUS

\* One item more.
LEMMA AppendFacts ==
  ASSUME NEW S, NEW q \in Seq(S), NEW e \in S
  PROVE  /\ Append(q, e) \in Seq(S) /\ Len(q) \in Nat /\ Len(Append(q, e)) = Len(q) + 1
         /\ DOMAIN q = 1..Len(q) /\ DOMAIN Append(q, e) = 1..(Len(q) + 1)
         /\ \A i \in 1..Len(q) : Append(q, e)[i] = q[i]
         /\ Append(q, e)[Len(q) + 1] = e
OBVIOUS

\* No item, one or two at the end.
LEMMA CatFacts ==
  ASSUME NEW S, NEW q \in Seq(S), NEW a \in S, NEW b \in S
  PROVE  /\ q \o <<>> = q /\ q \o <<a>> = Append(q, a)
         /\ q \o <<a, b>> = Append(Append(q, a), b)
<1>1. q \o <<>> = q /\ q \o <<a>> = Append(q, a)
  OBVIOUS
<1>2. q \o <<a, b>> = Append(Append(q, a), b)
  OBVIOUS
<1> QED BY <1>1, <1>2

\* Items are told apart by their kinds.
LEMMA Kind ==
  ASSUME NEW c \in StreamCall
  PROVE  /\ Begun(c).k = "tool_start" /\ Ends(c).k = "tool_end" /\ Begun(c) # Ends(c)
         /\ \A d \in StreamCall : (Begun(c) = Begun(d) => c = d) /\ Begun(c) # Ends(d)
         /\ \A d \in StreamCall : (Ends(c) = Ends(d) => c = d)
         /\ \A d \in StreamCall : (Stream!Event("call", c) = Stream!Event("call", d) => c = d)
BY DEF Begun, Ends, Stream!Event

\* An item is handed to the client.
LEMMA StartsMove ==
  ASSUME StreamTyped, Starts, outq # <<>>, Head(outq) \in SentItem,
         sent' = Append(sent, Head(outq)), outq' = Tail(outq), UNCHANGED <<toolCalls, msgq, seen>>
  PROVE  Starts'
<1> DEFINE e == Head(outq)
           n == Len(sent)
           m == Len(outq)
<1>1. /\ e = outq[1] /\ m \in Nat \ {0} /\ DOMAIN outq = 1..m /\ DOMAIN outq' = 1..(m - 1)
      /\ \A i \in 1..(m - 1) : outq'[i] = outq[i + 1]
  BY TailFacts DEF StreamTyped
<1>2. /\ n \in Nat /\ DOMAIN sent = 1..n /\ DOMAIN sent' = 1..(n + 1)
      /\ \A i \in 1..n : sent'[i] = sent[i]
      /\ sent'[n + 1] = e
  BY AppendFacts DEF StreamTyped
<1> HIDE DEF e, n, m
<1>3. ASSUME NEW c \in StreamCall
      PROVE  /\ At(sent', Begun(c)) <=> At(sent, Begun(c)) \/ e = Begun(c)
             /\ At(outq, Begun(c)) <=> At(outq', Begun(c)) \/ e = Begun(c)
             /\ e = Begun(c) => ~At(outq', Begun(c)) /\ ~At(sent, Begun(c))
  <2>1. At(sent', Begun(c)) <=> At(sent, Begun(c)) \/ e = Begun(c)
    BY <1>2 DEF At
  <2>2. At(outq, Begun(c)) <=> At(outq', Begun(c)) \/ e = Begun(c)
    <3>1. \A i \in 1..m : i = 1 \/ (i - 1 \in 1..(m - 1) /\ i = (i - 1) + 1)
      BY <1>1
    <3>2. ASSUME NEW i \in DOMAIN outq, outq[i] = Begun(c) PROVE At(outq', Begun(c)) \/ e = Begun(c)
      <4>1. CASE i = 1
        BY <3>2, <4>1, <1>1
      <4>2. CASE i # 1
        <5>1. i - 1 \in DOMAIN outq' /\ outq'[i - 1] = outq[i]
          BY <4>2, <1>1
        <5> QED BY <5>1, <3>2 DEF At
      <4> QED BY <4>1, <4>2
    <3>3. ASSUME NEW i \in DOMAIN outq', outq'[i] = Begun(c) PROVE At(outq, Begun(c))
      <4>1. i + 1 \in DOMAIN outq /\ outq[i + 1] = Begun(c)
        BY <3>3, <1>1
      <4> QED BY <4>1 DEF At
    <3>4. e = Begun(c) => At(outq, Begun(c))
      <4>1. 1 \in DOMAIN outq
        BY <1>1
      <4> QED BY <4>1, <1>1 DEF At
    <3> QED BY <3>2, <3>3, <3>4 DEF At
  <2>3. e = Begun(c) => ~At(outq', Begun(c))
    <3> SUFFICES ASSUME e = Begun(c), NEW i \in DOMAIN outq', outq'[i] = Begun(c) PROVE FALSE
      BY DEF At
    <3>1. i + 1 \in DOMAIN outq /\ 1 \in DOMAIN outq /\ outq[i + 1] = Begun(c)
              /\ outq[1] = Begun(c) /\ i + 1 # 1
      BY <1>1
    <3> QED BY <3>1 DEF Starts
  <2>4. e = Begun(c) => ~At(sent, Begun(c))
    <3>1. e = Begun(c) => At(outq, Begun(c))
      BY <2>2
    <3> QED BY <3>1 DEF Starts
  <2> QED BY <2>1, <2>2, <2>3, <2>4
<1>4. \A c \in StreamCall : \A i, j \in DOMAIN sent' : sent'[i] = Begun(c) /\ sent'[j] = Begun(c) => i = j
  <2> SUFFICES ASSUME NEW c \in StreamCall, NEW i \in DOMAIN sent', NEW j \in DOMAIN sent', i < j,
                      sent'[i] = Begun(c), sent'[j] = Begun(c) PROVE FALSE
    BY <1>2
  <2>1. i \in DOMAIN sent /\ sent[i] = Begun(c)
    BY <1>2
  <2>2. CASE j = n + 1
    BY <2>1, <2>2, <1>2, <1>3 DEF At
  <2>3. CASE j # n + 1
    <3>1. j \in DOMAIN sent /\ sent[j] = Begun(c)
      BY <2>3, <1>2
    <3> QED BY <2>1, <3>1 DEF Starts
  <2> QED BY <2>2, <2>3
<1>5. \A c \in StreamCall : \A i, j \in DOMAIN outq' : outq'[i] = Begun(c) /\ outq'[j] = Begun(c) => i = j
  <2> SUFFICES ASSUME NEW c \in StreamCall, NEW i \in DOMAIN outq', NEW j \in DOMAIN outq',
                      outq'[i] = Begun(c), outq'[j] = Begun(c) PROVE i = j
    OBVIOUS
  <2>1. i + 1 \in DOMAIN outq /\ j + 1 \in DOMAIN outq /\ outq[i + 1] = Begun(c)
            /\ outq[j + 1] = Begun(c)
    BY <1>1
  <2>2. i + 1 = j + 1
    BY <2>1 DEF Starts
  <2> QED BY <2>2, <1>1
<1>6. \A c \in StreamCall : ~(At(sent', Begun(c)) /\ At(outq', Begun(c)))
  BY <1>3 DEF Starts
<1>7. \A c \in StreamCall : c \in seen' <=> At(sent', Begun(c)) \/ At(outq', Begun(c))
  BY <1>3 DEF Starts
<1>8. \A c \in StreamCall : \A i \in DOMAIN sent' : sent'[i] = Ends(c)
          => \E j \in 1..(i - 1) : sent'[j] = Begun(c)
  <2> SUFFICES ASSUME NEW c \in StreamCall, NEW i \in DOMAIN sent', sent'[i] = Ends(c)
               PROVE  \E j \in 1..(i - 1) : sent'[j] = Begun(c)
    OBVIOUS
  <2>1. CASE i = n + 1
    <3>1. 1 \in DOMAIN outq /\ outq[1] = Ends(c)
      BY <2>1, <1>1, <1>2
    <3>2. At(sent, Begun(c)) \/ \E j \in 1..(1 - 1) : outq[j] = Begun(c)
      BY <3>1 DEF Starts
    <3>3. PICK j \in DOMAIN sent : sent[j] = Begun(c)
      BY <3>2 DEF At
    <3>4. j \in 1..(i - 1) /\ sent'[j] = Begun(c)
      BY <2>1, <3>3, <1>2
    <3> QED BY <3>4
  <2>2. CASE i # n + 1
    <3>1. i \in DOMAIN sent /\ sent[i] = Ends(c)
      BY <2>2, <1>2
    <3>2. PICK j \in 1..(i - 1) : sent[j] = Begun(c)
      BY <3>1 DEF Starts
    <3>3. sent'[j] = sent[j]
      BY <3>1, <1>2
    <3> QED BY <3>2, <3>3
  <2> QED BY <2>1, <2>2
<1>9. \A c \in StreamCall : \A i \in DOMAIN outq' : outq'[i] = Ends(c) =>
         At(sent', Begun(c)) \/ \E j \in 1..(i - 1) : outq'[j] = Begun(c)
  <2> SUFFICES ASSUME NEW c \in StreamCall, NEW i \in DOMAIN outq', outq'[i] = Ends(c), ~At(sent',
          Begun(c))
               PROVE  \E j \in 1..(i - 1) : outq'[j] = Begun(c)
    OBVIOUS
  <2>1. i + 1 \in DOMAIN outq /\ outq[i + 1] = Ends(c) /\ ~At(sent, Begun(c)) /\ e # Begun(c)
    BY <1>1, <1>3
  <2>2. PICK j \in 1..(i + 1 - 1) : outq[j] = Begun(c)
    BY <2>1 DEF Starts
  <2>3. j # 1 /\ j \in 1..i
    BY <2>1, <2>2, <1>1
  <2>4. j - 1 \in 1..(i - 1) /\ outq'[j - 1] = outq[j]
    BY <2>3, <1>1
  <2> QED BY <2>2, <2>4
<1>10. /\ \A i \in DOMAIN msgq' : msgq'[i].k = "result" =>
             msgq'[i].n \in seen'
                 \/ \E j \in 1..(i - 1) : msgq'[j] = Stream!Event("call", msgq'[i].n)
       /\ \A c \in StreamCall : toolCalls'[c] # "none"
            => c \in seen' \/ At(msgq', Stream!Event("call", c))
  BY DEF Starts
<1> QED BY <1>4, <1>5, <1>6, <1>7, <1>8, <1>9, <1>10 DEF Starts, Begun, Ends, Stream!Event


\* What is in a queue when one item is taken, or added.
LEMMA AtTail ==
  ASSUME NEW S, NEW q \in Seq(S), q # <<>>, NEW x
  PROVE  At(q, x) <=> At(Tail(q), x) \/ Head(q) = x
<1>1. /\ Head(q) = q[1] /\ Len(q) \in Nat \ {0} /\ DOMAIN q = 1..Len(q)
           /\ DOMAIN Tail(q) = 1..(Len(q) - 1)
      /\ \A i \in 1..(Len(q) - 1) : Tail(q)[i] = q[i + 1]
  BY TailFacts
<1>2. ASSUME NEW i \in DOMAIN q, q[i] = x PROVE At(Tail(q), x) \/ Head(q) = x
  <2>1. CASE i = 1
    BY <1>1, <1>2, <2>1
  <2>2. CASE i # 1
    <3>1. i - 1 \in DOMAIN Tail(q) /\ Tail(q)[i - 1] = q[i]
      BY <2>2, <1>1
    <3> QED BY <3>1, <1>2 DEF At
  <2> QED BY <2>1, <2>2
<1>3. ASSUME NEW i \in DOMAIN Tail(q), Tail(q)[i] = x PROVE At(q, x)
  <2>1. i + 1 \in DOMAIN q /\ q[i + 1] = x
    BY <1>1, <1>3
  <2> QED BY <2>1 DEF At
<1>4. Head(q) = x => At(q, x)
  <2>1. 1 \in DOMAIN q
    BY <1>1
  <2> QED BY <2>1, <1>1 DEF At
<1> QED BY <1>2, <1>3, <1>4 DEF At

\* What is in a longer queue.
LEMMA AtAppend ==
  ASSUME NEW S, NEW q \in Seq(S), NEW e \in S, NEW x
  PROVE  At(Append(q, e), x) <=> At(q, x) \/ e = x
<1>1. /\ Len(q) \in Nat /\ DOMAIN q = 1..Len(q) /\ DOMAIN Append(q, e) = 1..(Len(q) + 1)
      /\ \A i \in 1..Len(q) : Append(q, e)[i] = q[i]
      /\ Append(q, e)[Len(q) + 1] = e
  BY AppendFacts
<1> HIDE DEF At
<1>2. ASSUME NEW i \in DOMAIN Append(q, e), Append(q, e)[i] = x PROVE At(q, x) \/ e = x
  <2>1. i \in 1..Len(q) \/ i = Len(q) + 1
    BY <1>1
  <2> QED BY <2>1, <1>1, <1>2 DEF At
<1>3. ASSUME NEW i \in DOMAIN q, q[i] = x PROVE At(Append(q, e), x)
  <2>1. i \in DOMAIN Append(q, e) /\ Append(q, e)[i] = x
    BY <1>1, <1>3
  <2> QED BY <2>1 DEF At
<1>4. e = x => At(Append(q, e), x)
  <2>1. Len(q) + 1 \in DOMAIN Append(q, e)
    BY <1>1
  <2> QED BY <2>1, <1>1 DEF At
<1> QED BY <1>2, <1>3, <1>4 DEF At

\* No item of a kind.
LEMMA NoTail ==
  ASSUME NEW S, NEW q \in Seq(S), q # <<>>, NEW k
  PROVE  No(q, k) <=> No(Tail(q), k) /\ Head(q).k # k
<1>1. /\ Head(q) = q[1] /\ Len(q) \in Nat \ {0} /\ DOMAIN q = 1..Len(q)
           /\ DOMAIN Tail(q) = 1..(Len(q) - 1)
      /\ \A i \in 1..(Len(q) - 1) : Tail(q)[i] = q[i + 1]
  BY TailFacts
<1>2. ASSUME No(q, k) PROVE No(Tail(q), k) /\ Head(q).k # k
  <2>1. Head(q).k # k
    <3>1. 1 \in DOMAIN q
      BY <1>1
    <3> QED BY <3>1, <1>1, <1>2 DEF No
  <2>2. ASSUME NEW i \in DOMAIN Tail(q) PROVE Tail(q)[i].k # k
    <3>1. i + 1 \in DOMAIN q /\ q[i + 1] = Tail(q)[i]
      BY <1>1
    <3> QED BY <3>1, <1>2 DEF No
  <2> QED BY <2>1, <2>2 DEF No
<1>3. ASSUME No(Tail(q), k), Head(q).k # k, NEW i \in DOMAIN q PROVE q[i].k # k
  <2>1. CASE i = 1
    BY <1>1, <1>3, <2>1
  <2>2. CASE i # 1
    <3>1. i - 1 \in DOMAIN Tail(q) /\ Tail(q)[i - 1] = q[i]
      BY <2>2, <1>1
    <3> QED BY <3>1, <1>3 DEF No
  <2> QED BY <2>1, <2>2
<1> QED BY <1>2, <1>3 DEF No

\* What is in no place of a longer queue.
LEMMA NoAppend ==
  ASSUME NEW S, NEW q \in Seq(S), NEW e \in S, NEW k
  PROVE  No(Append(q, e), k) <=> No(q, k) /\ e.k # k
<1>1. /\ Len(q) \in Nat /\ DOMAIN q = 1..Len(q) /\ DOMAIN Append(q, e) = 1..(Len(q) + 1)
      /\ \A i \in 1..Len(q) : Append(q, e)[i] = q[i]
      /\ Append(q, e)[Len(q) + 1] = e
  BY AppendFacts
<1>2. ASSUME No(Append(q, e), k) PROVE No(q, k) /\ e.k # k
  <2>1. e.k # k
    <3>1. Len(q) + 1 \in DOMAIN Append(q, e)
      BY <1>1
    <3> QED BY <3>1, <1>1, <1>2 DEF No
  <2>2. ASSUME NEW i \in DOMAIN q PROVE q[i].k # k
    <3>1. i \in DOMAIN Append(q, e) /\ q[i] = Append(q, e)[i]
      BY <1>1
    <3> QED BY <3>1, <1>2 DEF No
  <2> QED BY <2>1, <2>2 DEF No
<1>3. ASSUME No(q, k), e.k # k, NEW i \in DOMAIN Append(q, e) PROVE Append(q, e)[i].k # k
  <2>1. i \in 1..Len(q) \/ i = Len(q) + 1
    BY <1>1
  <2> QED BY <2>1, <1>1, <1>3 DEF No
<1> QED BY <1>2, <1>3 DEF No

\* An end of the messages is taken from the queue.
LEMMA StartsDrop ==
  ASSUME StreamTyped, Starts, outq # <<>>, Head(outq).k \in {"err", "msg_done"},
         outq' = Tail(outq), UNCHANGED <<sent, toolCalls, msgq, seen>>
  PROVE  Starts'
<1>1. /\ Head(outq) = outq[1] /\ Len(outq) \in Nat \ {0} /\ DOMAIN outq = 1..Len(outq)
      /\ DOMAIN outq' = 1..(Len(outq) - 1)
      /\ \A i \in 1..(Len(outq) - 1) : outq'[i] = outq[i + 1]
  BY TailFacts DEF StreamTyped
<1>2. ASSUME NEW c \in StreamCall PROVE At(outq', Begun(c)) <=> At(outq, Begun(c))
  <2>1. At(outq, Begun(c)) <=> At(Tail(outq), Begun(c)) \/ Head(outq) = Begun(c)
    <3>1. outq \in Seq(OutItem)
      BY DEF StreamTyped
    <3> QED BY <3>1, AtTail
  <2> QED BY <2>1, Kind
<1>3. \A c \in StreamCall : \A i, j \in DOMAIN outq' : outq'[i] = Begun(c) /\ outq'[j] = Begun(c) => i = j
  <2> SUFFICES ASSUME NEW c \in StreamCall, NEW i \in DOMAIN outq', NEW j \in DOMAIN outq',
                      outq'[i] = Begun(c), outq'[j] = Begun(c) PROVE i = j
    OBVIOUS
  <2>1. i + 1 \in DOMAIN outq /\ j + 1 \in DOMAIN outq /\ outq[i + 1] = Begun(c)
            /\ outq[j + 1] = Begun(c)
    BY <1>1
  <2>2. i + 1 = j + 1
    BY <2>1 DEF Starts
  <2> QED BY <2>2, <1>1
<1>4. \A c \in StreamCall : \A i \in DOMAIN outq' : outq'[i] = Ends(c) =>
         At(sent, Begun(c)) \/ \E j \in 1..(i - 1) : outq'[j] = Begun(c)
  <2> SUFFICES ASSUME NEW c \in StreamCall, NEW i \in DOMAIN outq', outq'[i] = Ends(c), ~At(sent,
          Begun(c))
               PROVE  \E j \in 1..(i - 1) : outq'[j] = Begun(c)
    OBVIOUS
  <2>1. i + 1 \in DOMAIN outq /\ outq[i + 1] = Ends(c)
    BY <1>1
  <2>2. PICK j \in 1..(i + 1 - 1) : outq[j] = Begun(c)
    BY <2>1 DEF Starts
  <2>3. j # 1 /\ j \in 1..i
    BY <2>1, <2>2, <1>1, Kind
  <2>4. j - 1 \in 1..(i - 1) /\ outq'[j - 1] = outq[j]
    BY <2>3, <1>1
  <2> QED BY <2>2, <2>4
<1>5. \A c \in StreamCall : At(sent', Begun(c)) <=> At(sent, Begun(c))
  OBVIOUS
<1>6. \A c \in StreamCall : ~(At(sent', Begun(c)) /\ At(outq', Begun(c)))
  BY <1>2, <1>5 DEF Starts
<1>7. \A c \in StreamCall : c \in seen' <=> At(sent', Begun(c)) \/ At(outq', Begun(c))
  BY <1>2, <1>5 DEF Starts
<1>8. sent' = sent /\ toolCalls' = toolCalls /\ msgq' = msgq /\ seen' = seen
  OBVIOUS
<1>9. /\ \A i \in DOMAIN msgq' : msgq'[i].k = "result" =>
            msgq'[i].n \in seen'
                \/ \E j \in 1..(i - 1) : msgq'[j] = Stream!Event("call", msgq'[i].n)
      /\ \A c \in StreamCall : toolCalls'[c] # "none" => c \in seen' \/ At(msgq', Stream!Event("call", c))
      /\ \A c \in StreamCall : \A i, j \in DOMAIN sent' : sent'[i] = Begun(c) /\ sent'[j] = Begun(c)
           => i = j
      /\ \A c \in StreamCall : \A i \in DOMAIN sent' : sent'[i] = Ends(c)
           => \E j \in 1..(i - 1) : sent'[j] = Begun(c)
  BY <1>8 DEF Starts
<1>10. \A c \in StreamCall : At(sent', Begun(c)) = At(sent, Begun(c))
  BY <1>8
<1> QED BY <1>3, <1>4, <1>6, <1>7, <1>9, <1>10 DEF Starts, Begun, Ends, Stream!Event

\* The generator says something of its own.
LEMMA StartsSay ==
  ASSUME StreamTyped, Starts, NEW e \in SentItem, e.k \notin {"tool_start", "tool_end"},
         sent' = Append(sent, e), UNCHANGED <<outq, toolCalls, msgq, seen>>
  PROVE  Starts'
<1>1. /\ Len(sent) \in Nat /\ DOMAIN sent = 1..Len(sent) /\ DOMAIN sent' = 1..(Len(sent) + 1)
      /\ \A i \in 1..Len(sent) : sent'[i] = sent[i]
      /\ sent'[Len(sent) + 1] = e
  BY AppendFacts DEF StreamTyped
<1>2. ASSUME NEW c \in StreamCall PROVE e # Begun(c) /\ e # Ends(c)
  BY Kind
<1>3. ASSUME NEW c \in StreamCall PROVE At(sent', Begun(c)) <=> At(sent, Begun(c))
  <2>1. sent \in Seq(SentItem)
    BY DEF StreamTyped
  <2> QED BY <2>1, AtAppend, <1>2
<1>4. ASSUME NEW c \in StreamCall, NEW i \in DOMAIN sent', sent'[i] = Begun(c) \/ sent'[i] = Ends(c)
      PROVE  i \in DOMAIN sent /\ sent'[i] = sent[i]
  BY <1>1, <1>2, <1>4
<1>5. \A c \in StreamCall : \A i, j \in DOMAIN sent' : sent'[i] = Begun(c) /\ sent'[j] = Begun(c) => i = j
  BY <1>4 DEF Starts
<1>6. \A c \in StreamCall : \A i \in DOMAIN sent' : sent'[i] = Ends(c)
          => \E j \in 1..(i - 1) : sent'[j] = Begun(c)
  <2> SUFFICES ASSUME NEW c \in StreamCall, NEW i \in DOMAIN sent', sent'[i] = Ends(c)
               PROVE  \E j \in 1..(i - 1) : sent'[j] = Begun(c)
    OBVIOUS
  <2>1. i \in DOMAIN sent /\ sent[i] = Ends(c)
    BY <1>4
  <2>2. PICK j \in 1..(i - 1) : sent[j] = Begun(c)
    BY <2>1 DEF Starts
  <2>3. sent'[j] = sent[j]
    BY <2>1, <1>1
  <2> QED BY <2>2, <2>3
<1>7. \A c \in StreamCall : ~(At(sent', Begun(c)) /\ At(outq', Begun(c)))
  BY <1>3 DEF Starts
<1>8. \A c \in StreamCall : c \in seen' <=> At(sent', Begun(c)) \/ At(outq', Begun(c))
  BY <1>3 DEF Starts
<1>9. \A c \in StreamCall : \A i \in DOMAIN outq' : outq'[i] = Ends(c) =>
         At(sent', Begun(c)) \/ \E j \in 1..(i - 1) : outq'[j] = Begun(c)
  BY <1>3 DEF Starts
<1>10. outq' = outq /\ toolCalls' = toolCalls /\ msgq' = msgq /\ seen' = seen
  OBVIOUS
<1> QED BY <1>5, <1>6, <1>7, <1>8, <1>9, <1>10 DEF Starts, Begun, Ends, Stream!Event

\* An item that is no mark of a call is added to the queue.
LEMMA StartsPut ==
  ASSUME StreamTyped, Starts, NEW e \in OutItem, e.k \notin {"tool_start", "tool_end"},
         outq' = Append(outq, e), UNCHANGED <<sent, toolCalls, msgq, seen>>
  PROVE  Starts'
<1>1. /\ Len(outq) \in Nat /\ DOMAIN outq = 1..Len(outq) /\ DOMAIN outq' = 1..(Len(outq) + 1)
      /\ \A i \in 1..Len(outq) : outq'[i] = outq[i]
      /\ outq'[Len(outq) + 1] = e
  BY AppendFacts DEF StreamTyped
<1>2. ASSUME NEW c \in StreamCall PROVE e # Begun(c) /\ e # Ends(c)
  BY Kind
<1>3. ASSUME NEW c \in StreamCall PROVE At(outq', Begun(c)) <=> At(outq, Begun(c))
  <2>1. outq \in Seq(OutItem)
    BY DEF StreamTyped
  <2> QED BY <2>1, AtAppend, <1>2
<1>4. ASSUME NEW c \in StreamCall, NEW i \in DOMAIN outq', outq'[i] = Begun(c) \/ outq'[i] = Ends(c)
      PROVE  i \in DOMAIN outq /\ outq'[i] = outq[i]
  BY <1>1, <1>2, <1>4
<1>5. \A c \in StreamCall : \A i, j \in DOMAIN outq' : outq'[i] = Begun(c) /\ outq'[j] = Begun(c) => i = j
  BY <1>4 DEF Starts
<1>6. \A c \in StreamCall : \A i \in DOMAIN outq' : outq'[i] = Ends(c) =>
         At(sent', Begun(c)) \/ \E j \in 1..(i - 1) : outq'[j] = Begun(c)
  <2> SUFFICES ASSUME NEW c \in StreamCall, NEW i \in DOMAIN outq', outq'[i] = Ends(c), ~At(sent,
          Begun(c))
               PROVE  \E j \in 1..(i - 1) : outq'[j] = Begun(c)
    OBVIOUS
  <2>1. i \in DOMAIN outq /\ outq[i] = Ends(c)
    BY <1>4
  <2>2. PICK j \in 1..(i - 1) : outq[j] = Begun(c)
    BY <2>1 DEF Starts
  <2>3. outq'[j] = outq[j]
    BY <2>1, <1>1
  <2> QED BY <2>2, <2>3
<1>7. \A c \in StreamCall : ~(At(sent', Begun(c)) /\ At(outq', Begun(c)))
  BY <1>3 DEF Starts
<1>8. \A c \in StreamCall : c \in seen' <=> At(sent', Begun(c)) \/ At(outq', Begun(c))
  BY <1>3 DEF Starts
<1>10. sent' = sent /\ toolCalls' = toolCalls /\ msgq' = msgq /\ seen' = seen
  OBVIOUS
<1> QED BY <1>5, <1>6, <1>7, <1>8, <1>10 DEF Starts, Begun, Ends, Stream!Event

\* Items are added that are no mark of a call.
LEMMA StartsEnd ==
  ASSUME StreamTyped, Starts, UNCHANGED <<sent, toolCalls, msgq, seen>>,
         \A c \in StreamCall : At(outq', Begun(c)) <=> At(outq, Begun(c)),
         Len(outq) \in Nat, DOMAIN outq = 1..Len(outq), DOMAIN outq' = 1..(Len(outq) + 2),
         \A i \in 1..Len(outq) : outq'[i] = outq[i],
         outq'[Len(outq) + 1].k \in {"err", "msg_done"}, outq'[Len(outq) + 2].k \in {"err",
             "msg_done"}
  PROVE  Starts'
<1>4. ASSUME NEW c \in StreamCall, NEW i \in DOMAIN outq', outq'[i] = Begun(c) \/ outq'[i] = Ends(c)
      PROVE  i \in DOMAIN outq /\ outq'[i] = outq[i]
  <2>1. i \in 1..Len(outq) \/ i = Len(outq) + 1 \/ i = Len(outq) + 2
    OBVIOUS
  <2>2. outq'[i].k \in {"tool_start", "tool_end"}
    BY <1>4, Kind
  <2> QED BY <2>1, <2>2
<1>5. \A c \in StreamCall : \A i, j \in DOMAIN outq' : outq'[i] = Begun(c) /\ outq'[j] = Begun(c) => i = j
  BY <1>4 DEF Starts
<1>6. \A c \in StreamCall : \A i \in DOMAIN outq' : outq'[i] = Ends(c) =>
         At(sent', Begun(c)) \/ \E j \in 1..(i - 1) : outq'[j] = Begun(c)
  <2> SUFFICES ASSUME NEW c \in StreamCall, NEW i \in DOMAIN outq', outq'[i] = Ends(c), ~At(sent,
          Begun(c))
               PROVE  \E j \in 1..(i - 1) : outq'[j] = Begun(c)
    OBVIOUS
  <2>1. i \in DOMAIN outq /\ outq[i] = Ends(c)
    BY <1>4
  <2>2. PICK j \in 1..(i - 1) : outq[j] = Begun(c)
    BY <2>1 DEF Starts
  <2>3. outq'[j] = outq[j]
    BY <2>1
  <2> QED BY <2>2, <2>3
<1>7. \A c \in StreamCall : ~(At(sent', Begun(c)) /\ At(outq', Begun(c)))
  BY DEF Starts
<1>8. \A c \in StreamCall : c \in seen' <=> At(sent', Begun(c)) \/ At(outq', Begun(c))
  BY DEF Starts
<1>10. sent' = sent /\ toolCalls' = toolCalls /\ msgq' = msgq /\ seen' = seen
  OBVIOUS
<1> QED BY <1>5, <1>6, <1>7, <1>8, <1>10 DEF Starts, Begun, Ends, Stream!Event

\* Two events are said that are no mark of a call.
LEMMA StartsClose ==
  ASSUME StreamTyped, Starts, UNCHANGED <<outq, toolCalls, msgq, seen>>,
         \A c \in StreamCall : At(sent', Begun(c)) <=> At(sent, Begun(c)),
         Len(sent) \in Nat, \A i \in 1..Len(sent) : sent'[i] = sent[i],
         \A i \in DOMAIN sent' : i = Len(sent) + 1 \/ i = Len(sent) + 2 \/ i \in 1..Len(sent),
         sent'[Len(sent) + 1].k \notin {"tool_start", "tool_end"},
         sent'[Len(sent) + 2].k \notin {"tool_start", "tool_end"}
  PROVE  Starts'
<1>1. DOMAIN sent = 1..Len(sent)
  BY DEF StreamTyped
<1>4. ASSUME NEW c \in StreamCall, NEW i \in DOMAIN sent', sent'[i] = Begun(c) \/ sent'[i] = Ends(c)
      PROVE  i \in DOMAIN sent /\ sent'[i] = sent[i]
  <2>2. sent'[i].k \in {"tool_start", "tool_end"}
    BY <1>4, Kind
  <2> QED BY <1>1, <2>2
<1>5. \A c \in StreamCall : \A i, j \in DOMAIN sent' : sent'[i] = Begun(c) /\ sent'[j] = Begun(c) => i = j
  BY <1>4 DEF Starts
<1>6. \A c \in StreamCall : \A i \in DOMAIN sent' : sent'[i] = Ends(c)
          => \E j \in 1..(i - 1) : sent'[j] = Begun(c)
  <2> SUFFICES ASSUME NEW c \in StreamCall, NEW i \in DOMAIN sent', sent'[i] = Ends(c)
               PROVE  \E j \in 1..(i - 1) : sent'[j] = Begun(c)
    OBVIOUS
  <2>1. i \in DOMAIN sent /\ sent[i] = Ends(c)
    BY <1>4
  <2>2. PICK j \in 1..(i - 1) : sent[j] = Begun(c)
    BY <2>1 DEF Starts
  <2>3. sent'[j] = sent[j]
    BY <2>1, <1>1
  <2> QED BY <2>2, <2>3
<1>7. \A c \in StreamCall : ~(At(sent', Begun(c)) /\ At(outq', Begun(c)))
  BY DEF Starts
<1>8. \A c \in StreamCall : c \in seen' <=> At(sent', Begun(c)) \/ At(outq', Begun(c))
  BY DEF Starts
<1>9. \A c \in StreamCall : \A i \in DOMAIN outq' : outq'[i] = Ends(c) =>
         At(sent', Begun(c)) \/ \E j \in 1..(i - 1) : outq'[j] = Begun(c)
  BY DEF Starts
<1>10. outq' = outq /\ toolCalls' = toolCalls /\ msgq' = msgq /\ seen' = seen
  OBVIOUS
<1> QED BY <1>5, <1>6, <1>7, <1>8, <1>9, <1>10 DEF Starts, Begun, Ends, Stream!Event

\* Nothing of it moves.
LEMMA StartsSame ==
  ASSUME Starts, UNCHANGED <<sent, outq, toolCalls, msgq, seen>>
  PROVE  Starts'
BY DEF Starts, At, Begun, Ends, Stream!Event

\* The graph writes a message of a call.
LEMMA StartsGraph ==
  ASSUME StreamTyped, Starts, NEW k \in {"call", "result"}, NEW c \in StreamCall, Stream!Message(k, c)
  PROVE  Starts'
<1>1. /\ msgq' = Append(msgq, Stream!Event(k, c)) /\ sent' = sent /\ outq' = outq /\ seen' = seen
      /\ toolCalls' = [toolCalls EXCEPT ![c] = IF k = "call" THEN "called" ELSE "answered"]
      /\ toolCalls[c] \in IF k = "call" THEN {"none", "called"} ELSE {"called"}
  BY DEF Stream!Message
<1>2. Stream!Event(k, c) \in MsgItem /\ Stream!Event(k, c).k = k /\ Stream!Event(k, c).n = c
          /\ msgq \in Seq(MsgItem)
  BY DEF Stream!Event, MsgItem, StreamTyped
<1>3. /\ Len(msgq) \in Nat /\ DOMAIN msgq = 1..Len(msgq) /\ DOMAIN msgq' = 1..(Len(msgq) + 1)
      /\ \A i \in 1..Len(msgq) : msgq'[i] = msgq[i]
      /\ msgq'[Len(msgq) + 1] = Stream!Event(k, c)
  BY <1>1, <1>2, AppendFacts
<1>4. \A d \in StreamCall : At(msgq', Stream!Event("call", d)) <=> At(msgq, Stream!Event("call", d))
          \/ Stream!Event(k, c) = Stream!Event("call", d)
  BY <1>1, <1>2, AtAppend
<1>5. \A i \in DOMAIN msgq' : msgq'[i].k = "result" =>
          msgq'[i].n \in seen' \/ \E j \in 1..(i - 1) : msgq'[j] = Stream!Event("call", msgq'[i].n)
  <2> SUFFICES ASSUME NEW i \in DOMAIN msgq', msgq'[i].k = "result", msgq'[i].n \notin seen
               PROVE  \E j \in 1..(i - 1) : msgq'[j] = Stream!Event("call", msgq'[i].n)
    BY <1>1
  <2>1. CASE i = Len(msgq) + 1
    <3>1. k = "result" /\ msgq'[i].n = c /\ toolCalls[c] # "none"
      BY <2>1, <1>3, <1>2, <1>1
    <3>2. At(msgq, Stream!Event("call", c))
      BY <3>1 DEF Starts
    <3>3. PICK j \in DOMAIN msgq : msgq[j] = Stream!Event("call", c)
      BY <3>2 DEF At
    <3>4. j \in 1..(i - 1) /\ msgq'[j] = Stream!Event("call", c)
      BY <3>3, <2>1, <1>3
    <3> QED BY <3>4, <3>1
  <2>2. CASE i # Len(msgq) + 1
    <3>1. i \in DOMAIN msgq /\ msgq'[i] = msgq[i]
      BY <2>2, <1>3
    <3>2. PICK j \in 1..(i - 1) : msgq[j] = Stream!Event("call", msgq[i].n)
      BY <3>1 DEF Starts
    <3>3. msgq'[j] = msgq[j]
      BY <3>1, <1>3
    <3> QED BY <3>1, <3>2, <3>3
  <2> QED BY <2>1, <2>2
<1>6. \A d \in StreamCall : toolCalls'[d] # "none" => d \in seen' \/ At(msgq', Stream!Event("call", d))
  <2> SUFFICES ASSUME NEW d \in StreamCall, toolCalls'[d] # "none" PROVE d \in seen
          \/ At(msgq', Stream!Event("call", d))
    BY <1>1
  <2>1. CASE d = c /\ k = "call"
    BY <2>1, <1>4
  <2>2. CASE ~(d = c /\ k = "call")
    <3>1. toolCalls[d] # "none"
      BY <2>2, <1>1 DEF StreamTyped
    <3> QED BY <3>1, <1>4 DEF Starts
  <2> QED BY <2>1, <2>2
<1>7. \A d \in StreamCall : At(sent', Begun(d)) = At(sent, Begun(d))
          /\ At(outq', Begun(d)) = At(outq, Begun(d))
  BY <1>1
<1>8. /\ \A d \in StreamCall : \A i, j \in DOMAIN sent' : sent'[i] = Begun(d) /\ sent'[j] = Begun(d)
           => i = j
      /\ \A d \in StreamCall : \A i, j \in DOMAIN outq' : outq'[i] = Begun(d) /\ outq'[j] = Begun(d)
           => i = j
      /\ \A d \in StreamCall : \A i \in DOMAIN sent' : sent'[i] = Ends(d)
           => \E j \in 1..(i - 1) : sent'[j] = Begun(d)
      /\ \A d \in StreamCall : \A i \in DOMAIN outq' : outq'[i] = Ends(d) =>
            At(sent', Begun(d)) \/ \E j \in 1..(i - 1) : outq'[j] = Begun(d)
  BY <1>1 DEF Starts
<1>9. /\ \A d \in StreamCall : ~(At(sent', Begun(d)) /\ At(outq', Begun(d)))
      /\ \A d \in StreamCall : d \in seen' <=> At(sent', Begun(d)) \/ At(outq', Begun(d))
  BY <1>1, <1>7 DEF Starts
<1> QED BY <1>5, <1>6, <1>8, <1>9 DEF Starts, Begun, Ends, Stream!Event

\* The message pump takes one message.
LEMMA StartsMsg ==
  ASSUME StreamTyped, Starts, Stream!MsgPump
  PROVE  Starts'
<1> DEFINE m == Head(msgq)
           c == m.n
<1>1. /\ msgq # <<>> /\ msgq' = Tail(msgq) /\ sent' = sent /\ toolCalls' = toolCalls
      /\ IF m.k = "call"
         THEN /\ seen' = seen \cup {c}
              /\ outq' = IF c \in seen THEN outq ELSE Append(outq, Stream!Event("tool_start", c))
         ELSE seen' = seen /\ outq' = Append(outq, Stream!Event("tool_end", c))
  BY DEF Stream!MsgPump, Stream!source
<1>2. /\ m = msgq[1] /\ m \in MsgItem /\ Len(msgq) \in Nat \ {0} /\ DOMAIN msgq = 1..Len(msgq)
      /\ DOMAIN msgq' = 1..(Len(msgq) - 1) /\ msgq \in Seq(MsgItem)
      /\ \A i \in 1..(Len(msgq) - 1) : msgq'[i] = msgq[i + 1]
  BY <1>1, TailFacts DEF StreamTyped
<1>3. /\ m.k \in {"call", "result"} /\ c \in StreamCall /\ seen \subseteq StreamCall /\ outq \in Seq(OutItem)
      /\ m.k = "call" => m = Stream!Event("call", c)
  BY <1>2 DEF MsgItem, Stream!Event, StreamTyped
<1>4. m.k = "result" => c \in seen
  <2> SUFFICES ASSUME m.k = "result", c \notin seen PROVE FALSE
    OBVIOUS
  <2>1. 1 \in DOMAIN msgq
    BY <1>2
  <2>2. \E j \in 1..(1 - 1) : msgq[j] = Stream!Event("call", c)
    BY <2>1, <1>2 DEF Starts
  <2> QED BY <2>2
<1>5. Stream!Event("tool_start", c) \in OutItem /\ Stream!Event("tool_end", c) \in OutItem
  BY <1>3 DEF Stream!Event, OutItem
<1> HIDE DEF c
<1>6. \A d \in StreamCall : At(msgq, Stream!Event("call", d))
          => At(msgq', Stream!Event("call", d)) \/ (m.k = "call" /\ c = d)
  <2> SUFFICES ASSUME NEW d \in StreamCall, At(msgq, Stream!Event("call", d)), ~At(msgq',
          Stream!Event("call", d))
               PROVE  m.k = "call" /\ c = d
    OBVIOUS
  <2>1. m = Stream!Event("call", d)
    BY <1>1, <1>2, AtTail
  <2> QED BY <2>1 DEF Stream!Event, c
<1> HIDE DEF m
<1>7. \A i \in DOMAIN msgq' : msgq'[i].k = "result" =>
          msgq'[i].n \in seen' \/ \E j \in 1..(i - 1) : msgq'[j] = Stream!Event("call", msgq'[i].n)
  <2> SUFFICES ASSUME NEW i \in DOMAIN msgq', msgq'[i].k = "result", msgq'[i].n \notin seen'
               PROVE  \E j \in 1..(i - 1) : msgq'[j] = Stream!Event("call", msgq'[i].n)
    OBVIOUS
  <2>1. i + 1 \in DOMAIN msgq /\ msgq'[i] = msgq[i + 1] /\ msgq'[i].n \notin seen
    BY <1>1, <1>2, <1>3
  <2>2. PICK j \in 1..(i + 1 - 1) : msgq[j] = Stream!Event("call", msgq'[i].n)
    <3>1. PICK p \in DOMAIN msgq : p = i + 1 /\ msgq[p] = msgq'[i]
      BY <2>1
    <3>2. msgq[p].k = "result" /\ msgq[p].n \notin seen
      BY <2>1, <3>1
    <3>3. \E j \in 1..(p - 1) : msgq[j] = Stream!Event("call", msgq[p].n)
      BY <3>2 DEF Starts
    <3> QED BY <1>2, <3>1, <3>3
  <2>3. j # 1
    <3> SUFFICES ASSUME j = 1 PROVE FALSE
      OBVIOUS
    <3>1. m = Stream!Event("call", msgq'[i].n)
      BY <2>2, <1>2
    <3>2. m.k = "call" /\ m.n = msgq'[i].n
      BY <3>1 DEF Stream!Event
    <3>3. seen' = seen \cup {m.n}
      BY <3>2, <1>1 DEF c
    <3> QED BY <3>3, <3>2
  <2>4. j - 1 \in 1..(i - 1) /\ msgq'[j - 1] = msgq[j]
    BY <2>1, <2>3, <1>2
  <2> QED BY <2>2, <2>4
<1>8. \A d \in StreamCall : toolCalls'[d] # "none" => d \in seen' \/ At(msgq', Stream!Event("call", d))
  <2> SUFFICES ASSUME NEW d \in StreamCall, toolCalls[d] # "none", d \notin seen'
          PROVE At(msgq', Stream!Event("call", d))
    BY <1>1
  <2>1. d \notin seen /\ ~(m.k = "call" /\ c = d)
    BY <1>1
  <2>2. At(msgq, Stream!Event("call", d))
    BY <2>1 DEF Starts
  <2> QED BY <2>1, <2>2, <1>6
<1>9. \A d \in StreamCall : At(sent', Begun(d)) = At(sent, Begun(d))
  BY <1>1
<1>10. CASE outq' = outq /\ seen' = seen
  <2>1. \A d \in StreamCall : At(outq', Begun(d)) = At(outq, Begun(d))
    BY <1>10
  <2> QED BY <2>1, <1>7, <1>8, <1>9, <1>10, <1>1 DEF Starts, Begun, Ends, Stream!Event
<1>11. CASE m.k = "call" /\ c \notin seen
  <2> DEFINE e == Stream!Event("tool_start", c)
  <2>1. outq' = Append(outq, e) /\ seen' = seen \cup {c} /\ e = Begun(c) /\ e \in OutItem
    BY <1>11, <1>1, <1>5 DEF Begun
  <2>2. /\ Len(outq) \in Nat /\ DOMAIN outq = 1..Len(outq) /\ DOMAIN outq' = 1..(Len(outq) + 1)
        /\ \A i \in 1..Len(outq) : outq'[i] = outq[i]
        /\ outq'[Len(outq) + 1] = e
    BY <2>1, <1>3, AppendFacts
  <2>3. \A d \in StreamCall : At(outq', Begun(d)) <=> At(outq, Begun(d)) \/ d = c
    <3>1. \A d \in StreamCall : At(outq', Begun(d)) <=> At(outq, Begun(d)) \/ e = Begun(d)
      BY <2>1, <1>3, AtAppend
    <3> QED BY <3>1, <2>1, <1>3, Kind
  <2> HIDE DEF e
  <2>4. ~At(outq, Begun(c)) /\ ~At(sent, Begun(c))
    BY <1>11, <1>3 DEF Starts
  <2>5. \A d \in StreamCall : \A i, j \in DOMAIN outq' : outq'[i] = Begun(d) /\ outq'[j] = Begun(d)
            => i = j
    <3> SUFFICES ASSUME NEW d \in StreamCall, NEW i \in DOMAIN outq', NEW j \in DOMAIN outq', i < j,
                        outq'[i] = Begun(d), outq'[j] = Begun(d) PROVE FALSE
      BY <2>2
    <3>1. i \in DOMAIN outq /\ outq[i] = Begun(d)
      BY <2>2
    <3>2. CASE j = Len(outq) + 1
      <4>1. d = c
        BY <3>2, <2>1, <2>2, <1>3, Kind
      <4> QED BY <4>1, <3>1, <2>4 DEF At
    <3>3. CASE j # Len(outq) + 1
      <4>1. j \in DOMAIN outq /\ outq[j] = Begun(d)
        BY <3>3, <2>2
      <4> QED BY <3>1, <4>1, <2>2 DEF Starts
    <3> QED BY <3>2, <3>3
  <2>6. \A d \in StreamCall : \A i \in DOMAIN outq' : outq'[i] = Ends(d) =>
           At(sent', Begun(d)) \/ \E j \in 1..(i - 1) : outq'[j] = Begun(d)
    <3> SUFFICES ASSUME NEW d \in StreamCall, NEW i \in DOMAIN outq', outq'[i] = Ends(d), ~At(sent,
            Begun(d))
                 PROVE  \E j \in 1..(i - 1) : outq'[j] = Begun(d)
      BY <1>9
    <3>1. i \in DOMAIN outq /\ outq[i] = Ends(d)
      BY <2>1, <2>2, <1>3, Kind
    <3>2. PICK j \in 1..(i - 1) : outq[j] = Begun(d)
      BY <3>1 DEF Starts
    <3>3. outq'[j] = outq[j]
      BY <3>1, <2>2
    <3> QED BY <3>2, <3>3
  <2>7. \A d \in StreamCall : ~(At(sent', Begun(d)) /\ At(outq', Begun(d)))
    BY <2>3, <2>4, <1>9 DEF Starts
  <2>8. \A d \in StreamCall : d \in seen' <=> At(sent', Begun(d)) \/ At(outq', Begun(d))
    BY <2>3, <1>9, <2>1 DEF Starts
  <2> QED BY <2>5, <2>6, <2>7, <2>8, <1>7, <1>8, <1>1 DEF Starts, Begun, Ends, Stream!Event
<1>12. CASE m.k = "result"
  <2> DEFINE e == Stream!Event("tool_end", c)
  <2>1. outq' = Append(outq, e) /\ seen' = seen /\ e = Ends(c) /\ e \in OutItem
    BY <1>12, <1>1, <1>5 DEF Ends
  <2>2. /\ Len(outq) \in Nat /\ DOMAIN outq = 1..Len(outq) /\ DOMAIN outq' = 1..(Len(outq) + 1)
        /\ \A i \in 1..Len(outq) : outq'[i] = outq[i]
        /\ outq'[Len(outq) + 1] = e
    BY <2>1, <1>3, AppendFacts
  <2>3. \A d \in StreamCall : At(outq', Begun(d)) <=> At(outq, Begun(d))
    <3>1. \A d \in StreamCall : At(outq', Begun(d)) <=> At(outq, Begun(d)) \/ e = Begun(d)
      BY <2>1, <1>3, AtAppend
    <3> QED BY <3>1, <2>1, <1>3, Kind
  <2> HIDE DEF e
  <2>5. \A d \in StreamCall : \A i, j \in DOMAIN outq' : outq'[i] = Begun(d) /\ outq'[j] = Begun(d)
            => i = j
    <3> SUFFICES ASSUME NEW d \in StreamCall, NEW i \in DOMAIN outq', NEW j \in DOMAIN outq',
                        outq'[i] = Begun(d), outq'[j] = Begun(d) PROVE i = j
      OBVIOUS
    <3>1. i \in DOMAIN outq /\ outq[i] = Begun(d) /\ j \in DOMAIN outq /\ outq[j] = Begun(d)
      BY <2>2, <2>1, <1>3, Kind
    <3> QED BY <3>1 DEF Starts
  <2>6. \A d \in StreamCall : \A i \in DOMAIN outq' : outq'[i] = Ends(d) =>
           At(sent', Begun(d)) \/ \E j \in 1..(i - 1) : outq'[j] = Begun(d)
    <3> SUFFICES ASSUME NEW d \in StreamCall, NEW i \in DOMAIN outq', outq'[i] = Ends(d), ~At(sent,
            Begun(d))
                 PROVE  \E j \in 1..(i - 1) : outq'[j] = Begun(d)
      BY <1>9
    <3>1. CASE i = Len(outq) + 1
      <4>1. d = c
        BY <3>1, <2>1, <2>2, <1>3, Kind
      <4>2. At(outq, Begun(d))
        BY <4>1, <1>4, <1>12, <1>3 DEF Starts
      <4>3. PICK j \in DOMAIN outq : outq[j] = Begun(d)
        BY <4>2 DEF At
      <4>4. j \in 1..(i - 1) /\ outq'[j] = Begun(d)
        BY <4>3, <3>1, <2>2
      <4> QED BY <4>4
    <3>2. CASE i # Len(outq) + 1
      <4>1. i \in DOMAIN outq /\ outq[i] = Ends(d)
        BY <3>2, <2>2
      <4>2. PICK j \in 1..(i - 1) : outq[j] = Begun(d)
        BY <4>1 DEF Starts
      <4>3. outq'[j] = outq[j]
        BY <4>1, <2>2
      <4> QED BY <4>2, <4>3
    <3> QED BY <3>1, <3>2
  <2>7. \A d \in StreamCall : ~(At(sent', Begun(d)) /\ At(outq', Begun(d)))
    BY <2>3, <1>9 DEF Starts
  <2>8. \A d \in StreamCall : d \in seen' <=> At(sent', Begun(d)) \/ At(outq', Begun(d))
    BY <2>3, <1>9, <2>1 DEF Starts
  <2> QED BY <2>5, <2>6, <2>7, <2>8, <1>7, <1>8, <1>1 DEF Starts, Begun, Ends, Stream!Event
<1>13. (outq' = outq /\ seen' = seen) \/ (m.k = "call" /\ c \notin seen) \/ m.k = "result"
  BY <1>1, <1>3
<1> QED BY <1>10, <1>11, <1>12, <1>13


\* One of `n' goes from there to here.
LEMMA OneLess ==
  ASSUME NEW a \in Nat, NEW b \in Nat, NEW n \in Nat, n >= 1, a + n = b
  PROVE  (a + 1) + (n - 1) = b /\ n - 1 \in 0..b
OBVIOUS

\* A token that waited is shown.
LEMMA FollowsToken ==
  ASSUME NEW st \in Seq(Nat), NEW sh \in Seq(Nat), NEW S, NEW q \in Seq(S), q # <<>>,
         Follows(st, sh, q), Head(q).k = "token", Head(q).n \in Nat
  PROVE  Follows(st, Append(sh, Head(q).n), Tail(q))
<1> DEFINE sg == Append(sh, Head(q).n)
<1>p. PICK n \in 0..Len(st) : \E h \in [1..n -> DOMAIN q] : PlacedAs(st, sh, q, n, h)
  BY DEF Follows
<1>0. PICK h \in [1..n -> DOMAIN q] : PlacedAs(st, sh, q, n, h)
  BY <1>p
<1>1. /\ \A i \in 1..Len(sh) : sh[i] = st[i]
      /\ \A i, j \in 1..n : i < j => h[i] < h[j]
      /\ \A i \in 1..n : q[h[i]] = Stream!Token(st[Len(sh) + i])
      /\ \A p \in DOMAIN q : q[p].k = "token" => \E i \in 1..n : h[i] = p
  BY <1>0 DEF PlacedAs
<1>n. n \in Nat /\ Len(sh) \in Nat /\ Len(st) \in Nat /\ Len(sh) + n = Len(st)
  <2>1. Len(sh) + n = Len(st)
    BY <1>0 DEF PlacedAs
  <2> QED BY <2>1
<1>2. /\ Head(q) = q[1] /\ Len(q) \in Nat \ {0} /\ DOMAIN q = 1..Len(q)
           /\ DOMAIN Tail(q) = 1..(Len(q) - 1)
      /\ \A i \in 1..(Len(q) - 1) : Tail(q)[i] = q[i + 1]
  BY TailFacts
<1>3. /\ Len(sh) \in Nat /\ Len(st) \in Nat /\ Len(sg) = Len(sh) + 1
      /\ \A i \in 1..Len(sh) : sg[i] = sh[i]
      /\ sg[Len(sh) + 1] = Head(q).n
  BY AppendFacts
<1> HIDE DEF sg
<1>4. 1 \in DOMAIN q
  BY <1>2
<1>5. PICK a \in 1..n : h[a] = 1
  BY <1>1, <1>2, <1>4
<1>6. a = 1 /\ n >= 1
  <2> SUFFICES ASSUME a # 1 PROVE FALSE
    BY <1>n, <1>5
  <2>1. 1 \in 1..n /\ 1 < a
    BY <1>n, <1>5
  <2>2. h[1] < h[a] /\ h[1] \in DOMAIN q
    BY <2>1, <1>1
  <2> QED BY <2>2, <1>2, <1>5
<1>7. Head(q).n = st[Len(sh) + 1]
  <2>1. 1 \in 1..n
    BY <1>6, <1>n
  <2>2. q[h[1]] = Stream!Token(st[Len(sh) + 1]) /\ h[1] = 1
    BY <2>1, <1>1, <1>5, <1>6
  <2> QED BY <2>2, <1>2 DEF Stream!Token
<1> DEFINE g == [i \in 1..(n - 1) |-> h[i + 1] - 1]
<1>8. Len(sg) + (n - 1) = Len(st) /\ n - 1 \in 0..Len(st)
  <2>1. n \in Nat
    BY <1>n
  <2>2. n >= 1
    BY <1>6
  <2>3. Len(sh) \in Nat
    BY <1>n
  <2>4. Len(st) \in Nat
    BY <1>n
  <2>5. Len(sh) + n = Len(st)
    BY <1>n
  <2>6. (Len(sh) + 1) + (n - 1) = Len(st) /\ n - 1 \in 0..Len(st)
    BY <2>1, <2>2, <2>3, <2>4, <2>5, OneLess
  <2>7. Len(sg) = Len(sh) + 1
    BY <1>3
  <2> QED BY <2>6, <2>7
<1>9. \A i \in 1..(n - 1) : i + 1 \in 1..n /\ h[i + 1] > 1 /\ h[i + 1] \in DOMAIN q
          /\ h[i + 1] - 1 \in DOMAIN Tail(q)
  <2> SUFFICES ASSUME NEW i \in 1..(n - 1)
               PROVE  i + 1 \in 1..n /\ h[i + 1] > 1 /\ h[i + 1] \in DOMAIN q
                   /\ h[i + 1] - 1 \in DOMAIN Tail(q)
    OBVIOUS
  <2>1. i + 1 \in 1..n /\ 1 \in 1..n /\ 1 < i + 1
    BY <1>n
  <2>2. h[1] < h[i + 1] /\ h[i + 1] \in DOMAIN q /\ h[1] = 1
    BY <2>1, <1>1, <1>5, <1>6
  <2> QED BY <2>1, <2>2, <1>2
<1>10. g \in [1..(n - 1) -> DOMAIN Tail(q)]
  BY <1>9
<1>12. \A i \in 1..Len(sg) : sg[i] = st[i]
  <2> SUFFICES ASSUME NEW i \in 1..Len(sg) PROVE sg[i] = st[i]
    OBVIOUS
  <2>1. i \in 1..Len(sh) \/ i = Len(sh) + 1
    BY <1>3
  <2> QED BY <2>1, <1>1, <1>3, <1>7
<1>13. \A i, j \in 1..(n - 1) : i < j => g[i] < g[j]
  <2> SUFFICES ASSUME NEW i \in 1..(n - 1), NEW j \in 1..(n - 1), i < j PROVE g[i] < g[j]
    OBVIOUS
  <2>1. i + 1 \in 1..n /\ j + 1 \in 1..n /\ i + 1 < j + 1
    BY <1>n
  <2>2. h[i + 1] < h[j + 1] /\ h[i + 1] \in DOMAIN q /\ h[j + 1] \in DOMAIN q
    BY <2>1, <1>1
  <2>3. g[i] = h[i + 1] - 1 /\ g[j] = h[j + 1] - 1
    OBVIOUS
  <2> QED BY <2>2, <2>3, <1>2
<1>14. \A i \in 1..(n - 1) : Tail(q)[g[i]] = Stream!Token(st[Len(sg) + i])
  <2> SUFFICES ASSUME NEW i \in 1..(n - 1)
          PROVE Tail(q)[h[i + 1] - 1] = Stream!Token(st[Len(sg) + i])
    OBVIOUS
  <2>1. i + 1 \in 1..n /\ h[i + 1] - 1 \in DOMAIN Tail(q) /\ h[i + 1] \in DOMAIN q
    BY <1>9
  <2>2. Tail(q)[h[i + 1] - 1] = q[h[i + 1]]
    <3>1. Tail(q)[h[i + 1] - 1] = q[(h[i + 1] - 1) + 1]
      BY <2>1, <1>2
    <3>2. (h[i + 1] - 1) + 1 = h[i + 1]
      BY <2>1, <1>2
    <3> QED BY <3>1, <3>2
  <2>3. q[h[i + 1]] = Stream!Token(st[Len(sh) + (i + 1)])
    BY <2>1, <1>1
  <2>4. Len(sh) + (i + 1) = Len(sg) + i
    BY <1>3
  <2> QED BY <2>2, <2>3, <2>4
<1>15. \A p \in DOMAIN Tail(q) : Tail(q)[p].k = "token" => \E i \in 1..(n - 1) : g[i] = p
  <2> SUFFICES ASSUME NEW p \in DOMAIN Tail(q), Tail(q)[p].k = "token"
          PROVE \E i \in 1..(n - 1) : g[i] = p
    OBVIOUS
  <2>1. p + 1 \in DOMAIN q /\ q[p + 1].k = "token"
    BY <1>2
  <2>2. PICK i \in 1..n : h[i] = p + 1
    BY <2>1, <1>1
  <2>3. i # 1
    BY <2>2, <1>2, <1>5, <1>6
  <2>4. i - 1 \in 1..(n - 1) /\ (i - 1) + 1 = i
    BY <2>3, <1>n
  <2>5. g[i - 1] = p
    <3>1. g[i - 1] = h[i] - 1
      BY <2>4
    <3> QED BY <3>1, <2>2, <1>2
  <2> QED BY <2>4, <2>5
<1> HIDE DEF g
<1>16. PlacedAs(st, sg, Tail(q), n - 1, g)
  BY <1>8, <1>12, <1>13, <1>14, <1>15 DEF PlacedAs
<1>17. Follows(st, sg, Tail(q))
  BY <1>8, <1>10, <1>16 DEF Follows
<1> QED BY <1>17 DEF sg

\* Another item leaves the queue.
LEMMA FollowsOther ==
  ASSUME NEW st \in Seq(Nat), NEW sh \in Seq(Nat), NEW S, NEW q \in Seq(S), q # <<>>,
         Follows(st, sh, q), Head(q).k # "token"
  PROVE  Follows(st, sh, Tail(q))
<1>p. PICK n \in 0..Len(st) : \E h \in [1..n -> DOMAIN q] : PlacedAs(st, sh, q, n, h)
  BY DEF Follows
<1>0. PICK h \in [1..n -> DOMAIN q] : PlacedAs(st, sh, q, n, h)
  BY <1>p
<1>1. /\ \A i \in 1..Len(sh) : sh[i] = st[i]
      /\ \A i, j \in 1..n : i < j => h[i] < h[j]
      /\ \A i \in 1..n : q[h[i]] = Stream!Token(st[Len(sh) + i])
      /\ \A p \in DOMAIN q : q[p].k = "token" => \E i \in 1..n : h[i] = p
  BY <1>0 DEF PlacedAs
<1>n. n \in Nat /\ Len(sh) \in Nat /\ Len(st) \in Nat /\ Len(sh) + n = Len(st)
  <2>1. Len(sh) + n = Len(st)
    BY <1>0 DEF PlacedAs
  <2> QED BY <2>1
<1>2. /\ Head(q) = q[1] /\ Len(q) \in Nat \ {0} /\ DOMAIN q = 1..Len(q)
           /\ DOMAIN Tail(q) = 1..(Len(q) - 1)
      /\ \A i \in 1..(Len(q) - 1) : Tail(q)[i] = q[i + 1]
  BY TailFacts
<1> DEFINE g == [i \in 1..n |-> h[i] - 1]
<1>3. \A i \in 1..n : h[i] \in DOMAIN q /\ h[i] # 1 /\ h[i] - 1 \in DOMAIN Tail(q)
          /\ (h[i] - 1) + 1 = h[i]
  <2> SUFFICES ASSUME NEW i \in 1..n
               PROVE  h[i] \in DOMAIN q /\ h[i] # 1 /\ h[i] - 1 \in DOMAIN Tail(q)
                   /\ (h[i] - 1) + 1 = h[i]
    OBVIOUS
  <2>1. h[i] \in DOMAIN q
    BY <1>1
  <2>2. q[h[i]].k = "token"
    <3>1. q[h[i]] = Stream!Token(st[Len(sh) + i])
      BY <1>1
    <3> QED BY <3>1 DEF Stream!Token
  <2>3. h[i] # 1
    BY <2>2, <1>2
  <2> QED BY <2>1, <2>3, <1>2
<1>4. g \in [1..n -> DOMAIN Tail(q)]
  BY <1>3
<1>5. \A i, j \in 1..n : i < j => g[i] < g[j]
  <2> SUFFICES ASSUME NEW i \in 1..n, NEW j \in 1..n, i < j PROVE g[i] < g[j]
    OBVIOUS
  <2>1. h[i] < h[j] /\ h[i] \in 1..Len(q) /\ h[j] \in 1..Len(q)
    BY <1>1, <1>2, <1>3
  <2>2. g[i] = h[i] - 1 /\ g[j] = h[j] - 1
    OBVIOUS
  <2> QED BY <2>1, <2>2, <1>2
<1>6. \A i \in 1..n : Tail(q)[g[i]] = Stream!Token(st[Len(sh) + i])
  <2> SUFFICES ASSUME NEW i \in 1..n PROVE Tail(q)[h[i] - 1] = Stream!Token(st[Len(sh) + i])
    OBVIOUS
  <2>1. Tail(q)[h[i] - 1] = q[(h[i] - 1) + 1]
    BY <1>2, <1>3
  <2> QED BY <2>1, <1>3, <1>1
<1>7. \A p \in DOMAIN Tail(q) : Tail(q)[p].k = "token" => \E i \in 1..n : g[i] = p
  <2> SUFFICES ASSUME NEW p \in DOMAIN Tail(q), Tail(q)[p].k = "token"
          PROVE \E i \in 1..n : g[i] = p
    OBVIOUS
  <2>1. p + 1 \in DOMAIN q /\ q[p + 1].k = "token"
    BY <1>2
  <2>2. PICK i \in 1..n : h[i] = p + 1
    BY <2>1, <1>1
  <2>3. g[i] = h[i] - 1
    OBVIOUS
  <2> QED BY <2>2, <2>3, <1>2
<1> HIDE DEF g
<1>8. PlacedAs(st, sh, Tail(q), n, g)
  BY <1>1, <1>n, <1>5, <1>6, <1>7 DEF PlacedAs
<1> QED BY <1>4, <1>8 DEF Follows

\* A token is streamed: it waits in the queue.
LEMMA FollowsStream ==
  ASSUME NEW st \in Seq(Nat), NEW sh \in Seq(Nat), NEW S, NEW q \in Seq(S), NEW e \in S,
         Follows(st, sh, q), NEW v \in Nat, e = Stream!Token(v)
  PROVE  Follows(Append(st, v), sh, Append(q, e))
<1> DEFINE r == Append(q, e)
           su == Append(st, v)
<1>p. PICK n \in 0..Len(st) : \E h \in [1..n -> DOMAIN q] : PlacedAs(st, sh, q, n, h)
  BY DEF Follows
<1>0. PICK h \in [1..n -> DOMAIN q] : PlacedAs(st, sh, q, n, h)
  BY <1>p
<1>1. /\ \A i \in 1..Len(sh) : sh[i] = st[i]
      /\ \A i, j \in 1..n : i < j => h[i] < h[j]
      /\ \A i \in 1..n : q[h[i]] = Stream!Token(st[Len(sh) + i])
      /\ \A p \in DOMAIN q : q[p].k = "token" => \E i \in 1..n : h[i] = p
  BY <1>0 DEF PlacedAs
<1>n. n \in Nat /\ Len(sh) \in Nat /\ Len(st) \in Nat /\ Len(sh) + n = Len(st)
  <2>1. Len(sh) + n = Len(st)
    BY <1>0 DEF PlacedAs
  <2> QED BY <2>1
<1>2. /\ Len(q) \in Nat /\ DOMAIN q = 1..Len(q) /\ DOMAIN r = 1..(Len(q) + 1)
      /\ \A i \in 1..Len(q) : r[i] = q[i]
      /\ r[Len(q) + 1] = e
  BY AppendFacts
<1>3. /\ Len(st) \in Nat /\ Len(su) = Len(st) + 1 /\ Len(sh) \in Nat
      /\ \A i \in 1..Len(st) : su[i] = st[i]
      /\ su[Len(st) + 1] = v
  BY AppendFacts
<1> HIDE DEF r, su
<1> DEFINE g == [i \in 1..(n + 1) |-> IF i = n + 1 THEN Len(q) + 1 ELSE h[i]]
<1>4. /\ n \in Nat /\ Len(sh) + (n + 1) = Len(su) /\ n + 1 \in 0..Len(su)
           /\ \A i \in 1..(n + 1) : i = n + 1 \/ i \in 1..n
      /\ Len(sh) + (n + 1) = Len(st) + 1
  BY <1>n, <1>3
<1>5. \A i \in 1..n : g[i] = h[i] /\ h[i] \in 1..Len(q)
  BY <1>1, <1>2, <1>4, SMTT(30)
<1>6. g[n + 1] = Len(q) + 1
  BY <1>4
<1>7. g \in [1..(n + 1) -> DOMAIN r]
  <2> SUFFICES ASSUME NEW i \in 1..(n + 1)
          PROVE (IF i = n + 1 THEN Len(q) + 1 ELSE h[i]) \in DOMAIN r
    OBVIOUS
  <2>1. i # n + 1 => h[i] \in DOMAIN q
    BY <1>4
  <2> QED BY <2>1, <1>2
<1> HIDE DEF g
<1>8. \A i, j \in 1..(n + 1) : i < j => g[i] < g[j]
  <2> SUFFICES ASSUME NEW i \in 1..(n + 1), NEW j \in 1..(n + 1), i < j PROVE g[i] < g[j]
    OBVIOUS
  <2>1. i \in 1..n
    BY <1>4
  <2>2. CASE j = n + 1
    BY <2>1, <2>2, <1>5, <1>6, <1>2
  <2>3. CASE j \in 1..n
    BY <2>1, <2>3, <1>5, <1>1
  <2> QED BY <2>2, <2>3, <1>4
<1>9. \A i \in 1..(n + 1) : r[g[i]] = Stream!Token(su[Len(sh) + i])
  <2> SUFFICES ASSUME NEW i \in 1..(n + 1) PROVE r[g[i]] = Stream!Token(su[Len(sh) + i])
    OBVIOUS
  <2>1. CASE i = n + 1
    BY <2>1, <1>2, <1>3, <1>4, <1>6
  <2>2. CASE i \in 1..n
    <3>1. Len(sh) + i \in 1..Len(st)
      BY <2>2, <1>n
    <3>2. r[h[i]] = q[h[i]] /\ q[h[i]] = Stream!Token(st[Len(sh) + i])
      BY <2>2, <1>5, <1>2, <1>1
    <3> QED BY <3>1, <3>2, <2>2, <1>5, <1>3
  <2> QED BY <2>1, <2>2, <1>4
<1>10. \A p \in DOMAIN r : r[p].k = "token" => \E i \in 1..(n + 1) : g[i] = p
  <2> SUFFICES ASSUME NEW p \in DOMAIN r, r[p].k = "token" PROVE \E i \in 1..(n + 1) : g[i] = p
    OBVIOUS
  <2>1. CASE p = Len(q) + 1
    <3>1. n + 1 \in 1..(n + 1)
      BY <1>4
    <3> QED BY <3>1, <2>1, <1>6
  <2>2. CASE p # Len(q) + 1
    <3>1. p \in DOMAIN q /\ q[p].k = "token"
      BY <2>2, <1>2, SMTT(30)
    <3>2. PICK i \in 1..n : h[i] = p
      BY <3>1, <1>1
    <3>3. i \in 1..(n + 1) /\ g[i] = p
      <4>1. g[i] = p
        BY <3>2, <1>5
      <4> QED BY <4>1, <1>n
    <3> QED BY <3>3
  <2> QED BY <2>1, <2>2
<1>11. \A i \in 1..Len(sh) : sh[i] = su[i]
  <2> SUFFICES ASSUME NEW i \in 1..Len(sh) PROVE sh[i] = su[i]
    OBVIOUS
  <2>1. i \in 1..Len(st)
    BY <1>n
  <2> QED BY <2>1, <1>1, <1>3
<1>12. PlacedAs(su, sh, r, n + 1, g)
  BY <1>4, <1>8, <1>9, <1>10, <1>11 DEF PlacedAs
<1>13. Follows(su, sh, r)
  BY <1>4, <1>7, <1>12 DEF Follows
<1> QED BY <1>13 DEF r, su

\* Another item is queued.
LEMMA FollowsQueue ==
  ASSUME NEW st \in Seq(Nat), NEW sh \in Seq(Nat), NEW S, NEW q \in Seq(S), NEW e \in S,
         Follows(st, sh, q), e.k # "token"
  PROVE  Follows(st, sh, Append(q, e))
<1> DEFINE r == Append(q, e)
<1>p. PICK n \in 0..Len(st) : \E h \in [1..n -> DOMAIN q] : PlacedAs(st, sh, q, n, h)
  BY DEF Follows
<1>0. PICK h \in [1..n -> DOMAIN q] : PlacedAs(st, sh, q, n, h)
  BY <1>p
<1>1. /\ \A i \in 1..Len(sh) : sh[i] = st[i]
      /\ \A i, j \in 1..n : i < j => h[i] < h[j]
      /\ \A i \in 1..n : q[h[i]] = Stream!Token(st[Len(sh) + i])
      /\ \A p \in DOMAIN q : q[p].k = "token" => \E i \in 1..n : h[i] = p
  BY <1>0 DEF PlacedAs
<1>n. n \in Nat /\ Len(sh) \in Nat /\ Len(st) \in Nat /\ Len(sh) + n = Len(st)
  <2>1. Len(sh) + n = Len(st)
    BY <1>0 DEF PlacedAs
  <2> QED BY <2>1
<1>2. /\ Len(q) \in Nat /\ DOMAIN q = 1..Len(q) /\ DOMAIN r = 1..(Len(q) + 1)
      /\ \A i \in 1..Len(q) : r[i] = q[i]
      /\ r[Len(q) + 1] = e
  BY AppendFacts
<1> HIDE DEF r
<1>3. h \in [1..n -> DOMAIN r] /\ \A i \in 1..n : h[i] \in 1..Len(q)
  <2>1. \A i \in 1..n : h[i] \in DOMAIN q
    OBVIOUS
  <2>2. \A i \in DOMAIN q : i \in DOMAIN r /\ i \in 1..Len(q)
    BY <1>2
  <2>3. h = [i \in 1..n |-> h[i]]
    OBVIOUS
  <2> QED BY <2>1, <2>2, <2>3
<1>4. \A i \in 1..n : r[h[i]] = Stream!Token(st[Len(sh) + i])
  BY <1>1, <1>2, <1>3
<1>5. \A p \in DOMAIN r : r[p].k = "token" => \E i \in 1..n : h[i] = p
  <2> SUFFICES ASSUME NEW p \in DOMAIN r, r[p].k = "token" PROVE \E i \in 1..n : h[i] = p
    OBVIOUS
  <2>1. p # Len(q) + 1
    BY <1>2
  <2>2. p \in DOMAIN q /\ r[p] = q[p]
    BY <2>1, <1>2
  <2> QED BY <2>2, <1>1
<1>6. PlacedAs(st, sh, r, n, h)
  BY <1>1, <1>n, <1>4, <1>5 DEF PlacedAs
<1>7. Follows(st, sh, r)
  BY <1>3, <1>6 DEF Follows
<1> QED BY <1>7 DEF r

\* An empty queue: all that was streamed is shown.
LEMMA FollowsEnd ==
  ASSUME NEW st \in Seq(Nat), NEW sh \in Seq(Nat), Follows(st, sh, <<>>)
  PROVE  sh = st
<1>1. PICK n \in 0..Len(st) : \E h \in [1..n -> DOMAIN <<>>] : PlacedAs(st, sh, <<>>, n, h)
  BY DEF Follows
<1>2. PICK h \in [1..n -> DOMAIN <<>>] : PlacedAs(st, sh, <<>>, n, h)
  BY <1>1
<1>3. /\ n \in Nat /\ Len(st) \in Nat /\ Len(sh) \in Nat /\ Len(sh) + n = Len(st)
      /\ \A i \in 1..Len(sh) : sh[i] = st[i]
  BY <1>2 DEF PlacedAs
<1>4. n = 0
  <2> SUFFICES ASSUME n > 0 PROVE FALSE
    BY <1>3
  <2>1. 1 \in 1..n
    BY <1>3
  <2>2. h[1] \in DOMAIN <<>>
    BY <2>1
  <2>3. DOMAIN <<>> = {}
    OBVIOUS
  <2> QED BY <2>2, <2>3
<1>5. Len(sh) = Len(st)
  BY <1>3, <1>4
<1>6. /\ \A i \in 1..Len(st) : sh[i] = st[i]
      /\ sh = [i \in 1..Len(sh) |-> sh[i]] /\ st = [i \in 1..Len(st) |-> st[i]]
  BY <1>3, <1>5
<1> QED BY <1>5, <1>6


\* The end of the messages and the queue it is in.
LEMMA EndedTail ==
  ASSUME NEW S, NEW q \in Seq(S), q # <<>>, Ended(q)
  PROVE  /\ Head(q).k # "msg_done" => Ended(Tail(q))
         /\ Head(q).k = "msg_done" => No(Tail(q), "msg_done") /\ No(Tail(q), "err")
<1>1. /\ Head(q) = q[1] /\ Len(q) \in Nat \ {0} /\ DOMAIN q = 1..Len(q)
           /\ DOMAIN Tail(q) = 1..(Len(q) - 1)
      /\ \A i \in 1..(Len(q) - 1) : Tail(q)[i] = q[i + 1]
  BY TailFacts
<1>2. PICK i \in DOMAIN q :
         /\ q[i].k = "msg_done"
         /\ \A j \in DOMAIN q : q[j].k = "msg_done" => j = i
         /\ \A j \in DOMAIN q : q[j].k = "err" => j < i
  BY DEF Ended
<1>3. \A j \in DOMAIN Tail(q) : j + 1 \in DOMAIN q /\ j + 1 # 1 /\ Tail(q)[j] = q[j + 1]
  BY <1>1
<1>4. ASSUME Head(q).k # "msg_done" PROVE Ended(Tail(q))
  <2>1. i # 1
    BY <1>1, <1>2, <1>4
  <2>2. i - 1 \in DOMAIN Tail(q) /\ Tail(q)[i - 1] = q[i]
    BY <2>1, <1>1
  <2>3. \A j \in DOMAIN Tail(q) : Tail(q)[j].k = "msg_done" => j = i - 1
    <3> SUFFICES ASSUME NEW j \in DOMAIN Tail(q), Tail(q)[j].k = "msg_done" PROVE j = i - 1
      OBVIOUS
    <3>1. j + 1 = i
      BY <1>3, <1>2
    <3> QED BY <3>1, <1>1
  <2>4. \A j \in DOMAIN Tail(q) : Tail(q)[j].k = "err" => j < i - 1
    <3> SUFFICES ASSUME NEW j \in DOMAIN Tail(q), Tail(q)[j].k = "err" PROVE j < i - 1
      OBVIOUS
    <3>1. j + 1 < i
      BY <1>3, <1>2
    <3> QED BY <3>1, <1>1
  <2> QED BY <2>2, <2>3, <2>4, <1>2 DEF Ended
<1>5. ASSUME Head(q).k = "msg_done" PROVE No(Tail(q), "msg_done") /\ No(Tail(q), "err")
  <2>1. i = 1
    <3>1. 1 \in DOMAIN q
      BY <1>1
    <3> QED BY <3>1, <1>1, <1>2, <1>5
  <2>2. ASSUME NEW j \in DOMAIN Tail(q) PROVE Tail(q)[j].k # "msg_done" /\ Tail(q)[j].k # "err"
    <3>1. j + 1 \in DOMAIN q /\ j + 1 # 1 /\ Tail(q)[j] = q[j + 1] /\ ~(j + 1 < 1)
      BY <1>1
    <3> QED BY <3>1, <2>1, <1>2
  <2> QED BY <2>2 DEF No
<1> QED BY <1>4, <1>5

\* The end of the messages stays the end of a longer queue.
LEMMA EndedAppend ==
  ASSUME NEW S, NEW q \in Seq(S), NEW e \in S
  PROVE  /\ Ended(q) /\ e.k \notin {"err", "msg_done"} => Ended(Append(q, e))
         /\ No(q, "msg_done") /\ e.k = "msg_done" => Ended(Append(q, e))
<1> DEFINE r == Append(q, e)
<1>1. /\ Len(q) \in Nat /\ DOMAIN q = 1..Len(q) /\ DOMAIN r = 1..(Len(q) + 1)
      /\ \A i \in 1..Len(q) : r[i] = q[i]
      /\ r[Len(q) + 1] = e
  BY AppendFacts
<1> HIDE DEF r
<1>2. ASSUME Ended(q), e.k \notin {"err", "msg_done"} PROVE Ended(r)
  <2>1. PICK i \in DOMAIN q :
         /\ q[i].k = "msg_done"
         /\ \A j \in DOMAIN q : q[j].k = "msg_done" => j = i
         /\ \A j \in DOMAIN q : q[j].k = "err" => j < i
    BY <1>2 DEF Ended
  <2>2. i \in DOMAIN r /\ r[i].k = "msg_done"
    BY <2>1, <1>1
  <2>3. \A j \in DOMAIN r : j = Len(q) + 1 \/ (j \in DOMAIN q /\ r[j] = q[j])
    BY <1>1
  <2>4. r[Len(q) + 1].k # "err" /\ r[Len(q) + 1].k # "msg_done"
    BY <1>1, <1>2
  <2>5. \A j \in DOMAIN r : (r[j].k = "msg_done" => j = i) /\ (r[j].k = "err" => j < i)
    BY <2>1, <2>3, <2>4
  <2> QED BY <2>2, <2>5 DEF Ended
<1>3. ASSUME No(q, "msg_done"), e.k = "msg_done" PROVE Ended(r)
  <2>1. Len(q) + 1 \in DOMAIN r /\ r[Len(q) + 1].k = "msg_done"
    BY <1>1, <1>3
  <2>2. \A j \in DOMAIN r : j = Len(q) + 1 \/ (j \in DOMAIN q /\ r[j] = q[j] /\ j < Len(q) + 1)
    BY <1>1
  <2>3. \A j \in DOMAIN r : r[j].k = "msg_done" => j = Len(q) + 1
    BY <2>2, <1>3 DEF No
  <2>4. \A j \in DOMAIN r : r[j].k = "err" => j < Len(q) + 1
    BY <2>1, <2>2
  <2> QED BY <2>1, <2>3, <2>4 DEF Ended
<1> QED BY <1>2, <1>3 DEF r

\* The stop mark and the queue it is in.
LEMMA StopTail ==
  ASSUME NEW S, NEW q \in Seq(S), q # <<>>, StopLast(q)
  PROVE  /\ StopLast(Tail(q))
         /\ Head(q).k = "ev_stop" => Tail(q) = <<>>
         /\ Head(q).k # "ev_stop" /\ Stopped(q) => Stopped(Tail(q))
<1>1. /\ Head(q) = q[1] /\ Len(q) \in Nat \ {0} /\ DOMAIN q = 1..Len(q)
           /\ DOMAIN Tail(q) = 1..(Len(q) - 1)
      /\ \A i \in 1..(Len(q) - 1) : Tail(q)[i] = q[i + 1]
      /\ Len(Tail(q)) = Len(q) - 1 /\ Tail(q) \in Seq(S)
  BY TailFacts
<1>2. StopLast(Tail(q))
  <2> SUFFICES ASSUME NEW i \in DOMAIN Tail(q), Tail(q)[i].k = "ev_stop" PROVE i = Len(q) - 1
    BY <1>1 DEF StopLast
  <2>1. i + 1 \in DOMAIN q /\ q[i + 1].k = "ev_stop"
    BY <1>1
  <2>2. i + 1 = Len(q)
    BY <2>1 DEF StopLast
  <2> QED BY <2>2, <1>1
<1>3. ASSUME Head(q).k = "ev_stop" PROVE Tail(q) = <<>>
  <2>1. 1 \in DOMAIN q
    BY <1>1
  <2>2. Len(q) = 1
    BY <2>1, <1>1, <1>3 DEF StopLast
  <2>3. Len(Tail(q)) = 0
    BY <2>2, <1>1
  <2> QED BY <2>3, <1>1
<1>4. ASSUME Head(q).k # "ev_stop", Stopped(q) PROVE Stopped(Tail(q))
  <2>1. Len(q) # 1
    BY <1>1, <1>4 DEF Stopped
  <2>2. Len(q) - 1 \in 1..(Len(q) - 1) /\ (Len(q) - 1) + 1 = Len(q)
    BY <2>1, <1>1
  <2>3. Tail(q)[Len(q) - 1] = q[Len(q)]
    BY <2>2, <1>1
  <2>4. Tail(q) # <<>>
    <3>1. Len(Tail(q)) # 0
      BY <2>1, <1>1
    <3> QED BY <3>1, SMTT(30)
  <2> QED BY <2>3, <2>4, <1>1, <1>4 DEF Stopped
<1> QED BY <1>2, <1>3, <1>4

\* The stop mark is the last of the events.
LEMMA StopAppend ==
  ASSUME NEW S, NEW q \in Seq(S), NEW e \in S, No(q, "ev_stop")
  PROVE  /\ StopLast(Append(q, e))
         /\ e.k = "ev_stop" => Stopped(Append(q, e))
<1> DEFINE r == Append(q, e)
<1>1. /\ Len(q) \in Nat /\ DOMAIN q = 1..Len(q) /\ DOMAIN r = 1..(Len(q) + 1) /\ Len(r) = Len(q) + 1
      /\ \A i \in 1..Len(q) : r[i] = q[i]
      /\ r[Len(q) + 1] = e /\ r # <<>>
  BY AppendFacts
<1> HIDE DEF r
<1>2. StopLast(r)
  <2> SUFFICES ASSUME NEW i \in DOMAIN r, r[i].k = "ev_stop" PROVE i = Len(r)
    BY DEF StopLast
  <2>1. i = Len(q) + 1 \/ (i \in DOMAIN q /\ r[i] = q[i])
    BY <1>1
  <2> QED BY <2>1, <1>1 DEF No
<1>3. e.k = "ev_stop" => Stopped(r)
  BY <1>1 DEF Stopped
<1> QED BY <1>2, <1>3 DEF r


\* While the graph runs, the generator reads the queue.
LEMMA Running ==
  ASSUME StreamInv, graph = "run", phase # "closed"
  PROVE  phase = "loop" /\ pump.msg = "run"
BY DEF StreamInv, StreamTyped, Messages

\* Nothing of what the generator and its queues hold moves.
LEMMA StreamSame ==
  ASSUME StreamInv, UNCHANGED Stream!vars
  PROVE  StreamInv'
<1>1. StreamTyped'
  BY DEF StreamInv, StreamTyped, Stream!vars
<1>2. Starts'
  BY StartsSame DEF StreamInv, Stream!vars
<1>3. Messages' /\ Events' /\ Knows' /\ Display' /\ Said'
  BY DEF StreamInv, Stream!vars, Messages, Ended, No, Events, StopLast, Stopped, Knows, Late,
     Display, Follows,
         PlacedAs, Stream!Token, Said, Stream!Final, Stream!Has
<1> QED BY <1>1, <1>2, <1>3 DEF StreamInv

\* The node writes a text, streamed or not.
LEMMA WriteKeeps ==
  ASSUME StreamInv, NEW asTokens \in BOOLEAN, Stream!Write(asTokens)
  PROVE  StreamInv'
<1>1. /\ graph = "run" /\ phase # "closed" /\ replies' = replies + 1 /\ count' = count + 1
      /\ evq' = IF asTokens THEN Append(evq, Stream!Token(replies + 1)) ELSE evq
      /\ UNCHANGED <<graph, toolCalls, msgq, outq, pump, seen, streamed, phase, error, probe, sent,
           shown>>
  BY DEF Stream!Write, Stream!Produces
<1>2. phase = "loop" /\ pump.msg = "run"
  BY <1>1, Running
<1>3. evq \in Seq(EvItem) /\ Stream!Token(replies + 1) \in EvItem
          /\ Stream!Token(replies + 1).k = "token" /\ No(evq, "ev_stop")
  BY <1>2 DEF StreamInv, StreamTyped, Events, Stream!Token, EvItem
<1>4. StreamTyped'
  BY <1>1, <1>3, AppendFacts DEF StreamInv, StreamTyped
<1>5. Starts'
  BY <1>1, StartsSame DEF StreamInv
<1>6. StopLast(evq') /\ No(evq', "ev_stop")
  BY <1>1, <1>3, StopAppend, NoAppend DEF StreamInv, Events
<1>7. Events'
  BY <1>1, <1>2, <1>6 DEF StreamInv, Events
<1>8. Messages' /\ Knows' /\ Said'
  BY <1>1, <1>2 DEF StreamInv, StreamTyped, Messages, Ended, No, Knows, Late, Said
<1>9. Display'
  BY <1>1, <1>2 DEF StreamInv, Display, Follows, PlacedAs, Stream!Token, Stream!Final
<1> QED BY <1>4, <1>5, <1>7, <1>8, <1>9 DEF StreamInv

\* A step of a plan is told.
LEMMA StepKeeps ==
  ASSUME StreamInv, Stream!Step
  PROVE  StreamInv'
<1>1. /\ graph = "run" /\ phase # "closed" /\ count' = count + 1
      /\ evq' = Append(evq, Stream!Event("step", count))
      /\ UNCHANGED <<graph, replies, toolCalls, msgq, outq, pump, seen, streamed, phase, error,
           probe, sent, shown>>
  BY DEF Stream!Step, Stream!Produces
<1>2. phase = "loop" /\ pump.msg = "run"
  BY <1>1, Running
<1>3. /\ evq \in Seq(EvItem) /\ Stream!Event("step", count) \in EvItem
           /\ Stream!Event("step", count).k = "step"
      /\ No(evq, "ev_stop")
  BY <1>2 DEF StreamInv, StreamTyped, Events, Stream!Event, EvItem
<1>4. StreamTyped'
  BY <1>1, <1>3, AppendFacts DEF StreamInv, StreamTyped
<1>5. Starts'
  BY <1>1, StartsSame DEF StreamInv
<1>6. StopLast(evq') /\ No(evq', "ev_stop")
  BY <1>1, <1>3, StopAppend, NoAppend
<1>7. Events'
  BY <1>1, <1>2, <1>6 DEF StreamInv, Events
<1>8. Messages' /\ Knows' /\ Said'
  BY <1>1, <1>2 DEF StreamInv, StreamTyped, Messages, Ended, No, Knows, Late, Said
<1>9. Display'
  BY <1>1, <1>2 DEF StreamInv, Display, Follows, PlacedAs, Stream!Token, Stream!Final
<1> QED BY <1>4, <1>5, <1>7, <1>8, <1>9 DEF StreamInv

\* A message of the graph: a call or its result.
LEMMA MessageKeeps ==
  ASSUME StreamInv, NEW k \in {"call", "result"}, NEW c \in StreamCall, Stream!Message(k, c)
  PROVE  StreamInv'
<1>1. /\ graph = "run" /\ phase # "closed" /\ count' = count + 1
      /\ toolCalls' = [toolCalls EXCEPT ![c] = IF k = "call" THEN "called" ELSE "answered"]
      /\ msgq' = Append(msgq, Stream!Event(k, c))
      /\ UNCHANGED <<graph, replies, evq, outq, pump, seen, streamed, phase, error, probe, sent,
           shown>>
  BY DEF Stream!Message, Stream!Produces
<1>2. phase = "loop" /\ pump.msg = "run"
  BY <1>1, Running
<1>3. msgq \in Seq(MsgItem) /\ Stream!Event(k, c) \in MsgItem
  BY DEF StreamInv, StreamTyped, Stream!Event, MsgItem
<1>4. StreamTyped'
  BY <1>1, <1>3, AppendFacts DEF StreamInv, StreamTyped
<1>5. Starts'
  BY StartsGraph DEF StreamInv
<1>7. Events'
  BY <1>1, <1>2 DEF StreamInv, Events, StopLast, Stopped, No
<1>8. Messages' /\ Knows' /\ Said'
  BY <1>1, <1>2 DEF StreamInv, StreamTyped, Messages, Ended, No, Knows, Late, Said
<1>9. Display'
  BY <1>1, <1>2 DEF StreamInv, Display, Follows, PlacedAs, Stream!Token, Stream!Final
<1> QED BY <1>4, <1>5, <1>7, <1>8, <1>9 DEF StreamInv

\* The graph ends, pauses or fails.
LEMMA GraphEndsKeeps ==
  ASSUME StreamInv, NEW how \in {"done", "paused", "failed"}, Stream!GraphEnds(how)
  PROVE  StreamInv'
<1>1. /\ graph = "run" /\ phase # "closed" /\ graph' = how /\ (how = "done" => replies > 0)
      /\ UNCHANGED <<replies, count, toolCalls, evq, msgq, outq, pump, seen, streamed, phase,
           error, probe, sent, shown>>
  BY DEF Stream!GraphEnds
<1>2. phase = "loop" /\ pump.msg = "run"
  BY <1>1, Running
<1>4. StreamTyped'
  BY <1>1 DEF StreamInv, StreamTyped
<1>5. Starts'
  BY <1>1, StartsSame DEF StreamInv
<1>7. Events'
  BY <1>1, <1>2 DEF StreamInv, Events, StopLast, Stopped, No
<1>8. Messages' /\ Knows' /\ Said'
  BY <1>1, <1>2 DEF StreamInv, StreamTyped, Messages, Ended, No, Knows, Late, Said
<1>9. Display'
  BY <1>1, <1>2 DEF StreamInv, Display, Follows, PlacedAs, Stream!Token, Stream!Final
<1> QED BY <1>4, <1>5, <1>7, <1>8, <1>9 DEF StreamInv

\* While a pump runs, the generator is not closed.
LEMMA PumpOpen ==
  ASSUME StreamInv
  PROVE  /\ pump.msg = "run" => phase = "loop"
         /\ pump.ev = "run" => phase \in {"loop", "probe", "stop", "join"}
         /\ pump.msg \in {"run", "ended"} /\ pump.ev \in {"run", "ended", "dead"}
BY DEF StreamInv, StreamTyped, Messages, Events, Said

\* The pump of the messages hands one on.
LEMMA MsgPumpKeeps ==
  ASSUME StreamInv, Stream!MsgPump
  PROVE  StreamInv'
<1>1. /\ pump.msg = "run" /\ msgq # <<>> /\ msgq' = Tail(msgq)
      /\ UNCHANGED <<graph, replies, count, toolCalls, evq, pump, streamed, phase, error, probe,
           sent, shown>>
  BY DEF Stream!MsgPump, Stream!source
<1>2. phase = "loop"
  BY <1>1, PumpOpen
<1>3. /\ msgq \in Seq(MsgItem) /\ Head(msgq) \in MsgItem /\ Head(msgq).n \in StreamCall
           /\ Tail(msgq) \in Seq(MsgItem)
      /\ outq \in Seq(OutItem) /\ sent \in Seq(SentItem)
  <2>1. msgq \in Seq(MsgItem) /\ outq \in Seq(OutItem) /\ sent \in Seq(SentItem)
    BY DEF StreamInv, StreamTyped
  <2>2. Head(msgq) \in MsgItem /\ Tail(msgq) \in Seq(MsgItem)
    BY <1>1, <2>1, TailFacts
  <2> QED BY <2>1, <2>2 DEF MsgItem
<1> DEFINE c == Head(msgq).n
<1>4. /\ seen' \in {seen, seen \cup {c}}
      /\ outq' \in {outq, Append(outq, Stream!Event("tool_start", c)), Append(outq,
           Stream!Event("tool_end", c))}
  BY DEF Stream!MsgPump
<1>5. /\ Stream!Event("tool_start", c) \in OutItem /\ Stream!Event("tool_start", c).k = "tool_start"
      /\ Stream!Event("tool_end", c) \in OutItem /\ Stream!Event("tool_end", c).k = "tool_end"
  BY <1>3 DEF Stream!Event, OutItem
<1>6. PICK e \in OutItem : outq' \in {outq, Append(outq, e)} /\ e.k \in {"tool_start", "tool_end"}
  BY <1>4, <1>5
<1>7. StreamTyped'
  <2>1. outq' \in Seq(OutItem)
    BY <1>3, <1>6, AppendFacts
  <2> QED BY <2>1, <1>1, <1>3, <1>4 DEF StreamInv, StreamTyped
<1>8. Starts'
  BY StartsMsg DEF StreamInv
<1>9. No(outq', "err") /\ No(outq', "msg_done")
  <2>1. No(outq, "err") /\ No(outq, "msg_done")
    BY <1>1, <1>2 DEF StreamInv, Messages
  <2> QED BY <2>1, <1>3, <1>6, NoAppend
<1>10. Messages'
  BY <1>1, <1>2, <1>9 DEF StreamInv, Messages
<1>11. Events' /\ Knows' /\ Said'
  BY <1>1, <1>2 DEF StreamInv, Events, StopLast, Stopped, No, Knows, Late, Said
<1>12. Display'
  <2>1. Follows(streamed, shown, outq)
    BY <1>2 DEF StreamInv, Display
  <2>2. streamed \in Seq(Nat) /\ shown \in Seq(Nat)
    BY DEF StreamInv, StreamTyped
  <2>3. Follows(streamed, shown, outq')
    BY <2>1, <2>2, <1>3, <1>6, FollowsQueue
  <2> QED BY <2>3, <1>1, <1>2 DEF Display
<1> QED BY <1>7, <1>8, <1>10, <1>11, <1>12 DEF StreamInv


\* The end of the message stream, in normal form.
LEMMA MsgPumpEndsForm ==
  ASSUME NEW why \in {"end", "raised", "timeout"}, Stream!MsgPumpEnds(why)
  PROVE  /\ pump.msg = "run" /\ pump' = [pump EXCEPT !.msg = "ended"]
         /\ UNCHANGED <<replies, count, toolCalls, evq, msgq, seen, streamed, phase, error, probe,
              sent, shown>>
         /\ \/ why = "end" /\ graph \in {"done", "paused"} /\ graph' = graph
              /\ outq' = Append(outq, Stream!MsgDone)
            \/ /\ why \in {"raised", "timeout"} /\ graph' = "failed"
               /\ outq' = outq \o <<Stream!Err(why), Stream!MsgDone>>
<1>1. /\ pump.msg = "run" /\ pump' = [pump EXCEPT !.msg = "ended"]
      /\ UNCHANGED <<replies, count, toolCalls, evq, msgq, seen, streamed, phase, error, probe,
           sent, shown>>
      /\ outq' = IF why = "end" THEN Append(outq, Stream!MsgDone) ELSE outq \o <<Stream!Err(why),
           Stream!MsgDone>>
      /\ graph' = IF why = "timeout" THEN "failed" ELSE graph
  BY DEF Stream!MsgPumpEnds
<1>2. CASE why = "end"
  <2>1. graph \in {"done", "paused"}
    BY <1>2 DEF Stream!MsgPumpEnds
  <2> QED BY <1>1, <1>2, <2>1
<1>3. CASE why = "raised"
  <2>1. graph = "failed"
    BY <1>3 DEF Stream!MsgPumpEnds
  <2> QED BY <1>1, <1>3, <2>1
<1>4. CASE why = "timeout"
  BY <1>1, <1>4
<1> QED BY <1>2, <1>3, <1>4

\* The pump of the messages ends.
LEMMA MsgPumpEndsKeeps ==
  ASSUME StreamInv, NEW why \in {"end", "raised", "timeout"}, Stream!MsgPumpEnds(why)
  PROVE  StreamInv'
<1>1. /\ pump.msg = "run" /\ pump' = [pump EXCEPT !.msg = "ended"]
      /\ UNCHANGED <<replies, count, toolCalls, evq, msgq, seen, streamed, phase, error, probe,
           sent, shown>>
      /\ \/ why = "end" /\ graph \in {"done", "paused"} /\ graph' = graph
           /\ outq' = Append(outq, Stream!MsgDone)
         \/ /\ why \in {"raised", "timeout"} /\ graph' = "failed"
            /\ outq' = outq \o <<Stream!Err(why), Stream!MsgDone>>
  BY MsgPumpEndsForm
<1>2. phase = "loop" /\ error = "none" /\ No(outq, "err") /\ No(outq, "msg_done")
  BY <1>1, PumpOpen DEF StreamInv, Messages
<1>3. /\ outq \in Seq(OutItem) /\ Stream!MsgDone \in OutItem /\ Stream!MsgDone.k = "msg_done"
      /\ why # "end" => Stream!Err(why) \in OutItem /\ Stream!Err(why).k = "err"
  BY DEF StreamInv, StreamTyped, Stream!MsgDone, Stream!Event, Stream!Err, OutItem
<1>4. pump' \in [{"msg", "ev"} -> {"run", "ended", "dead"}] /\ pump'.msg = "ended"
          /\ pump'.ev = pump.ev
  BY <1>1 DEF StreamInv, StreamTyped
<1>5. Knows' /\ Said'
  BY <1>1, <1>2 DEF StreamInv, Knows, Late, Said, No
<1>6. Events'
  BY <1>1, <1>2, <1>4 DEF StreamInv, Events, StopLast, Stopped, No
<1>7. /\ streamed \in Seq(Nat) /\ shown \in Seq(Nat) /\ Follows(streamed, shown, outq)
      /\ streamed' = streamed /\ shown' = shown
  BY <1>1, <1>2 DEF StreamInv, Display, StreamTyped
<1>8. CASE why = "end"
  <2>1. graph \in {"done", "paused"} /\ graph' = graph /\ outq' = Append(outq, Stream!MsgDone)
    BY <1>1, <1>8
  <2>2. outq' \in Seq(OutItem) /\ Ended(outq') /\ No(outq', "err")
    BY <2>1, <1>2, <1>3, AppendFacts, EndedAppend, NoAppend
  <2>3. StreamTyped'
    BY <1>1, <1>4, <2>1, <2>2 DEF StreamInv, StreamTyped
  <2>4. Starts'
    BY <1>1, <1>3, <2>1, StartsPut DEF StreamInv
  <2>5. Messages'
    BY <1>1, <1>2, <1>4, <2>1, <2>2 DEF StreamInv, Messages
  <2>6. Follows(streamed', shown', outq')
    BY <1>7, <2>1, <1>3, FollowsQueue
  <2>7. Display'
    BY <2>6, <1>1, <1>2 DEF Display
  <2> QED BY <2>3, <2>4, <2>5, <2>7, <1>5, <1>6 DEF StreamInv
<1>9. CASE why # "end"
  <2> DEFINE mid == Append(outq, Stream!Err(why))
  <2>1. graph' = "failed" /\ outq' = Append(mid, Stream!MsgDone)
    BY <1>1, <1>3, <1>9, CatFacts
  <2>2. mid \in Seq(OutItem) /\ ~No(mid, "err") /\ No(mid, "msg_done")
    BY <1>2, <1>3, <1>9, AppendFacts, NoAppend
  <2>3. Follows(streamed, shown, mid)
    BY <1>7, <1>3, <1>9, FollowsQueue
  <2>4. ASSUME NEW c \in StreamCall
        PROVE  At(outq', Begun(c)) <=> At(outq, Begun(c))
    <3>1. At(mid, Begun(c)) <=> At(outq, Begun(c))
      BY <1>3, <1>9, AtAppend, Kind
    <3> HIDE DEF mid
    <3>2. At(outq', Begun(c)) <=> At(mid, Begun(c))
      BY <1>3, <2>1, <2>2, AtAppend, Kind
    <3> QED BY <3>1, <3>2
  <2>5. /\ Len(outq) \in Nat /\ DOMAIN outq = 1..Len(outq) /\ DOMAIN outq' = 1..(Len(outq) + 2)
        /\ \A i \in 1..Len(outq) : outq'[i] = outq[i]
        /\ outq'[Len(outq) + 1] = Stream!Err(why) /\ outq'[Len(outq) + 2] = Stream!MsgDone
    <3>1. /\ Len(outq) \in Nat /\ DOMAIN outq = 1..Len(outq) /\ Len(mid) = Len(outq) + 1
          /\ \A i \in 1..Len(outq) : mid[i] = outq[i]
          /\ mid[Len(outq) + 1] = Stream!Err(why)
      BY <1>3, <1>9, AppendFacts
    <3> HIDE DEF mid
    <3>2. /\ DOMAIN outq' = 1..(Len(mid) + 1)
          /\ \A i \in 1..Len(mid) : outq'[i] = mid[i]
          /\ outq'[Len(mid) + 1] = Stream!MsgDone
      BY <2>1, <2>2, <1>3, AppendFacts
    <3> QED BY <3>1, <3>2
  <2> HIDE DEF mid
  <2>6. outq' \in Seq(OutItem) /\ Ended(outq') /\ ~No(outq', "err")
    BY <2>1, <2>2, <1>3, AppendFacts, EndedAppend, NoAppend
  <2>7. StreamTyped'
    BY <1>1, <1>4, <2>1, <2>6 DEF StreamInv, StreamTyped
  <2>8. Messages'
    BY <1>1, <1>2, <1>4, <2>1, <2>6 DEF StreamInv, Messages
  <2>9. Follows(streamed', shown', outq')
    BY <1>7, <2>1, <2>2, <2>3, <1>3, FollowsQueue
  <2>10. Display'
    BY <2>9, <1>1, <1>2 DEF Display
  <2>11. Starts'
    BY <1>1, <1>3, <1>9, <2>4, <2>5, StartsEnd DEF StreamInv
  <2> QED BY <2>7, <2>8, <2>10, <2>11, <1>5, <1>6 DEF StreamInv
<1> QED BY <1>8, <1>9

\* The pump of the events hands one on.
LEMMA EvPumpKeeps ==
  ASSUME StreamInv, Stream!EvPump
  PROVE  StreamInv'
<1> DEFINE e == Head(evq)
<1>1. /\ pump.ev = "run" /\ evq # <<>> /\ evq' = Tail(evq)
      /\ UNCHANGED <<graph, replies, count, toolCalls, msgq, seen, phase, error, probe, sent,
           shown>>
      /\ \/ e.k = "ev_stop" /\ pump' = [pump EXCEPT !.ev = "ended"] /\ outq' = outq
           /\ streamed' = streamed
         \/ e.k # "ev_stop" /\ pump' = pump /\ outq' = Append(outq, e)
            /\ streamed' = IF e.k = "token" THEN Append(streamed, e.n) ELSE streamed
  BY DEF Stream!EvPump, Stream!source
<1>2. phase \in {"loop", "probe", "stop", "join"}
  BY <1>1, PumpOpen
<1>3. /\ evq \in Seq(EvItem) /\ e \in EvItem /\ evq' \in Seq(EvItem) /\ outq \in Seq(OutItem)
      /\ streamed \in Seq(Nat) /\ shown \in Seq(Nat) /\ pump.msg \in {"run", "ended"}
  <2>1. /\ evq \in Seq(EvItem) /\ outq \in Seq(OutItem) /\ streamed \in Seq(Nat)
             /\ shown \in Seq(Nat)
        /\ pump.msg \in {"run", "ended"}
    BY DEF StreamInv, StreamTyped
  <2> QED BY <1>1, <2>1, TailFacts
<1>4. /\ e.k \in {"token", "step", "ev_stop"} /\ e.n \in Nat
      /\ e.k # "ev_stop" => e \in OutItem
      /\ e.k = "token" => e = Stream!Token(e.n)
  BY <1>3 DEF EvItem, OutItem, Stream!Token
<1>5. /\ StopLast(evq') /\ (No(evq, "ev_stop") => No(evq', "ev_stop") /\ e.k # "ev_stop")
      /\ e.k = "ev_stop" => evq' = <<>>
      /\ e.k # "ev_stop" /\ Stopped(evq) => Stopped(evq')
  BY <1>1, <1>3, StopTail, NoTail DEF StreamInv, Events
<1>6. Follows(streamed, shown, outq)
  BY <1>2 DEF StreamInv, Display
<1> HIDE DEF e
<1>7. CASE e.k = "ev_stop"
  <2>1. pump' = [pump EXCEPT !.ev = "ended"] /\ outq' = outq /\ streamed' = streamed
    BY <1>1, <1>7
  <2>2. pump' \in [{"msg", "ev"} -> {"run", "ended", "dead"}] /\ pump'.msg = pump.msg
            /\ pump'.ev = "ended"
    BY <2>1 DEF StreamInv, StreamTyped
  <2>3. phase = "join"
    BY <1>2, <1>5, <1>7 DEF StreamInv, Events
  <2>4. StreamTyped'
    BY <1>1, <1>3, <2>1, <2>2 DEF StreamInv, StreamTyped
  <2>5. Starts'
    BY <1>1, <2>1, StartsSame DEF StreamInv
  <2>6. Messages' /\ Knows' /\ Said'
    BY <1>1, <2>1, <2>2, <2>3 DEF StreamInv, Messages, Ended, No, Knows, Late, Said
  <2>7. Events'
    BY <1>1, <1>5, <1>7, <2>1, <2>2, <2>3 DEF Events
  <2>8. Display'
    BY <1>1, <2>1, <2>3, <1>6 DEF Display
  <2> QED BY <2>4, <2>5, <2>6, <2>7, <2>8 DEF StreamInv
<1>8. CASE e.k # "ev_stop"
  <2>1. /\ pump' = pump /\ outq' = Append(outq, e) /\ e \in OutItem
        /\ streamed' = IF e.k = "token" THEN Append(streamed, e.n) ELSE streamed
    BY <1>1, <1>4, <1>8
  <2>2. outq' \in Seq(OutItem) /\ streamed' \in Seq(Nat)
    BY <1>3, <1>4, <2>1, AppendFacts
  <2>3. /\ No(outq', "err") <=> No(outq, "err")
        /\ No(outq', "msg_done") <=> No(outq, "msg_done")
        /\ Ended(outq) => Ended(outq')
    BY <1>3, <1>4, <2>1, NoAppend, EndedAppend
  <2>4. StreamTyped'
    BY <1>1, <1>3, <2>1, <2>2 DEF StreamInv, StreamTyped
  <2>5. Starts'
    BY <1>1, <1>4, <2>1, StartsPut DEF StreamInv
  <2>6. Messages'
    BY <1>1, <2>1, <2>3 DEF StreamInv, Messages
  <2>7. Knows' /\ Said'
    BY <1>1, <1>2, <2>1 DEF StreamInv, No, Knows, Late, Said
  <2>8. Events'
    BY <1>1, <1>2, <1>5, <1>8, <2>1 DEF StreamInv, Events
  <2>9. Follows(streamed', shown', outq')
    <3>1. CASE e.k = "token"
      BY <3>1, <1>1, <1>3, <1>4, <1>6, <2>1, FollowsStream
    <3>2. CASE e.k # "token"
      BY <3>2, <1>1, <1>3, <1>6, <2>1, FollowsQueue
    <3> QED BY <3>1, <3>2
  <2>10. Display'
    BY <1>1, <1>2, <2>9 DEF Display
  <2> QED BY <2>4, <2>5, <2>6, <2>7, <2>8, <2>10 DEF StreamInv
<1> QED BY <1>7, <1>8

\* The pump of the events dies.
LEMMA EvPumpDiesKeeps ==
  ASSUME StreamInv, Stream!EvPumpDies
  PROVE  StreamInv'
<1>1. /\ pump.ev = "run" /\ evq # <<>> /\ evq' = Tail(evq) /\ Head(evq).k = "step"
      /\ pump' = [pump EXCEPT !.ev = "dead"]
      /\ UNCHANGED <<graph, replies, count, toolCalls, msgq, outq, seen, streamed, phase, error,
           probe, sent, shown>>
  BY DEF Stream!EvPumpDies, Stream!source
<1>2. phase \in {"loop", "probe", "stop", "join"}
  BY <1>1, PumpOpen
<1>3. evq \in Seq(EvItem) /\ evq' \in Seq(EvItem)
  <2>1. evq \in Seq(EvItem)
    BY DEF StreamInv, StreamTyped
  <2> QED BY <1>1, <2>1, TailFacts
<1>4. pump' \in [{"msg", "ev"} -> {"run", "ended", "dead"}] /\ pump'.msg = pump.msg
          /\ pump'.ev = "dead"
  BY <1>1 DEF StreamInv, StreamTyped
<1>5. StopLast(evq') /\ (No(evq, "ev_stop") => No(evq', "ev_stop"))
  BY <1>1, <1>3, StopTail, NoTail DEF StreamInv, Events
<1>6. StreamTyped'
  BY <1>1, <1>3, <1>4 DEF StreamInv, StreamTyped
<1>7. Starts'
  BY <1>1, StartsSame DEF StreamInv
<1>8. Messages' /\ Knows' /\ Said'
  BY <1>1, <1>2, <1>4 DEF StreamInv, Messages, Ended, No, Knows, Late, Said
<1>9. Events'
  BY <1>1, <1>2, <1>4, <1>5 DEF StreamInv, Events
<1>10. Display'
  BY <1>1, <1>2, ZenonT(40) DEF StreamInv, Display, Follows, PlacedAs, Stream!Token
<1> QED BY <1>6, <1>7, <1>8, <1>9, <1>10 DEF StreamInv


\* An item of the queue is handed to the client.
LEMMA HandedOver ==
  ASSUME StreamInv, outq # <<>>, Head(outq).k \notin {"err", "msg_done"},
         outq' = Tail(outq), Stream!Yield(<<Head(outq)>>), Follows(streamed, shown, outq),
         streamed' = streamed
  PROVE  /\ Head(outq) \in SentItem /\ sent' = Append(sent, Head(outq))
         /\ outq' \in Seq(OutItem) /\ sent' \in Seq(SentItem) /\ shown' \in Seq(Nat)
         /\ Follows(streamed', shown', outq')
         /\ \A k : No(outq, k) => No(outq', k)
         /\ \A k \in {"err", "msg_done"} : No(outq', k) => No(outq, k)
         /\ Ended(outq) => Ended(outq')
         /\ \A k \in {"done", "error", "approval"} : No(sent, k) => No(sent', k)
<1> DEFINE e == Head(outq)
<1>1. outq \in Seq(OutItem) /\ sent \in Seq(SentItem) /\ streamed \in Seq(Nat) /\ shown \in Seq(Nat)
  BY DEF StreamInv, StreamTyped
<1>2. e \in OutItem /\ outq' \in Seq(OutItem)
  BY <1>1, TailFacts
<1>3. e \in SentItem /\ e.k \in {"token", "step", "tool_start", "tool_end"}
          /\ (e.k = "token" => e.n \in Nat)
  BY <1>2 DEF OutItem, SentItem
<1>4. sent' = Append(sent, e)
  BY <1>1, <1>3, CatFacts DEF Stream!Yield
<1>5. shown' = IF e.k = "token" THEN Append(shown, e.n) ELSE shown
  <2>1. <<e>> # <<>> /\ <<e>>[1] = e
    OBVIOUS
  <2>2. shown' = Stream!Shows(e)
    BY <2>1 DEF Stream!Yield
  <2>3. e.k # "replace"
    BY <1>3
  <2>4. Stream!Shows(e) = IF e.k = "token" THEN Append(shown, e.n) ELSE shown
    BY <2>3 DEF Stream!Shows
  <2> QED BY <2>2, <2>4
<1>6. sent' \in Seq(SentItem) /\ shown' \in Seq(Nat)
  BY <1>1, <1>3, <1>4, <1>5, AppendFacts
<1>7. Follows(streamed', shown', outq')
  BY <1>1, <1>3, <1>5, FollowsToken, FollowsOther
<1>8. /\ \A k : No(outq, k) => No(outq', k)
      /\ \A k \in {"err", "msg_done"} : No(outq', k) => No(outq, k)
      /\ Ended(outq) => Ended(outq')
  <2>1. \A k : No(outq, k) <=> No(outq', k) /\ e.k # k
    BY <1>1, NoTail
  <2>2. e.k \notin {"err", "msg_done"}
    OBVIOUS
  <2> QED BY <2>1, <2>2, <1>1, EndedTail
<1>9. \A k \in {"done", "error", "approval"} : No(sent, k) => No(sent', k)
  BY <1>1, <1>3, <1>4, NoAppend
<1> QED BY <1>2, <1>3, <1>4, <1>6, <1>7, <1>8, <1>9

\* The end of the messages is taken from the queue.
LEMMA EndTaken ==
  ASSUME StreamInv, outq # <<>>, Head(outq).k \in {"err", "msg_done"}, outq' = Tail(outq),
         Follows(streamed, shown, outq), streamed' = streamed, shown' = shown
  PROVE  /\ outq' \in Seq(OutItem) /\ Follows(streamed', shown', outq')
         /\ Head(outq).k = "err" => Head(outq).n \in {"raised", "timeout"} /\ ~No(outq, "err")
         /\ Head(outq).k = "msg_done" => (No(outq', "err") <=> No(outq, "err"))
<1>1. outq \in Seq(OutItem) /\ streamed \in Seq(Nat) /\ shown \in Seq(Nat)
  BY DEF StreamInv, StreamTyped
<1>2. Head(outq) \in OutItem /\ outq' \in Seq(OutItem)
  BY <1>1, TailFacts
<1>3. Follows(streamed', shown', outq')
  BY <1>1, FollowsOther
<1>4. Head(outq).k = "err" => Head(outq).n \in {"raised", "timeout"}
  BY <1>2 DEF OutItem
<1>5. /\ No(outq, "err") <=> No(outq', "err") /\ Head(outq).k # "err"
  BY <1>1, NoTail
<1> QED BY <1>2, <1>3, <1>4, <1>5

\* The endpoint sends the head of the queue.
LEMMA ForwardKeeps ==
  ASSUME StreamInv, Stream!Forward
  PROVE  StreamInv'
<1> DEFINE e == Head(outq)
<1>1. /\ phase = "loop" /\ outq # <<>> /\ outq' = Tail(outq)
      /\ UNCHANGED <<graph, replies, count, toolCalls, evq, msgq, pump, seen, streamed, probe>>
  BY DEF Stream!Forward, Stream!source
<1>2. \/ /\ e.k = "msg_done" /\ phase' = IF error = "none" THEN "probe" ELSE "stop"
         /\ UNCHANGED <<error, sent, shown>>
      \/ e.k = "err" /\ error' = e.n /\ UNCHANGED <<phase, sent, shown>>
      \/ e.k \notin {"msg_done", "err"} /\ Stream!Yield(<<e>>) /\ UNCHANGED <<phase, error>>
  BY DEF Stream!Forward
<1>3. Follows(streamed, shown, outq)
  BY <1>1 DEF StreamInv, Display
<1>4. No(sent, "done") /\ No(sent, "error") /\ No(sent, "approval") /\ probe = "none"
  BY <1>1 DEF StreamInv, Knows
<1>5. CASE e.k = "msg_done"
  <2>1. phase' = (IF error = "none" THEN "probe" ELSE "stop") /\ UNCHANGED <<error, sent, shown>>
    BY <1>2, <1>5
  <2>2. /\ outq' \in Seq(OutItem) /\ Follows(streamed', shown', outq')
        /\ No(outq', "err") <=> No(outq, "err")
    BY <1>1, <1>3, <1>5, <2>1, EndTaken
  <2>3. ~No(outq, "msg_done")
    BY <1>1, <1>5, NoTail DEF StreamInv, StreamTyped
  <2>4. pump.msg = "ended" /\ Ended(outq)
    BY <1>1, <2>3, PumpOpen DEF StreamInv, Messages
  <2>5. No(outq', "msg_done") /\ No(outq', "err")
    BY <1>1, <1>5, <2>4, EndedTail DEF StreamInv, StreamTyped
  <2>6. StreamTyped'
    BY <1>1, <2>1, <2>2 DEF StreamInv, StreamTyped
  <2>7. Starts'
    BY <1>1, <1>5, <2>1, StartsDrop DEF StreamInv
  <2>8. Messages'
    BY <1>1, <2>1, <2>2, <2>4, <2>5 DEF StreamInv, StreamTyped, Messages
  <2>9. Events'
    BY <1>1, <2>1 DEF StreamInv, Events, StopLast, Stopped, No
  <2>10. Knows'
    BY <1>1, <1>4, <2>1 DEF StreamInv, StreamTyped, Knows, Late, No
  <2>11. Display'
    BY <2>1, <2>2 DEF Display
  <2>12. Said'
    BY <2>1 DEF Said
  <2> QED BY <2>6, <2>7, <2>8, <2>9, <2>10, <2>11, <2>12 DEF StreamInv
<1>6. CASE e.k = "err"
  <2>1. error' = e.n /\ UNCHANGED <<phase, sent, shown>>
    BY <1>2, <1>6
  <2>2. /\ outq' \in Seq(OutItem) /\ Follows(streamed', shown', outq')
        /\ e.n \in {"raised", "timeout"} /\ ~No(outq, "err")
    BY <1>1, <1>3, <1>6, <2>1, EndTaken
  <2>3. pump.msg = "ended" /\ Ended(outq) /\ graph = "failed"
    BY <1>1, <2>2, PumpOpen DEF StreamInv, Messages
  <2>4. Ended(outq')
    BY <1>1, <1>6, <2>3, EndedTail DEF StreamInv, StreamTyped
  <2>5. StreamTyped'
    BY <1>1, <2>1, <2>2 DEF StreamInv, StreamTyped
  <2>6. Starts'
    BY <1>1, <1>6, <2>1, StartsDrop DEF StreamInv
  <2>7. Messages'
    BY <1>1, <2>1, <2>2, <2>3, <2>4 DEF StreamInv, Messages
  <2>8. Events'
    BY <1>1, <2>1 DEF StreamInv, Events, StopLast, Stopped, No
  <2>9. Knows'
    BY <1>1, <1>4, <2>1 DEF Knows, Late, No
  <2>10. Display'
    BY <1>1, <2>1, <2>2 DEF Display
  <2>11. Said'
    BY <1>1, <2>1 DEF Said
  <2> QED BY <2>5, <2>6, <2>7, <2>8, <2>9, <2>10, <2>11 DEF StreamInv
<1>7. CASE e.k \notin {"msg_done", "err"}
  <2>1. Stream!Yield(<<e>>) /\ UNCHANGED <<phase, error>>
    BY <1>2, <1>7
  <2>2. /\ e \in SentItem /\ sent' = Append(sent, e)
        /\ outq' \in Seq(OutItem) /\ sent' \in Seq(SentItem) /\ shown' \in Seq(Nat)
        /\ Follows(streamed', shown', outq')
        /\ \A k : No(outq, k) => No(outq', k)
        /\ \A k \in {"err", "msg_done"} : No(outq', k) => No(outq, k)
        /\ Ended(outq) => Ended(outq')
        /\ \A k \in {"done", "error", "approval"} : No(sent, k) => No(sent', k)
    BY <1>1, <1>3, <1>7, <2>1, HandedOver
  <2>3. StreamTyped'
    BY <1>1, <2>1, <2>2 DEF StreamInv, StreamTyped
  <2>4. Starts'
    BY <1>1, <2>2, StartsMove DEF StreamInv
  <2>5. Messages'
    BY <1>1, <2>1, <2>2 DEF StreamInv, Messages
  <2>6. Events'
    BY <1>1, <2>1 DEF StreamInv, Events, StopLast, Stopped, No
  <2>7. Knows'
    BY <1>1, <1>4, <2>1, <2>2 DEF Knows, Late
  <2>8. Display'
    BY <1>1, <2>1, <2>2 DEF Display
  <2>9. Said'
    BY <1>1, <2>1 DEF Said
  <2> QED BY <2>3, <2>4, <2>5, <2>6, <2>7, <2>8, <2>9 DEF StreamInv
<1> QED BY <1>5, <1>6, <1>7

\* The probe reads how the graph ended.
LEMMA ProbeKeeps ==
  ASSUME StreamInv, NEW lost \in BOOLEAN, Stream!Probe(lost)
  PROVE  StreamInv'
<1>1. /\ phase = "probe" /\ phase' = "stop" /\ probe' = IF lost THEN "lost" ELSE graph
      /\ UNCHANGED <<graph, replies, count, toolCalls, evq, msgq, outq, pump, seen, streamed,
           error, sent, shown>>
  BY DEF Stream!Probe, Stream!source
<1>2. pump.msg = "ended" /\ No(outq, "err") /\ error = "none" /\ graph \in {"done", "paused"}
  BY <1>1 DEF StreamInv, Messages, Knows
<1>3. StreamTyped'
  BY <1>1, <1>2 DEF StreamInv, StreamTyped
<1>4. Starts'
  BY <1>1, StartsSame DEF StreamInv
<1>5. Messages'
  BY <1>1, <1>2 DEF StreamInv, Messages, No
<1>6. Events'
  BY <1>1 DEF StreamInv, Events, StopLast, Stopped, No
<1>7. Knows'
  BY <1>1, <1>2 DEF StreamInv, Knows, Late, No
<1>8. Display'
  BY <1>1 DEF StreamInv, Display, Follows, PlacedAs, Stream!Token
<1>9. Said'
  BY <1>1 DEF Said
<1> QED BY <1>3, <1>4, <1>5, <1>6, <1>7, <1>8, <1>9 DEF StreamInv

\* The stop mark is put.
LEMMA StopKeeps ==
  ASSUME StreamInv, Stream!Stop
  PROVE  StreamInv'
<1>1. /\ phase = "stop" /\ phase' = "join" /\ evq' = Append(evq, Stream!EvStop)
      /\ UNCHANGED <<graph, replies, count, toolCalls, msgq, outq, pump, seen, streamed, error,
           probe, sent, shown>>
  BY DEF Stream!Stop, Stream!source
<1>2. evq \in Seq(EvItem) /\ Stream!EvStop \in EvItem /\ Stream!EvStop.k = "ev_stop"
          /\ No(evq, "ev_stop") /\ pump.ev # "ended"
  BY <1>1 DEF StreamInv, StreamTyped, Events, Stream!EvStop, Stream!Event, EvItem
<1>3. evq' \in Seq(EvItem) /\ StopLast(evq') /\ Stopped(evq')
  BY <1>1, <1>2, AppendFacts, StopAppend
<1>4. StreamTyped'
  BY <1>1, <1>3 DEF StreamInv, StreamTyped
<1>5. Starts'
  BY <1>1, StartsSame DEF StreamInv
<1>6. Messages'
  BY <1>1 DEF StreamInv, Messages, No
<1>7. Events'
  BY <1>1, <1>2, <1>3 DEF Events
<1>8. Knows'
  BY <1>1 DEF StreamInv, Knows, Late, No
<1>9. Display'
  BY <1>1 DEF StreamInv, Display, Follows, PlacedAs, Stream!Token
<1>10. Said'
  BY <1>1 DEF Said
<1> QED BY <1>4, <1>5, <1>6, <1>7, <1>8, <1>9, <1>10 DEF StreamInv

\* The pumps are waited for.
LEMMA JoinKeeps ==
  ASSUME StreamInv, Stream!Join
  PROVE  StreamInv'
<1>1. /\ phase = "join" /\ pump.ev # "run"
           /\ phase' = IF pump.ev = "dead" THEN "broken" ELSE "drain"
      /\ UNCHANGED <<graph, replies, count, toolCalls, evq, msgq, outq, pump, seen, streamed,
           error, probe, sent, shown>>
  BY DEF Stream!Join, Stream!source
<1>2. pump.ev \in {"ended", "dead"}
  BY <1>1, PumpOpen
<1>3. StreamTyped'
  BY <1>1 DEF StreamInv, StreamTyped
<1>4. Starts'
  BY <1>1, StartsSame DEF StreamInv
<1>5. Messages'
  BY <1>1 DEF StreamInv, Messages, No
<1>6. Events'
  BY <1>1, <1>2 DEF StreamInv, Events, StopLast, Stopped, No
<1>7. Knows'
  BY <1>1 DEF StreamInv, Knows, Late, No
<1>8. Display'
  BY <1>1 DEF StreamInv, Display, Follows, PlacedAs, Stream!Token
<1>9. Said'
  BY <1>1 DEF Said
<1> QED BY <1>3, <1>4, <1>5, <1>6, <1>7, <1>8, <1>9 DEF StreamInv

\* What is left in the queue is sent.
LEMMA DrainKeeps ==
  ASSUME StreamInv, Stream!Drain
  PROVE  StreamInv'
<1> DEFINE e == Head(outq)
<1>1. /\ phase = "drain" /\ outq # <<>> /\ outq' = Tail(outq)
      /\ UNCHANGED <<graph, replies, count, toolCalls, evq, msgq, pump, seen, streamed, phase,
           probe>>
  BY DEF Stream!Drain, Stream!source
<1>2. No(outq, "err") /\ No(outq, "msg_done") /\ Follows(streamed, shown, outq)
  BY <1>1 DEF StreamInv, Messages, Display
<1>3. e.k \notin {"err", "msg_done"}
  BY <1>1, <1>2, NoTail DEF StreamInv, StreamTyped
<1>4. Stream!Yield(<<e>>) /\ error' = error
  BY <1>3 DEF Stream!Drain
<1>5. /\ e \in SentItem /\ sent' = Append(sent, e)
      /\ outq' \in Seq(OutItem) /\ sent' \in Seq(SentItem) /\ shown' \in Seq(Nat)
      /\ Follows(streamed', shown', outq')
      /\ \A k : No(outq, k) => No(outq', k)
      /\ \A k \in {"err", "msg_done"} : No(outq', k) => No(outq, k)
      /\ Ended(outq) => Ended(outq')
      /\ \A k \in {"done", "error", "approval"} : No(sent, k) => No(sent', k)
  BY <1>1, <1>2, <1>3, <1>4, HandedOver
<1>6. StreamTyped'
  BY <1>1, <1>4, <1>5 DEF StreamInv, StreamTyped
<1>7. Starts'
  BY <1>1, <1>5, StartsMove DEF StreamInv
<1>8. Messages'
  BY <1>1, <1>4, <1>5 DEF StreamInv, Messages
<1>9. Events'
  BY <1>1 DEF StreamInv, Events, StopLast, Stopped, No
<1>10. Knows'
  BY <1>1, <1>4, <1>5 DEF StreamInv, Knows, Late
<1>11. Display'
  BY <1>1, <1>5 DEF Display
<1>12. Said'
  BY <1>1 DEF Said
<1> QED BY <1>6, <1>7, <1>8, <1>9, <1>10, <1>11, <1>12 DEF StreamInv


\* The answer, in normal form.
LEMMA AnswerForm ==
  ASSUME StreamInv, NEW blocked \in BOOLEAN, Stream!Answer(blocked)
  PROVE  /\ phase = "drain" /\ outq = <<>> /\ shown = streamed
         /\ UNCHANGED <<graph, replies, count, toolCalls, evq, msgq, outq, pump, seen, streamed,
              error, probe>>
         /\ phase' = IF blocked /\ probe # "paused" /\ error = "none" THEN "blocked" ELSE "finish"
         /\ \/ sent' = sent /\ shown' = shown
            \/ \E e \in SentItem : e.k \in {"token", "replace"} /\ sent' = Append(sent, e)
                 /\ shown' \in Seq(Nat)
         /\ error = "none" /\ probe = "done" => shown' = IF blocked THEN <<0>> ELSE <<Stream!Final>>
<1>1. /\ phase = "drain" /\ outq = <<>>
      /\ UNCHANGED <<graph, replies, count, toolCalls, evq, msgq, outq, pump, seen, streamed,
           error, probe>>
      /\ phase' = IF blocked /\ probe # "paused" /\ error = "none" THEN "blocked" ELSE "finish"
  BY DEF Stream!Answer, Stream!source
<1>2. /\ streamed \in Seq(Nat) /\ shown \in Seq(Nat) /\ sent \in Seq(SentItem) /\ replies \in Nat
  BY DEF StreamInv, StreamTyped
<1>3. shown = streamed
  <2>1. Follows(streamed, shown, <<>>)
    BY <1>1 DEF StreamInv, Display
  <2> QED BY <1>2, <2>1, FollowsEnd
<1>4. error = "none" /\ probe = "done" => Stream!Final > 0
  <2> SUFFICES ASSUME error = "none", probe = "done" PROVE Stream!Final > 0
    OBVIOUS
  <2>1. graph = "done"
    BY <1>1 DEF StreamInv, Knows, Late
  <2> QED BY <2>1 DEF StreamInv, Messages, Stream!Final
<1>5. sent \o <<>> = sent
  BY <1>2
<1>6. \A e \in SentItem : sent \o <<e>> = Append(sent, e) /\ <<e>> # <<>> /\ <<e>>[1] = e
  BY <1>2
<1> DEFINE text == IF blocked THEN 0 ELSE Stream!Final
<1>7. text \in Nat
  BY <1>2 DEF Stream!Final
<1>8. CASE probe = "paused" \/ error # "none"
  <2>1. Stream!Yield(<<>>)
    BY <1>8 DEF Stream!Answer
  <2>2. sent' = sent /\ shown' = shown
    BY <2>1, <1>5 DEF Stream!Yield
  <2> QED BY <1>1, <1>3, <1>8, <2>2
<1>9. CASE ~(probe = "paused" \/ error # "none")
  <2>1. Stream!Yield(IF streamed = <<>> THEN IF Stream!Final = 0
            THEN <<>> ELSE <<Stream!Token(text)>>
              ELSE IF blocked \/ Stream!NeedsReplacement THEN <<Stream!Event("replace", text)>>
              ELSE <<>>)
    BY <1>9 DEF Stream!Answer
  <2>2. CASE streamed = <<>> /\ Stream!Final = 0
    <3>1. Stream!Yield(<<>>)
      BY <2>1, <2>2
    <3>2. sent' = sent /\ shown' = shown
      BY <3>1, <1>5 DEF Stream!Yield
    <3> QED BY <1>1, <1>3, <1>4, <2>2, <3>2
  <2>3. CASE streamed = <<>> /\ Stream!Final # 0
    <3> DEFINE e == Stream!Token(text)
    <3>1. Stream!Yield(<<e>>)
      BY <2>1, <2>3
    <3>2. e \in SentItem /\ e.k = "token" /\ e.n = text
      BY <1>7 DEF Stream!Token, SentItem
    <3>3. sent' = Append(sent, e) /\ shown' = Append(shown, text)
      BY <3>1, <3>2, <1>6 DEF Stream!Yield, Stream!Shows
    <3>4. shown' = <<text>> /\ shown' \in Seq(Nat)
      BY <3>3, <2>3, <1>3, <1>7
    <3> HIDE DEF e
    <3> QED BY <1>1, <1>3, <3>2, <3>3, <3>4
  <2>4. CASE streamed # <<>> /\ (blocked \/ Stream!NeedsReplacement)
    <3> DEFINE e == Stream!Event("replace", text)
    <3>1. Stream!Yield(<<e>>)
      BY <2>1, <2>4
    <3>2. e \in SentItem /\ e.k = "replace" /\ e.n = text
      BY <1>7 DEF Stream!Event, SentItem
    <3>3. sent' = Append(sent, e) /\ shown' = <<text>>
      BY <3>1, <3>2, <1>6 DEF Stream!Yield, Stream!Shows
    <3>4. shown' \in Seq(Nat)
      BY <3>3, <1>7
    <3> HIDE DEF e
    <3> QED BY <1>1, <1>3, <3>2, <3>3, <3>4
  <2>5. CASE streamed # <<>> /\ ~(blocked \/ Stream!NeedsReplacement)
    <3>1. Stream!Yield(<<>>)
      BY <2>1, <2>5
    <3>2. sent' = sent /\ shown' = shown
      BY <3>1, <1>5 DEF Stream!Yield
    <3>3. Stream!Final # 0 => streamed = <<Stream!Final>>
      BY <2>5 DEF Stream!NeedsReplacement
    <3>4. error = "none" /\ probe = "done" => shown' = <<Stream!Final>>
      BY <1>2, <1>3, <1>4, <3>2, <3>3 DEF Stream!Final
    <3> QED BY <1>1, <1>3, <2>5, <3>2, <3>4
  <2> QED BY <2>2, <2>3, <2>4, <2>5
<1> QED BY <1>8, <1>9

\* The answer is sent, or the refusal in its place.
LEMMA AnswerKeeps ==
  ASSUME StreamInv, NEW blocked \in BOOLEAN, Stream!Answer(blocked)
  PROVE  StreamInv'
<1>1. /\ phase = "drain" /\ outq = <<>>
      /\ UNCHANGED <<graph, replies, count, toolCalls, evq, msgq, outq, pump, seen, streamed,
           error, probe>>
      /\ phase' = IF blocked /\ probe # "paused" /\ error = "none" THEN "blocked" ELSE "finish"
      /\ \/ sent' = sent /\ shown' = shown
         \/ \E e \in SentItem : e.k \in {"token", "replace"} /\ sent' = Append(sent, e)
              /\ shown' \in Seq(Nat)
      /\ error = "none" /\ probe = "done" => shown' = IF blocked THEN <<0>> ELSE <<Stream!Final>>
  BY AnswerForm
<1>2. /\ sent \in Seq(SentItem) /\ sent' \in Seq(SentItem) /\ shown' \in Seq(Nat)
      /\ \A k \in {"done", "error", "approval"} : No(sent, k) => No(sent', k)
      /\ Starts'
  <2>1. sent \in Seq(SentItem) /\ shown \in Seq(Nat) /\ Starts /\ StreamTyped
    BY DEF StreamInv, StreamTyped
  <2>2. CASE sent' = sent /\ shown' = shown
    <3>1. Starts'
      BY <1>1, <2>1, <2>2, StartsSame
    <3> QED BY <2>1, <2>2, <3>1
  <2>3. CASE \E e \in SentItem : e.k \in {"token", "replace"} /\ sent' = Append(sent, e)
            /\ shown' \in Seq(Nat)
    <3>1. PICK e \in SentItem : e.k \in {"token", "replace"} /\ sent' = Append(sent, e)
              /\ shown' \in Seq(Nat)
      BY <2>3
    <3>2. Starts'
      BY <1>1, <2>1, <3>1, StartsSay
    <3>3. sent' \in Seq(SentItem) /\ \A k \in {"done", "error", "approval"} : No(sent, k)
              => No(sent', k)
      BY <2>1, <3>1, AppendFacts, NoAppend
    <3> QED BY <2>1, <3>1, <3>2, <3>3
  <2> QED BY <1>1, <2>2, <2>3
<1>3. StreamTyped'
  BY <1>1, <1>2 DEF StreamInv, StreamTyped
<1>4. Messages'
  BY <1>1 DEF StreamInv, Messages, No
<1>5. Events'
  BY <1>1 DEF StreamInv, Events, StopLast, Stopped, No
<1>6. Knows'
  BY <1>1, <1>2 DEF StreamInv, Knows, Late
<1>7. Display'
  BY <1>1 DEF Display, Stream!Final
<1>8. Said'
  BY <1>1 DEF Said
<1> QED BY <1>2, <1>3, <1>4, <1>5, <1>6, <1>7, <1>8 DEF StreamInv

\* The end of the handler, for both ways it comes.
LEMMA ShutForm ==
  ASSUME StreamInv, phase # "closed", Stream!Shut
  PROVE  /\ phase' = "closed"
         /\ UNCHANGED <<replies, count, toolCalls, evq, msgq, outq, seen, streamed, error, probe>>
         /\ pump' \in [{"msg", "ev"} -> {"run", "ended", "dead"}]
         /\ pump'.msg = "ended" /\ pump'.ev = IF pump.ev = "run" THEN "ended" ELSE pump.ev
         /\ graph' = IF graph = "run" THEN "failed" ELSE graph
         /\ graph' \in {"done", "paused", "failed"}
         /\ Messages' /\ Events' /\ Knows' /\ Display'
<1>1. /\ phase' = "closed"
      /\ pump' = [t \in {"msg", "ev"} |-> IF pump[t] = "run" THEN "ended" ELSE pump[t]]
      /\ graph' = IF graph = "run" THEN "failed" ELSE graph
      /\ UNCHANGED <<replies, count, toolCalls, evq, msgq, outq, seen, streamed, error, probe>>
  BY DEF Stream!Shut
<1>2. pump \in [{"msg", "ev"} -> {"run", "ended", "dead"}] /\ pump.msg # "dead"
      /\ graph \in {"run", "done", "paused", "failed"}
  BY DEF StreamInv, StreamTyped
<1>3. /\ pump' \in [{"msg", "ev"} -> {"run", "ended", "dead"}]
      /\ pump'.msg = "ended" /\ pump'.ev = IF pump.ev = "run" THEN "ended" ELSE pump.ev
      /\ graph' \in {"done", "paused", "failed"}
  BY <1>1, <1>2
<1>4. Messages'
  BY <1>1 DEF StreamInv, Messages
<1>5. Events'
  BY <1>1 DEF StreamInv, Events, StopLast
<1>6. Knows' /\ Display'
  BY <1>1 DEF Knows, Late, Display
<1> QED BY <1>1, <1>3, <1>4, <1>5, <1>6

\* The client goes away.
LEMMA DisconnectKeeps ==
  ASSUME StreamInv, Stream!Disconnect
  PROVE  StreamInv'
<1>1. phase # "closed" /\ Stream!Shut /\ sent' = sent /\ shown' = shown
  BY DEF Stream!Disconnect
<1>2. /\ phase' = "closed"
      /\ UNCHANGED <<replies, count, toolCalls, evq, msgq, outq, seen, streamed, error, probe>>
      /\ pump' \in [{"msg", "ev"} -> {"run", "ended", "dead"}]
      /\ pump'.msg = "ended" /\ pump'.ev = IF pump.ev = "run" THEN "ended" ELSE pump.ev
      /\ graph' \in {"done", "paused", "failed"}
      /\ Messages' /\ Events' /\ Knows' /\ Display'
  BY <1>1, ShutForm
<1>3. StreamTyped'
  BY <1>1, <1>2 DEF StreamInv, StreamTyped
<1>4. Starts'
  BY <1>1, <1>2, StartsSame DEF StreamInv
<1>5. No(sent', "done") /\ No(sent', "error") /\ No(sent', "approval")
  BY <1>1 DEF StreamInv, Knows
<1>6. Said'
  BY <1>2, <1>5 DEF Said
<1> QED BY <1>2, <1>3, <1>4, <1>6 DEF StreamInv

\* One event, or two, said at the end.
LEMMA SayOne ==
  ASSUME StreamInv, NEW k \in {"error", "done"}, sent' = sent \o <<Stream!Event(k, 0)>>,
         UNCHANGED <<outq, toolCalls, msgq, seen>>
  PROVE  /\ sent' \in Seq(SentItem) /\ Starts' /\ Stream!Has(k)' /\ Stream!Last(sent').k = k
         /\ \A l \in {"done", "error", "approval"} : No(sent, l) /\ l # k => No(sent', l)
<1> DEFINE e == Stream!Event(k, 0)
<1>1. sent \in Seq(SentItem) /\ e \in SentItem /\ e.k = k /\ Starts /\ StreamTyped
  BY DEF StreamInv, StreamTyped, Stream!Event, SentItem
<1> HIDE DEF e
<1>2. sent' = Append(sent, e)
  BY <1>1, CatFacts DEF e
<1>3. /\ sent' \in Seq(SentItem) /\ Len(sent') = Len(sent) + 1 /\ sent'[Len(sent) + 1] = e
      /\ Len(sent) + 1 \in DOMAIN sent'
  BY <1>1, <1>2, AppendFacts
<1>4. Starts'
  BY <1>1, <1>2, StartsSay
<1>5. Stream!Has(k)' /\ Stream!Last(sent').k = k
  BY <1>1, <1>3 DEF Stream!Has, Stream!Last
<1>6. \A l \in {"done", "error", "approval"} : No(sent, l) /\ l # k => No(sent', l)
  <2>1. \A l : No(Append(sent, e), l) <=> No(sent, l) /\ e.k # l
    BY <1>1, NoAppend
  <2> QED BY <1>1, <1>2, <2>1
<1> QED BY <1>3, <1>4, <1>5, <1>6

\* A last event and done after it.
LEMMA SayTwo ==
  ASSUME StreamInv, NEW k \in {"error", "approval"},
         sent' = sent \o <<Stream!Event(k, 0), Stream!Event("done", 0)>>, UNCHANGED <<outq,
             toolCalls, msgq, seen>>
  PROVE  /\ sent' \in Seq(SentItem) /\ Starts' /\ Stream!Has(k)' /\ Stream!Has("done")'
              /\ Stream!Last(sent').k = "done"
         /\ \A l \in {"done", "error", "approval"} : No(sent, l) /\ l \notin {k, "done"}
              => No(sent', l)
<1> DEFINE a == Stream!Event(k, 0)
           b == Stream!Event("done", 0)
           mid == Append(sent, a)
<1>1. /\ sent \in Seq(SentItem) /\ a \in SentItem /\ a.k = k /\ b \in SentItem /\ b.k = "done"
           /\ Starts /\ StreamTyped
  BY DEF StreamInv, StreamTyped, Stream!Event, SentItem
<1> HIDE DEF a, b
<1>2. sent' = Append(mid, b)
  BY <1>1, CatFacts DEF a, b
<1>3. /\ mid \in Seq(SentItem) /\ Len(mid) = Len(sent) + 1 /\ mid[Len(sent) + 1] = a
           /\ Len(sent) \in Nat
      /\ \A i \in 1..Len(sent) : mid[i] = sent[i]
  BY <1>1, AppendFacts
<1>4. \A l : No(mid, l) <=> No(sent, l) /\ k # l
  BY <1>1, NoAppend
<1>5. \A c \in StreamCall : At(mid, Begun(c)) <=> At(sent, Begun(c))
  BY <1>1, AtAppend, Kind
<1> HIDE DEF mid
<1>6. /\ sent' \in Seq(SentItem) /\ Len(sent') = Len(mid) + 1 /\ sent'[Len(mid) + 1] = b
      /\ DOMAIN sent' = 1..(Len(mid) + 1) /\ \A i \in 1..Len(mid) : sent'[i] = mid[i]
  BY <1>1, <1>2, <1>3, AppendFacts
<1>7. Stream!Has(k)' /\ Stream!Has("done")' /\ Stream!Last(sent').k = "done"
  <2>1. Len(mid) \in DOMAIN sent' /\ Len(mid) + 1 \in DOMAIN sent' /\ sent'[Len(mid)] = a
    BY <1>3, <1>6
  <2> QED BY <2>1, <1>1, <1>6 DEF Stream!Has, Stream!Last
<1>8. \A l \in {"done", "error", "approval"} : No(sent, l) /\ l \notin {k, "done"} => No(sent', l)
  <2>1. \A l : No(Append(mid, b), l) <=> No(mid, l) /\ b.k # l
    BY <1>1, <1>3, NoAppend
  <2> QED BY <1>1, <1>2, <1>4, <2>1
<1>9. \A c \in StreamCall : At(sent', Begun(c)) <=> At(sent, Begun(c))
  <2>1. \A x : At(Append(mid, b), x) <=> At(mid, x) \/ b = x
    BY <1>1, <1>3, AtAppend
  <2> QED BY <1>1, <1>2, <1>5, <2>1, Kind
<1>10. Starts'
  <2>1. \A i \in DOMAIN sent' : i = Len(sent) + 1 \/ i = Len(sent) + 2 \/ i \in 1..Len(sent)
    BY <1>3, <1>6
  <2>2. \A i \in 1..Len(sent) : sent'[i] = sent[i]
    BY <1>3, <1>6
  <2>3. sent'[Len(sent) + 1].k = k /\ sent'[Len(sent) + 2].k = "done"
    BY <1>1, <1>3, <1>6
  <2> QED BY <1>1, <1>3, <1>9, <2>1, <2>2, <2>3, StartsClose
<1> QED BY <1>6, <1>7, <1>8, <1>10

\* The stream closes.
LEMMA CloseKeeps ==
  ASSUME StreamInv, Stream!Close
  PROVE  StreamInv'
<1>1. phase \in {"blocked", "broken", "finish"} /\ sent' = sent \o Stream!Closing
          /\ shown' = shown /\ Stream!Shut
  BY DEF Stream!Close
<1>2. /\ phase' = "closed"
      /\ UNCHANGED <<replies, count, toolCalls, evq, msgq, outq, seen, streamed, error, probe>>
      /\ pump' \in [{"msg", "ev"} -> {"run", "ended", "dead"}]
      /\ pump'.msg = "ended" /\ pump'.ev = IF pump.ev = "run" THEN "ended" ELSE pump.ev
      /\ graph' = IF graph = "run" THEN "failed" ELSE graph
      /\ graph' \in {"done", "paused", "failed"}
      /\ Messages' /\ Events' /\ Knows' /\ Display'
  BY <1>1, ShutForm
<1>3. No(sent, "done") /\ No(sent, "error") /\ No(sent, "approval")
  BY <1>1 DEF StreamInv, Knows
<1>4. /\ pump.msg = "ended" /\ No(outq, "err") /\ graph' = graph
      /\ IF error = "none" THEN graph \in {"done", "paused"} ELSE graph = "failed"
      /\ IF error = "none" THEN probe \in {graph, "lost"} ELSE probe = "none"
  <2>1. pump.msg = "ended" /\ No(outq, "err")
    BY <1>1 DEF StreamInv, Messages
  <2>2. IF error = "none" THEN graph \in {"done", "paused"} ELSE graph = "failed"
    BY <1>1, <2>1 DEF StreamInv, Messages
  <2>3. IF error = "none" THEN probe \in {graph, "lost"} ELSE probe = "none"
    BY <1>1 DEF StreamInv, Knows, Late
  <2>4. graph' = graph
    BY <1>2, <2>2
  <2> QED BY <2>1, <2>2, <2>3, <2>4
<1>5. ASSUME Starts', sent' \in Seq(SentItem), Said' PROVE StreamInv'
  <2>1. StreamTyped'
    BY <1>1, <1>2, <1>5 DEF StreamInv, StreamTyped
  <2> QED BY <1>2, <1>5, <2>1 DEF StreamInv
<1>6. phase \in {"blocked", "finish"} => pump'.ev = "ended" /\ outq' = <<>> /\ evq' = <<>>
  BY <1>2 DEF StreamInv, Events
<1>7. CASE phase = "broken"
  <2>1. sent' = sent \o <<Stream!Event("error", 0)>>
    BY <1>1, <1>7 DEF Stream!Closing
  <2>2. Starts' /\ sent' \in Seq(SentItem) /\ No(sent', "done") /\ No(sent', "approval")
    BY <1>2, <1>3, <2>1, SayOne
  <2>3. pump'.ev = "dead"
    BY <1>2, <1>7 DEF StreamInv, Events
  <2>4. Said'
    BY <1>2, <1>4, <2>2, <2>3 DEF Said
  <2> QED BY <2>2, <2>4, <1>5
<1>8. CASE phase = "blocked"
  <2>1. sent' = sent \o <<Stream!Event("error", 0), Stream!Event("done", 0)>>
    BY <1>1, <1>8 DEF Stream!Closing
  <2>2. /\ Starts' /\ sent' \in Seq(SentItem) /\ Stream!Has("error")' /\ Stream!Has("done")'
             /\ Stream!Last(sent').k = "done"
        /\ No(sent', "approval")
    BY <1>2, <1>3, <2>1, SayTwo
  <2>3. error = "none" /\ probe # "paused" /\ (probe = "done" => shown = <<0>>)
    BY <1>8 DEF StreamInv, Knows, Display
  <2>4. Said'
    BY <1>1, <1>2, <1>4, <1>6, <1>8, <2>2, <2>3 DEF Said
  <2> QED BY <2>2, <2>4, <1>5
<1>9. CASE phase = "finish" /\ probe = "paused"
  <2>1. sent' = sent \o <<Stream!Event("approval", 0), Stream!Event("done", 0)>>
    BY <1>1, <1>9 DEF Stream!Closing
  <2>2. /\ Starts' /\ sent' \in Seq(SentItem) /\ Stream!Has("approval")' /\ Stream!Has("done")'
             /\ Stream!Last(sent').k = "done"
        /\ No(sent', "error")
    BY <1>2, <1>3, <2>1, SayTwo
  <2>3. error = "none"
    BY <1>4, <1>9
  <2>4. Said'
    BY <1>1, <1>2, <1>4, <1>6, <1>9, <2>2, <2>3 DEF Said
  <2> QED BY <2>2, <2>4, <1>5
<1>10. CASE phase = "finish" /\ probe # "paused" /\ error # "none"
  <2>1. sent' = sent \o <<Stream!Event("error", 0)>>
    BY <1>1, <1>10 DEF Stream!Closing
  <2>2. Starts' /\ sent' \in Seq(SentItem) /\ No(sent', "done") /\ No(sent', "approval")
                     /\ Stream!Has("error")'
    BY <1>2, <1>3, <2>1, SayOne
  <2>4. Said'
    BY <1>1, <1>2, <1>4, <1>6, <1>10, <2>2 DEF Said
  <2> QED BY <2>2, <2>4, <1>5
<1>11. CASE phase = "finish" /\ probe # "paused" /\ error = "none"
  <2>1. sent' = sent \o <<Stream!Event("done", 0)>>
    BY <1>1, <1>11 DEF Stream!Closing
  <2>2. /\ Starts' /\ sent' \in Seq(SentItem) /\ No(sent', "error") /\ No(sent', "approval")
             /\ Stream!Has("done")'
        /\ Stream!Last(sent').k = "done"
    BY <1>2, <1>3, <2>1, SayOne
  <2>3. ~Stream!Has("error")'
    BY <2>2 DEF Stream!Has, No
  <2>4. probe = "done" => shown' = <<Stream!Final>>'
    BY <1>1, <1>2, <1>11 DEF StreamInv, Display, Stream!Final
  <2>5. Said'
    BY <1>1, <1>2, <1>4, <1>6, <1>11, <2>2, <2>3, <2>4 DEF Said
  <2> QED BY <2>2, <2>5, <1>5
<1> QED BY <1>1, <1>7, <1>8, <1>9, <1>10, <1>11


\* A stream starts in the invariant.
LEMMA InitStream == Stream!Init => StreamInv
<1> SUFFICES ASSUME Stream!Init PROVE StreamInv
  OBVIOUS
<1> USE DEF Stream!Init
<1>1. StreamTyped
  BY DEF StreamTyped
<1>2. DOMAIN outq = {} /\ DOMAIN evq = {} /\ DOMAIN sent = {} /\ DOMAIN msgq = {}
  OBVIOUS
<1>3. Starts
  BY <1>2 DEF Starts, At
<1>4. Messages /\ Events /\ Knows /\ Said
  BY <1>2 DEF Messages, No, Events, StopLast, Knows, Late, Said
<1>5. Display
  <2> DEFINE h == [i \in 1..0 |-> 1]
  <2>1. h \in [1..0 -> DOMAIN outq]
    OBVIOUS
  <2>2. PlacedAs(streamed, shown, outq, 0, h)
    BY <1>2 DEF PlacedAs
  <2>3. 0 \in 0..Len(streamed)
    OBVIOUS
  <2>4. Follows(streamed, shown, outq)
    BY <2>1, <2>2, <2>3 DEF Follows
  <2> QED BY <2>4 DEF Display
<1> QED BY <1>1, <1>3, <1>4, <1>5 DEF StreamInv

\* Every step of the graph, the pumps and the handler keeps the invariant.
LEMMA StepStream == StreamInv /\ (Stream!Next \/ UNCHANGED Stream!vars) => StreamInv'
<1> SUFFICES ASSUME StreamInv, (Stream!Next \/ UNCHANGED Stream!vars) PROVE StreamInv'
  OBVIOUS
<1>1. CASE Stream!GraphStep
  BY <1>1, WriteKeeps, StepKeeps, MessageKeeps, GraphEndsKeeps DEF Stream!GraphStep
<1>2. CASE Stream!MsgStep
  BY <1>2, MsgPumpKeeps, MsgPumpEndsKeeps DEF Stream!MsgStep
<1>3. CASE Stream!EvStep
  BY <1>3, EvPumpKeeps, EvPumpDiesKeeps DEF Stream!EvStep
<1>4. CASE Stream!Handler
  BY <1>4, ForwardKeeps, ProbeKeeps, StopKeeps, JoinKeeps, DrainKeeps, AnswerKeeps, CloseKeeps
     DEF Stream!Handler
<1>5. CASE Stream!Disconnect
  BY <1>5, DisconnectKeeps
<1>6. CASE UNCHANGED Stream!vars
  BY <1>6, StreamSame
<1> QED BY <1>1, <1>2, <1>3, <1>4, <1>5, <1>6 DEF Stream!Next

\* What the run checks of the stream.
LEMMA TellsDone == StreamInv => Stream!DoneAfterAll
<1> SUFFICES ASSUME StreamInv, Stream!Has("done") PROVE
       /\ Stream!Last(sent).k = "done"
       /\ outq = <<>> /\ \A i \in DOMAIN evq : evq[i].k = "ev_stop"
       /\ \A c \in seen : Stream!Contains(sent, Stream!Event("tool_start", c))
  BY DEF Stream!DoneAfterAll
<1>1. ~No(sent, "done") /\ phase = "closed"
  BY DEF StreamInv, Knows, Stream!Has, No
<1>2. Stream!Last(sent).k = "done" /\ outq = <<>> /\ evq = <<>>
  BY <1>1 DEF StreamInv, Said
<1>3. ASSUME NEW c \in seen PROVE Stream!Contains(sent, Stream!Event("tool_start", c))
  <2>1. c \in StreamCall
    BY DEF StreamInv, StreamTyped
  <2>2. ~At(outq, Begun(c))
    BY <1>2 DEF At
  <2>3. PICK i \in DOMAIN sent : sent[i] = Begun(c)
    BY <2>1, <2>2 DEF StreamInv, Starts, At
  <2>4. i \in 1..Len(sent)
    BY DEF StreamInv, StreamTyped
  <2> QED BY <2>3, <2>4 DEF Stream!Contains, Begun
<1> QED BY <1>2, <1>3

\* What is shown at the end is the answer.
LEMMA ShowsFinal == StreamInv => Stream!ShownIsFinal
<1> SUFFICES ASSUME StreamInv, Stream!Has("done"), probe = "done"
             PROVE  shown = IF Stream!Has("error") THEN <<0>> ELSE <<Stream!Final>>
  BY DEF Stream!ShownIsFinal
<1>1. ~No(sent, "done") /\ phase = "closed"
  BY DEF StreamInv, Knows, Stream!Has, No
<1> QED BY <1>1 DEF StreamInv, Said

\* The instance counts as the library does.
LEMMA StreamCount == \A S : Stream!Cardinality(S) = Cardinality(S)
BY DEF Stream!Cardinality, Cardinality

\* A call starts once, before it ends.
LEMMA StartsOnce == StreamInv => Stream!StartOnce
<1> SUFFICES ASSUME StreamInv, NEW c \in StreamCall
             PROVE  /\ Stream!Cardinality({i \in DOMAIN sent :
                         sent[i] = Stream!Event("tool_start", c)}) <= 1
                    /\ \A i \in DOMAIN sent : sent[i] = Stream!Event("tool_end", c) =>
                           \E j \in 1..(i - 1) : sent[j] = Stream!Event("tool_start", c)
  BY DEF Stream!StartOnce
<1> DEFINE T == {i \in DOMAIN sent : sent[i] = Stream!Event("tool_start", c)}
<1>1. \A i, j \in T : i = j
  BY DEF StreamInv, Starts, Begun
<1>2. Stream!Cardinality(T) <= 1
  <2>1. CASE T = {}
    BY <2>1, FS_EmptySet, StreamCount
  <2>2. CASE T # {}
    <3>1. PICK i \in T : TRUE
      BY <2>2
    <3>2. T = {i}
      BY <1>1, <3>1
    <3> HIDE DEF T
    <3> QED BY <3>2, FS_Singleton, StreamCount
  <2> QED BY <2>1, <2>2
<1>3. \A i \in DOMAIN sent : sent[i] = Stream!Event("tool_end", c) =>
         \E j \in 1..(i - 1) : sent[j] = Stream!Event("tool_start", c)
  BY DEF StreamInv, Starts, Begun, Ends
<1> QED BY <1>2, <1>3

\* The stream says what the plain endpoint says.
LEMMA TellsTheSame == StreamInv => Stream!SameAsPlain
<1> SUFFICES ASSUME StreamInv, phase = "closed", sent # <<>>, Stream!Last(sent).k \in {"done",
        "error"},
                    pump.ev # "dead", probe # "lost"
             PROVE  LET how == CASE error # "none"     -> error
                                 [] probe = "paused"   -> "paused"
                                 [] Stream!Has("error")       -> "blocked"
                                 [] OTHER              -> "done"
                    IN  /\ Stream!Has("error") <=> Stream!ChatError(how) # "none"
                        /\ Stream!Has("approval") <=> how = "paused"
                        /\ error # "none" => graph = "failed"
                        /\ error = "none" => graph \in {"done", "paused"} /\ probe = graph
  BY DEF Stream!SameAsPlain
<1>1. \A k : Stream!Has(k) <=> ~No(sent, k)
  BY DEF Stream!Has, No
<1>2. Stream!Has("done") \/ Stream!Has("error")
  <2>1. Len(sent) \in DOMAIN sent
    BY DEF StreamInv, StreamTyped
  <2> QED BY <2>1 DEF Stream!Has, Stream!Last
<1>3. error \in {"none", "raised", "timeout"}
  BY DEF StreamInv, StreamTyped
<1>4. \/ /\ error # "none" /\ graph = "failed" /\ No(sent, "approval") /\ Stream!Has("error")
      \/ /\ error = "none" /\ graph \in {"done", "paused"} /\ probe = graph
         /\ probe = "paused" => Stream!Has("approval") /\ No(sent, "error")
         /\ probe # "paused" => No(sent, "approval")
  BY <1>1, <1>2 DEF StreamInv, Said
<1>5. CASE error # "none"
  BY <1>1, <1>3, <1>4, <1>5 DEF Stream!ChatError
<1>6. CASE error = "none" /\ probe = "paused"
  BY <1>1, <1>4, <1>6 DEF Stream!ChatError
<1>7. CASE error = "none" /\ probe # "paused" /\ Stream!Has("error")
  BY <1>1, <1>4, <1>7 DEF Stream!ChatError
<1>8. CASE error = "none" /\ probe # "paused" /\ ~Stream!Has("error")
  BY <1>1, <1>4, <1>8 DEF Stream!ChatError
<1> QED BY <1>5, <1>6, <1>7, <1>8


\* The texts of a turn stay within their bound.
LEMMA RepliesFit ==
  ASSUME Stream!StreamAssumption, replies \in 0..MaxReplies,
         (Stream!Next \/ UNCHANGED Stream!vars)
  PROVE  replies' \in 0..MaxReplies
<1>1. CASE UNCHANGED replies
  BY <1>1
<1>2. CASE replies < MaxReplies /\ replies' = replies + 1
  BY <1>2 DEF Stream!StreamAssumption
<1>3. UNCHANGED replies \/ (replies < MaxReplies /\ replies' = replies + 1)
  <2>1. CASE Stream!GraphStep
    BY <2>1 DEF Stream!GraphStep, Stream!Write, Stream!Step, Stream!Message, Stream!GraphEnds
  <2>2. CASE Stream!MsgStep \/ Stream!EvStep
    BY <2>2 DEF Stream!MsgStep, Stream!MsgPump, Stream!MsgPumpEnds, Stream!EvStep, Stream!EvPump,
       Stream!EvPumpDies, Stream!source
  <2>3. CASE Stream!Handler
    BY <2>3 DEF Stream!Handler, Stream!Forward, Stream!Probe, Stream!Stop, Stream!Join,
       Stream!Drain, Stream!Answer, Stream!Close, Stream!Shut, Stream!source
  <2>4. CASE Stream!Disconnect \/ UNCHANGED Stream!vars
    BY <2>4 DEF Stream!Disconnect, Stream!Shut, Stream!vars
  <2> QED BY <2>1, <2>2, <2>3, <2>4 DEF Stream!Next
<1> QED BY <1>1, <1>2, <1>3

\* The variables of a stream have their types.
LEMMA StreamTypes == StreamInv /\ replies \in 0..MaxReplies => Stream!TypeOK
<1> SUFFICES ASSUME StreamInv, replies \in 0..MaxReplies, NEW i \in DOMAIN sent
        PROVE sent[i].k \in Stream!Kinds
  BY DEF Stream!TypeOK, StreamInv, StreamTyped
<1>1. sent \in Seq(SentItem)
  BY DEF StreamInv, StreamTyped
<1>2. sent[i] \in SentItem
  BY <1>1
<1> QED BY <1>2 DEF SentItem, Stream!Kinds


\* What the task center tells of a task.
News == [job : Job, st : Feed!Stage]

\* The shape of every variable of the feed; only the tasks there are have rows.
FeedTyped ==
    /\ row \in [Job -> Feed!Stage] /\ place \in [Job -> {"none", "redis", "memory"}]
    /\ redis \in {"up", "down", "back"} /\ trusts \in BOOLEAN /\ unsaid \subseteq Job
    /\ conn \in {"off", "subscribed", "telling", "live"}
    /\ tell \in Seq(News) /\ queue \in Seq(News)
    /\ Len(queue) <= FeedQueue /\ spilt \in BOOLEAN
    /\ poll \in {<<>>} \cup {<<r>> : r \in [Job -> Feed!Stage]}
    /\ heard \in [Job -> Feed!Stage] /\ view \in [Job -> Feed!Stage] /\ sig \in [Job -> Feed!Stage]
    /\ known \in [Job -> Feed!Stage] /\ notified \subseteq Job
    /\ baseline \subseteq Job /\ indexed \subseteq Job /\ history \subseteq Job
    /\ dirty \in BOOLEAN /\ breaks \in 0..MaxBreaks

\* A row is in a store as soon as it says something; the memory is used only when
\* Redis is no longer trusted.
Stored ==
    /\ IsFiniteSet({t \in Job : row[t] # Feed!None})
    /\ \A t \in Job : row[t] = Feed!None => place[t] = "none"
    /\ \A t \in Job : place[t] = "memory" => ~trusts
    /\ conn # "telling" => tell = <<>>

\* A row that can still be read, now or when Redis is back.
Kept(t) == place[t] = "memory" \/ (place[t] = "redis" /\ trusts)

\* Whether a queue tells of a task, and what it says last.
Tells(q, t)   == \E i \in DOMAIN q : q[i].job = t
Says(q, t, s) == \E i \in DOMAIN q : q[i] = Feed!Event(t, s) /\ \A j \in DOMAIN q : q[j].job = t
    => j <= i

\* What was said last of a task, and waits, or was heard, is what its row says.
Told(t) ==
    IF Tells(queue, t) THEN Says(queue, t, row[t])
    ELSE conn = "subscribed"
        \/ (IF Tells(tell, t) THEN Says(tell, t, row[t]) ELSE heard[t] = row[t])
Tellings == conn # "off" /\ ~spilt => \A t \in Job : Kept(t) /\ t \notin unsaid => Told(t)

FeedInv == FeedTyped /\ Stored /\ Tellings





\* The library says the same in the instance.
LEMMA SameLibrary == /\ \A S : Feed!Cardinality(S) = Cardinality(S)
                     /\ \A g : Feed!IsInjective(g) <=> IsInjective(g)
<1>1. \A S : Feed!Cardinality(S) = Cardinality(S)
  BY DEF Feed!Cardinality, Cardinality
<1>2. \A g : Feed!IsInjective(g) <=> IsInjective(g)
  BY DEF Feed!IsInjective, IsInjective
<1> QED BY <1>1, <1>2

\* A finite set as a sequence has each of its elements, once.
LEMMA Listing ==
  ASSUME NEW S, IsFiniteSet(S)
  PROVE  /\ Feed!SetToSeq(S) \in Seq(S)
         /\ \A x \in S : \E i \in DOMAIN Feed!SetToSeq(S) : Feed!SetToSeq(S)[i] = x
         /\ \A i, j \in DOMAIN Feed!SetToSeq(S) : Feed!SetToSeq(S)[i] = Feed!SetToSeq(S)[j] => i = j
<1> DEFINE n == Cardinality(S)
           f == Feed!SetToSeq(S)
<1>1. n \in Nat /\ ExistsBijection(1..n, S)
  BY FS_CardinalityType
<1>2. PICK g \in Bijection(1..n, S) : TRUE
  BY <1>1 DEF ExistsBijection
<1>3. g \in [1..n -> S] /\ IsInjective(g)
  BY <1>2 DEF Bijection, Injection
<1>4. f \in [1..n -> S] /\ IsInjective(f)
  BY <1>3, SameLibrary DEF Feed!SetToSeq
<1>5. f \in Injection(1..n, S)
  BY <1>4 DEF Injection
<1>6. IsFiniteSet(1..n) /\ Cardinality(1..n) = n
  BY <1>1, FS_Interval
<1>7. f \in Surjection(1..n, S)
  BY <1>5, <1>6, FS_Injection
<1> HIDE DEF f, n
<1>8. \A x \in S : \E i \in DOMAIN f : f[i] = x
  BY <1>4, <1>7 DEF Surjection
<1>9. \A i, j \in DOMAIN f : f[i] = f[j] => i = j
  BY <1>4 DEF IsInjective
<1>10. f \in Seq(S)
  BY <1>1, <1>4
<1> QED BY <1>8, <1>9, <1>10 DEF f

\* What a queue says when an item is taken, or added.
LEMMA TellsTail ==
  ASSUME NEW q \in Seq(News), q # <<>>, NEW t
  PROVE  /\ Tells(q, t) <=> Tells(Tail(q), t) \/ Head(q).job = t
         /\ \A s : Says(q, t, s) /\ Tells(Tail(q), t) => Says(Tail(q), t, s)
         /\ \A s : Says(q, t, s) /\ ~Tells(Tail(q), t) => Head(q) = Feed!Event(t, s)
<1>1. /\ Head(q) = q[1] /\ Len(q) \in Nat \ {0} /\ DOMAIN q = 1..Len(q)
           /\ DOMAIN Tail(q) = 1..(Len(q) - 1)
      /\ \A i \in 1..(Len(q) - 1) : Tail(q)[i] = q[i + 1]
  BY TailFacts
<1>2. \A i \in DOMAIN q : i = 1 \/ (i - 1 \in DOMAIN Tail(q) /\ Tail(q)[i - 1] = q[i])
  <2> SUFFICES ASSUME NEW i \in DOMAIN q, i # 1 PROVE i - 1 \in DOMAIN Tail(q)
          /\ Tail(q)[i - 1] = q[i]
    OBVIOUS
  <2>1. i - 1 \in 1..(Len(q) - 1) /\ (i - 1) + 1 = i
    BY <1>1
  <2> QED BY <2>1, <1>1
<1>3. \A i \in DOMAIN Tail(q) : i + 1 \in DOMAIN q /\ Tail(q)[i] = q[i + 1]
  BY <1>1
<1>4. Tells(q, t) <=> Tells(Tail(q), t) \/ Head(q).job = t
  <2>1. Tells(q, t) => Tells(Tail(q), t) \/ Head(q).job = t
    BY <1>1, <1>2 DEF Tells
  <2>2. Tells(Tail(q), t) => Tells(q, t)
    BY <1>3 DEF Tells
  <2>3. Head(q).job = t => Tells(q, t)
    <3>1. 1 \in DOMAIN q
      BY <1>1
    <3> QED BY <3>1, <1>1 DEF Tells
  <2> QED BY <2>1, <2>2, <2>3
<1>5. ASSUME NEW s, Says(q, t, s)
      PROVE  /\ Tells(Tail(q), t) => Says(Tail(q), t, s)
             /\ ~Tells(Tail(q), t) => Head(q) = Feed!Event(t, s)
  <2>1. PICK i \in DOMAIN q : q[i] = Feed!Event(t, s) /\ \A j \in DOMAIN q : q[j].job = t => j <= i
    BY <1>5 DEF Says
  <2>2. q[i].job = t
    BY <2>1 DEF Feed!Event
  <2>3. CASE i = 1
    <3>1. ~Tells(Tail(q), t)
      <4> SUFFICES ASSUME NEW j \in DOMAIN Tail(q), Tail(q)[j].job = t PROVE FALSE
        BY DEF Tells
      <4>1. j + 1 \in DOMAIN q /\ q[j + 1].job = t
        BY <1>3
      <4>2. j + 1 <= 1
        BY <4>1, <2>1, <2>3
      <4> QED BY <4>2, <1>1
    <3> QED BY <3>1, <2>1, <2>3, <1>1
  <2>4. CASE i # 1
    <3>1. i - 1 \in DOMAIN Tail(q) /\ Tail(q)[i - 1] = q[i]
      BY <2>4, <1>2
    <3>2. \A j \in DOMAIN Tail(q) : Tail(q)[j].job = t => j <= i - 1
      <4> SUFFICES ASSUME NEW j \in DOMAIN Tail(q), Tail(q)[j].job = t PROVE j <= i - 1
        OBVIOUS
      <4>1. j + 1 \in DOMAIN q /\ q[j + 1].job = t
        BY <1>3
      <4>2. j + 1 <= i
        BY <4>1, <2>1
      <4> QED BY <4>2, <1>1
    <3>3. Says(Tail(q), t, s) /\ Tells(Tail(q), t)
      BY <3>1, <3>2, <2>1, <2>2 DEF Says, Tells
    <3> QED BY <3>3
  <2> QED BY <2>3, <2>4
<1> QED BY <1>4, <1>5

\* What a longer queue says of a task.
LEMMA TellsAppend ==
  ASSUME NEW q \in Seq(News), NEW e \in News, NEW t
  PROVE  /\ Tells(Append(q, e), t) <=> Tells(q, t) \/ e.job = t
         /\ \A s : e.job # t /\ Says(q, t, s) => Says(Append(q, e), t, s)
         /\ \A s : e = Feed!Event(t, s) => Says(Append(q, e), t, s)
<1> DEFINE r == Append(q, e)
<1>1. /\ Len(q) \in Nat /\ DOMAIN q = 1..Len(q) /\ DOMAIN r = 1..(Len(q) + 1)
      /\ \A i \in 1..Len(q) : r[i] = q[i]
      /\ r[Len(q) + 1] = e
  BY AppendFacts
<1> HIDE DEF r
<1>2. \A i \in DOMAIN r : i = Len(q) + 1 \/ (i \in DOMAIN q /\ r[i] = q[i])
  BY <1>1
<1>3. \A i \in DOMAIN q : i \in DOMAIN r /\ r[i] = q[i] /\ i <= Len(q) + 1
  BY <1>1
<1>4. Len(q) + 1 \in DOMAIN r
  BY <1>1
<1>5. Tells(r, t) <=> Tells(q, t) \/ e.job = t
  <2>1. Tells(r, t) => Tells(q, t) \/ e.job = t
    BY <1>1, <1>2 DEF Tells
  <2>2. Tells(q, t) => Tells(r, t)
    BY <1>3 DEF Tells
  <2>3. e.job = t => Tells(r, t)
    BY <1>1, <1>4 DEF Tells
  <2> QED BY <2>1, <2>2, <2>3
<1>6. ASSUME NEW s, e.job # t, Says(q, t, s) PROVE Says(r, t, s)
  <2>1. PICK i \in DOMAIN q : q[i] = Feed!Event(t, s) /\ \A j \in DOMAIN q : q[j].job = t => j <= i
    BY <1>6 DEF Says
  <2>2. i \in DOMAIN r /\ r[i] = Feed!Event(t, s)
    BY <2>1, <1>3
  <2>3. \A j \in DOMAIN r : r[j].job = t => j <= i
    BY <2>1, <1>1, <1>2, <1>6
  <2> QED BY <2>2, <2>3 DEF Says
<1>7. ASSUME NEW s, e = Feed!Event(t, s) PROVE Says(r, t, s)
  <2>1. \A j \in DOMAIN r : j <= Len(q) + 1
    BY <1>1
  <2> QED BY <2>1, <1>1, <1>4, <1>7 DEF Says
<1> QED BY <1>5, <1>6, <1>7 DEF r

\* An access of the store keeps only what it can still read.
LEMMA KeptMono ==
  ASSUME NEW t, trusts' \in {trusts, Feed!UsesRedis}, place'[t] = place[t], trusts \in BOOLEAN
  PROVE  Kept(t)' => Kept(t)
BY DEF Kept, Feed!UsesRedis

\* When the store has been asked, the rows kept are the rows it shows.
LEMMA KeptVisible ==
  ASSUME FeedInv, NEW t \in Job, trusts' = Feed!UsesRedis, place' = place, Kept(t)'
  PROVE  Feed!Visible(t)
BY DEF FeedInv, FeedTyped, Stored, Kept, Feed!Visible, Feed!UsesRedis

\* Nothing of it moves.
LEMMA ToldSame ==
  ASSUME FeedInv, UNCHANGED <<row, unsaid, conn, tell, queue, spilt, heard>>,
         trusts' \in {trusts, Feed!UsesRedis}, place' = place
  PROVE  Tellings'
<1> SUFFICES ASSUME conn # "off", ~spilt, NEW t \in Job, Kept(t)', t \notin unsaid PROVE Told(t)'
  BY DEF Tellings
<1>1. Kept(t)
  BY KeptMono DEF FeedInv, FeedTyped
<1>2. Told(t)
  BY <1>1 DEF FeedInv, Tellings
<1> QED BY <1>2 DEF Told, Tells, Says, Feed!Event

\* The constants of the feed.
LEMMA FeedConstants ==
  Pdf \subseteq Job /\ FeedQueue \in Nat \ {0} /\ FeedQueue \in Nat /\ MaxBreaks \in Nat
BY DialogueAssumption DEF Feed!FeedAssumption

\* A page that has heard nothing.
LEMMA NothingFacts == Feed!Nothing \in [Job -> Feed!Stage]
    /\ \A t \in Job : Feed!Nothing[t] = Feed!None
<1>1. Feed!None \in Feed!Stage
  BY DEF Feed!Stage, Feed!None, Feed!Over
<1>2. Feed!Nothing \in [Job -> Feed!Stage]
  BY <1>1 DEF Feed!Nothing
<1>3. \A t \in Job : Feed!Nothing[t] = Feed!None
  BY DEF Feed!Nothing
<1> QED BY <1>2, <1>3

\* A feed starts in the invariant.
LEMMA InitFeed == MaxBreaks \in Nat /\ FeedQueue \in Nat /\ Feed!Init => FeedInv
<1> SUFFICES ASSUME MaxBreaks \in Nat, FeedQueue \in Nat, Feed!Init PROVE FeedInv
  OBVIOUS
<1>1. Feed!Nothing \in [Job -> Feed!Stage] /\ \A t \in Job : Feed!Nothing[t] = Feed!None
  BY NothingFacts
<1>2. FeedTyped
  <2>1. <<>> \in Seq(News) /\ Len(<<>>) = 0
    OBVIOUS
  <2>2. FeedQueue \in Nat /\ Len(<<>>) <= FeedQueue
    BY <2>1, FeedConstants
  <2>3. breaks \in 0..MaxBreaks
    BY DEF Feed!Init
  <2> QED BY <1>1, <2>1, <2>2, <2>3 DEF Feed!Init, FeedTyped
<1>3. Stored
  <2>1. {t \in Job : row[t] # Feed!None} = {}
    BY <1>1 DEF Feed!Init
  <2>2. IsFiniteSet({t \in Job : row[t] # Feed!None})
    BY <2>1, FS_EmptySet
  <2> QED BY <2>2, <1>1 DEF Feed!Init, Stored
<1>4. Tellings
  BY DEF Feed!Init, Tellings
<1> QED BY <1>2, <1>3, <1>4 DEF FeedInv

\* A task is created.
LEMMA CreateFeed == ASSUME FeedInv, NEW t \in Job, Feed!Create(t) PROVE FeedInv'
<1>1. /\ row[t] = Feed!None /\ row' = [row EXCEPT ![t] = 1]
      /\ place' = [place EXCEPT ![t] = IF Feed!UsesRedis THEN "redis" ELSE "memory"]
      /\ unsaid' = unsaid \cup {t} /\ trusts' = Feed!UsesRedis
      /\ UNCHANGED <<redis, Feed!stream, Feed!page, poll, breaks>>
  BY DEF Feed!Create, Feed!Asked
<1> USE DEF Feed!stream, Feed!page
<1>2. Feed!UsesRedis \in BOOLEAN /\ (Feed!UsesRedis => trusts)
  BY DEF FeedInv, FeedTyped, Feed!UsesRedis
<1>3. FeedTyped'
  BY <1>1, <1>2 DEF FeedInv, FeedTyped, Feed!Stage, Feed!None, Feed!Over
<1>4. Stored'
  <2>1. {u \in Job : row'[u] # Feed!None} = {u \in Job : row[u] # Feed!None} \cup {t}
    BY <1>1 DEF FeedInv, FeedTyped, Feed!None
  <2>2. IsFiniteSet({u \in Job : row'[u] # Feed!None})
    <3>1. IsFiniteSet({u \in Job : row[u] # Feed!None})
      BY DEF FeedInv, Stored
    <3> QED BY <2>1, <3>1, FS_AddElement
  <2>3. \A u \in Job : row'[u] = Feed!None => place'[u] = "none"
    BY <1>1 DEF FeedInv, FeedTyped, Stored, Feed!None
  <2>4. \A u \in Job : place'[u] = "memory" => ~trusts'
    BY <1>1, <1>2 DEF FeedInv, FeedTyped, Stored
  <2> QED BY <1>1, <2>2, <2>3, <2>4 DEF FeedInv, Stored
<1>5. Tellings'
  <2> SUFFICES ASSUME conn # "off", ~spilt, NEW u \in Job, Kept(u)', u \notin unsaid' PROVE Told(u)'
    BY <1>1 DEF Tellings
  <2>1. u # t /\ u \notin unsaid /\ place'[u] = place[u] /\ row'[u] = row[u]
    BY <1>1 DEF FeedInv, FeedTyped
  <2>2. Kept(u)
    BY <1>1, <2>1, KeptMono DEF FeedInv, FeedTyped
  <2>3. Told(u)
    BY <2>1, <2>2 DEF FeedInv, Tellings
  <2> QED BY <1>1, <2>1, <2>3 DEF Told, Tells, Says, Feed!Event
<1> QED BY <1>3, <1>4, <1>5 DEF FeedInv

\* A row changes.
LEMMA UpdateFeed == ASSUME FeedInv, NEW t \in Job, Feed!Update(t) PROVE FeedInv'
<1>1. /\ row[t] \in 1..2 /\ \E s \in (row[t] + 1)..Feed!Over : row' = [row EXCEPT ![t] = s]
      /\ place' = [place EXCEPT ![t] = IF Feed!Visible(t) THEN @ ELSE "none"]
      /\ unsaid' = unsaid \cup {t} /\ trusts' = Feed!UsesRedis
      /\ UNCHANGED <<redis, Feed!stream, Feed!page, poll, breaks>>
  BY DEF Feed!Update, Feed!Asked
<1> USE DEF Feed!stream, Feed!page
<1>2. Feed!UsesRedis \in BOOLEAN /\ (Feed!UsesRedis => trusts)
  BY DEF FeedInv, FeedTyped, Feed!UsesRedis
<1>3. PICK s \in (row[t] + 1)..Feed!Over : row' = [row EXCEPT ![t] = s]
  BY <1>1
<1>7. s \in 1..3
  BY <1>1, <1>3 DEF Feed!Over
<1>4. FeedTyped'
  BY <1>1, <1>2, <1>3, <1>7 DEF FeedInv, FeedTyped, Feed!Stage, Feed!None, Feed!Over
<1>5. Stored'
  <2>1. {u \in Job : row'[u] # Feed!None} = {u \in Job : row[u] # Feed!None}
    BY <1>1, <1>3, <1>7 DEF FeedInv, FeedTyped, Feed!None
  <2>2. \A u \in Job : row'[u] = Feed!None => place'[u] = "none"
    BY <1>1, <1>3, <1>7 DEF FeedInv, FeedTyped, Stored, Feed!None
  <2>3. \A u \in Job : place'[u] = "memory" => ~trusts'
    BY <1>1, <1>2 DEF FeedInv, FeedTyped, Stored
  <2> QED BY <1>1, <2>1, <2>2, <2>3 DEF FeedInv, Stored
<1>6. Tellings'
  <2> SUFFICES ASSUME conn # "off", ~spilt, NEW u \in Job, Kept(u)', u \notin unsaid' PROVE Told(u)'
    BY <1>1 DEF Tellings
  <2>1. u # t /\ u \notin unsaid /\ place'[u] = place[u] /\ row'[u] = row[u]
    BY <1>1, <1>3 DEF FeedInv, FeedTyped
  <2>2. Kept(u)
    BY <1>1, <2>1, KeptMono DEF FeedInv, FeedTyped
  <2>3. Told(u)
    BY <2>1, <2>2 DEF FeedInv, Tellings
  <2> QED BY <1>1, <2>1, <2>3 DEF Told, Tells, Says, Feed!Event
<1> QED BY <1>4, <1>5, <1>6 DEF FeedInv

\* A change is published to the queue, which may drop its oldest.
LEMMA PublishFeed == ASSUME FeedInv, FeedQueue \in Nat \ {0}, NEW t \in Job, Feed!Publish(t)
    PROVE FeedInv'
<1>1. /\ t \in unsaid /\ unsaid' = unsaid \ {t}
      /\ trusts' = IF Feed!Listening THEN Feed!UsesRedis ELSE trusts
      /\ UNCHANGED <<row, place, redis, conn, tell, heard, Feed!page, poll, breaks>>
  BY DEF Feed!Publish, Feed!Asked
<1>2. \/ /\ Feed!Listening /\ Feed!Visible(t) /\ queue' = Feed!Put(queue, Feed!Event(t, row[t]))
         /\ spilt' = (spilt \/ Len(queue) = FeedQueue)
      \/ ~(Feed!Listening /\ Feed!Visible(t)) /\ UNCHANGED <<queue, spilt>>
  BY DEF Feed!Publish
<1> USE DEF Feed!page
<1>3. Feed!UsesRedis \in BOOLEAN /\ (Feed!UsesRedis => trusts)
  BY DEF FeedInv, FeedTyped, Feed!UsesRedis
<1>4. Feed!Event(t, row[t]) \in News /\ Feed!Event(t, row[t]).job = t /\ queue \in Seq(News)
          /\ Len(queue) <= FeedQueue
  BY DEF FeedInv, FeedTyped, Feed!Event, News
<1>5. queue' \in Seq(News) /\ Len(queue') <= FeedQueue /\ spilt' \in BOOLEAN
  <2>1. CASE UNCHANGED <<queue, spilt>>
    BY <2>1, <1>4 DEF FeedInv, FeedTyped
  <2>2. CASE queue' = Append(queue, Feed!Event(t, row[t])) /\ Len(queue) < FeedQueue
            /\ spilt' \in BOOLEAN
    <3>1. queue' \in Seq(News) /\ Len(queue') = Len(queue) + 1 /\ Len(queue) \in Nat
      BY <2>2, <1>4, AppendFacts
    <3> QED BY <2>2, <3>1
  <2>3. CASE queue' = Append(Tail(queue), Feed!Event(t, row[t])) /\ ~(Len(queue) < FeedQueue)
            /\ spilt' \in BOOLEAN
    <3>1. queue # <<>>
      BY <2>3
    <3>2. Tail(queue) \in Seq(News) /\ Len(Tail(queue)) = Len(queue) - 1 /\ Len(queue) \in Nat
      BY <3>1, <1>4, TailFacts
    <3>3. queue' \in Seq(News) /\ Len(queue') = Len(Tail(queue)) + 1
      BY <3>2, <2>3, <1>4, AppendFacts
    <3> QED BY <3>2, <3>3, <2>3, <1>4
  <2> QED BY <1>2, <2>1, <2>2, <2>3 DEF Feed!Put, FeedInv, FeedTyped
<1>6. FeedTyped'
  BY <1>1, <1>3, <1>5 DEF FeedInv, FeedTyped
<1>7. Stored'
  BY <1>1, <1>3 DEF FeedInv, Stored
<1>8. Tellings'
  <2> SUFFICES ASSUME conn # "off", ~spilt', NEW u \in Job, Kept(u)', u \notin unsaid'
          PROVE Told(u)'
    BY <1>1 DEF Tellings
  <2>1. Feed!Listening /\ trusts' = Feed!UsesRedis
    BY <1>1 DEF Feed!Listening
  <2>5. ~spilt
    BY <1>2
  <2>2. Kept(u)
    BY <1>1, KeptMono DEF FeedInv, FeedTyped
  <2>3. CASE u = t
    <3>1. Feed!Visible(t)
      BY <2>1, <2>3, <1>1, KeptVisible
    <3>2. queue' = Append(queue, Feed!Event(t, row[t]))
      <4>1. queue' = Feed!Put(queue, Feed!Event(t, row[t])) /\ Len(queue) # FeedQueue
        BY <1>2, <2>1, <3>1
      <4>2. Len(queue) \in Nat
        BY <1>4, AppendFacts
      <4>3. Len(queue) < FeedQueue
        BY <4>1, <4>2, <1>4
      <4> QED BY <4>1, <4>3 DEF Feed!Put
    <3>3. Tells(queue', u) /\ Says(queue', u, row[u])
      BY <3>2, <2>3, <1>4, TellsAppend
    <3> QED BY <3>3, <1>1 DEF Told, Tells, Says, Feed!Event
  <2>4. CASE u # t
    <3>1. Told(u)
      BY <1>1, <2>5, <2>2, <2>4 DEF FeedInv, Tellings
    <3>2. CASE queue' = queue
      BY <3>1, <3>2, <1>1 DEF Told, Tells, Says, Feed!Event
    <3>3. CASE queue' = Append(queue, Feed!Event(t, row[t]))
      <4>1. /\ Tells(queue', u) <=> Tells(queue, u)
            /\ Says(queue, u, row[u]) => Says(queue', u, row[u])
        BY <3>3, <2>4, <1>4, TellsAppend
      <4>2. Tells(tell, u)' = Tells(tell, u) /\ Says(tell, u, row[u])' = Says(tell, u, row[u])
        BY <1>1 DEF Tells, Says, Feed!Event
      <4>3. Tells(queue, u)' = Tells(queue', u) /\ Says(queue, u, row[u])' = Says(queue', u, row[u])
        BY <1>1 DEF Tells, Says, Feed!Event
      <4> QED BY <3>1, <4>1, <4>2, <4>3, <1>1 DEF Told
    <3>4. queue' = queue \/ queue' = Append(queue, Feed!Event(t, row[t]))
      <4>1. CASE queue' = Feed!Put(queue, Feed!Event(t, row[t])) /\ Len(queue) # FeedQueue
        <5>1. Len(queue) \in Nat
          BY <1>4, AppendFacts
        <5>2. Len(queue) < FeedQueue
          BY <4>1, <5>1, <1>4
        <5> QED BY <4>1, <5>2 DEF Feed!Put
      <4> QED BY <1>2, <4>1
    <3> QED BY <3>2, <3>3, <3>4
  <2> QED BY <2>3, <2>4
<1> QED BY <1>6, <1>7, <1>8 DEF FeedInv

\* Redis, down or back: no row moves.
LEMMA RedisFeed == ASSUME FeedInv, Feed!RedisFails \/ Feed!RedisBack PROVE FeedInv'
<1>1. /\ redis' \in {"down", "back"}
      /\ UNCHANGED <<row, place, trusts, unsaid, Feed!stream, Feed!page, poll, breaks>>
  BY DEF Feed!RedisFails, Feed!RedisBack
<1> USE DEF Feed!stream, Feed!page
<1>2. FeedTyped' /\ Stored'
  BY <1>1 DEF FeedInv, FeedTyped, Stored
<1>3. Tellings'
  BY <1>1, ToldSame
<1> QED BY <1>2, <1>3 DEF FeedInv

\* A connection begins: its queue is empty, and the rows are still to be listed.
LEMMA ConnectFeed == ASSUME FeedInv, FeedQueue \in Nat, Feed!Connect PROVE FeedInv'
<1>1. /\ conn' = "subscribed" /\ queue' = <<>> /\ tell' = <<>> /\ spilt' = FALSE
           /\ heard' = Feed!Nothing
      /\ UNCHANGED <<Feed!server, Feed!page, poll, breaks>>
  BY DEF Feed!Connect
<1> USE DEF Feed!server, Feed!page
<1>2. FeedTyped'
  <2>1. <<>> \in Seq(News) /\ Len(<<>>) = 0
    OBVIOUS
  <2>2. FeedQueue \in Nat /\ Len(<<>>) <= FeedQueue
    BY <2>1, FeedConstants
  <2> QED BY <1>1, <2>1, <2>2, NothingFacts DEF FeedInv, FeedTyped
<1>3. Stored'
  BY <1>1 DEF FeedInv, Stored
<1>4. Tellings'
  <2> SUFFICES ASSUME NEW u \in Job PROVE Told(u)'
    BY DEF Tellings
  <2>1. ~Tells(queue, u)'
    BY <1>1 DEF Tells
  <2> QED BY <1>1, <2>1 DEF Told
<1> QED BY <1>2, <1>3, <1>4 DEF FeedInv

\* A connection ends: nothing is owed to the page.
LEMMA CutFeed ==
  ASSUME FeedInv, FeedQueue \in Nat, MaxBreaks \in Nat, Feed!Drop \/ Feed!Reload PROVE FeedInv'
<1>1. /\ breaks < MaxBreaks /\ breaks' = breaks + 1
      /\ conn' = "off" /\ queue' = <<>> /\ tell' = <<>> /\ spilt' = FALSE /\ heard' = Feed!Nothing
      /\ UNCHANGED Feed!server
  BY DEF Feed!Drop, Feed!Reload
<1> USE DEF Feed!server, Feed!page
<1>2. breaks' \in 0..MaxBreaks
  BY <1>1 DEF FeedInv, FeedTyped
<1>3. /\ poll' \in {poll, <<>>} /\ view' = view /\ sig' \in {sig, Feed!Nothing}
           /\ known' \in {known, Feed!Nothing}
      /\ notified' \subseteq Job /\ baseline' \subseteq Job /\ indexed' \subseteq Job
           /\ history' \subseteq Job
      /\ dirty' \in BOOLEAN
  <2>1. CASE Feed!Drop
    BY <2>1 DEF Feed!Drop, FeedInv, FeedTyped
  <2>2. CASE Feed!Reload
    <3>1. Pdf \subseteq Job
      BY FeedConstants
    <3>2. /\ poll' = <<>> /\ view' = view /\ sig' = Feed!Nothing /\ known' = Feed!Nothing
               /\ notified' = {}
          /\ baseline' = {t \in Pdf : view[t] # Feed!None} /\ indexed' = {} /\ dirty' = TRUE
          /\ history' = {t \in Pdf : view[t] = Feed!Over}
      BY <2>2 DEF Feed!Reload
    <3> QED BY <3>1, <3>2
  <2> QED BY <2>1, <2>2
<1>4. FeedTyped'
  <2>1. <<>> \in Seq(News) /\ Len(<<>>) = 0
    OBVIOUS
  <2>2. FeedQueue \in Nat /\ Len(<<>>) <= FeedQueue
    BY <2>1, FeedConstants
  <2> QED BY <1>1, <1>2, <1>3, <2>1, <2>2, NothingFacts DEF FeedInv, FeedTyped
<1>5. Stored'
  BY <1>1 DEF FeedInv, Stored
<1>6. Tellings'
  BY <1>1 DEF Tellings
<1> QED BY <1>4, <1>5, <1>6 DEF FeedInv

\* The rows as a list: each task that has one is in it, once.
LEMMA Snapshot ==
  ASSUME FeedInv
  PROVE  LET S == {Feed!Event(t, Feed!Rows[t]) : t \in {u \in Job : Feed!Rows[u] # Feed!None}}
             l == Feed!SetToSeq(S)
         IN  /\ l \in Seq(News)
             /\ \A t \in Job : Feed!Visible(t) /\ row[t] # Feed!None => Says(l, t, row[t])
<1> DEFINE V == {u \in Job : Feed!Rows[u] # Feed!None}
           S == {Feed!Event(t, Feed!Rows[t]) : t \in V}
           l == Feed!SetToSeq(S)
<1>1. \A t \in Job : Feed!Rows[t] = IF Feed!Visible(t) THEN row[t] ELSE Feed!None
  BY DEF Feed!Rows
<1>2. V \subseteq {u \in Job : row[u] # Feed!None}
  BY <1>1
<1>3. IsFiniteSet(V)
  BY <1>2, FS_Subset DEF FeedInv, Stored
<1>4. IsFiniteSet(S)
  <2> DEFINE f == [t \in V |-> Feed!Event(t, Feed!Rows[t])]
  <2>1. f \in Surjection(V, S)
    <3>1. f \in [V -> S] /\ DOMAIN f = V
      OBVIOUS
    <3>2. \A x \in S : \E t \in V : f[t] = x
      OBVIOUS
    <3> QED BY <3>1, <3>2 DEF Surjection
  <2> QED BY <1>3, <2>1, FS_Surjection
<1>5. S \subseteq News
  <2> SUFFICES ASSUME NEW t \in V PROVE Feed!Event(t, Feed!Rows[t]) \in News
    OBVIOUS
  <2>1. row[t] \in Feed!Stage /\ Feed!None \in Feed!Stage
    BY DEF FeedInv, FeedTyped, Feed!Stage, Feed!None, Feed!Over
  <2> QED BY <2>1, <1>1 DEF Feed!Event, News
<1>6. /\ l \in Seq(S)
      /\ \A x \in S : \E i \in DOMAIN l : l[i] = x
      /\ \A i, j \in DOMAIN l : l[i] = l[j] => i = j
  <2> HIDE DEF V, S
  <2>1. IsFiniteSet(S)
    BY <1>4
  <2>2. l \in Seq(S)
    BY <2>1, Listing
  <2>3. \A x \in S : \E i \in DOMAIN l : l[i] = x
    BY <2>1, Listing, Zenon
  <2>4. \A i, j \in DOMAIN l : l[i] = l[j] => i = j
    BY <2>1, Listing, Zenon
  <2> HIDE DEF l
  <2> QED BY <2>2, <2>3, <2>4
<1>7. \A i \in DOMAIN l : l[i] \in S /\ i \in Nat
  <2> HIDE DEF l, S
  <2>1. l \in Seq(S)
    BY <1>6
  <2> QED BY <2>1
<1>8. l \in Seq(News)
  BY <1>5, <1>6
<1>9. \A x \in S : \E u \in Job : x = Feed!Event(u, Feed!Rows[u])
  OBVIOUS
<1>10. ASSUME NEW t \in Job, Feed!Visible(t), row[t] # Feed!None PROVE Says(l, t, row[t])
  <2>1. Feed!Event(t, row[t]) \in S
    BY <1>1, <1>10
  <2> HIDE DEF S, l, V
  <2>2. PICK i \in DOMAIN l : l[i] = Feed!Event(t, row[t])
    BY <2>1, <1>6
  <2>3. ASSUME NEW j \in DOMAIN l, l[j].job = t PROVE j = i
    <3>1. PICK u \in Job : l[j] = Feed!Event(u, Feed!Rows[u])
      BY <1>7, <1>9
    <3>2. u = t
      BY <3>1, <2>3 DEF Feed!Event
    <3>3. l[j] = l[i]
      BY <3>1, <3>2, <2>2, <1>1, <1>10
    <3> QED BY <3>3, <1>6
  <2>4. \A j \in DOMAIN l : l[j].job = t => j <= i
    BY <2>3, <1>7
  <2> QED BY <2>2, <2>4 DEF Says
<1> QED BY <1>8, <1>10

\* A connection lists the tasks.
LEMMA ListFeed == ASSUME FeedInv, Feed!ListFirst PROVE FeedInv'
<1>1. /\ conn = "subscribed" /\ conn' = "telling" /\ trusts' = Feed!UsesRedis
      /\ tell' = Feed!SetToSeq({Feed!Event(t,
           Feed!Rows[t]) : t \in {u \in Job : Feed!Rows[u] # Feed!None}})
      /\ UNCHANGED <<row, place, redis, unsaid, queue, spilt, heard, Feed!page, poll, breaks>>
  BY DEF Feed!ListFirst, Feed!Asked
<1> USE DEF Feed!page
<1>2. Feed!UsesRedis \in BOOLEAN /\ (Feed!UsesRedis => trusts)
  BY DEF FeedInv, FeedTyped, Feed!UsesRedis
<1>3. /\ tell' \in Seq(News)
      /\ \A t \in Job : Feed!Visible(t) /\ row[t] # Feed!None => Says(tell', t, row[t])
  BY <1>1, Snapshot
<1>4. FeedTyped'
  BY <1>1, <1>2, <1>3 DEF FeedInv, FeedTyped
<1>5. Stored'
  BY <1>1, <1>2 DEF FeedInv, Stored
<1>6. Tellings'
  <2> SUFFICES ASSUME ~spilt, NEW u \in Job, Kept(u)', u \notin unsaid PROVE Told(u)'
    BY <1>1 DEF Tellings
  <2>1. Feed!Visible(u)
    BY <1>1, KeptVisible
  <2>2. Kept(u)
    BY <1>1, KeptMono DEF FeedInv, FeedTyped
  <2>3. row[u] # Feed!None
    BY <2>2 DEF FeedInv, Stored, Kept
  <2>4. Says(tell', u, row[u])
    BY <2>1, <2>3, <1>3
  <2>5. Tells(tell', u)
    BY <2>4 DEF Says, Tells, Feed!Event
  <2>6. Told(u)
    BY <2>2, <1>1 DEF FeedInv, Tellings
  <2>7. Tells(tell, u)' /\ Says(tell, u, row[u])'
    BY <2>4, <2>5, <1>1 DEF Tells, Says, Feed!Event
  <2>8. Tells(queue, u)' = Tells(queue, u) /\ Says(queue, u, row[u])' = Says(queue, u, row[u])
    BY <1>1 DEF Tells, Says, Feed!Event
  <2> QED BY <2>6, <2>7, <2>8 DEF Told
<1> QED BY <1>4, <1>5, <1>6 DEF FeedInv

\* What the page does with one event: it hears it, and keeps its types.
LEMMA HandleFacts ==
  ASSUME FeedInv, NEW e \in News, Feed!HandleTaskEvent(e)
  PROVE  /\ heard' = [heard EXCEPT ![e.job] = e.st]
         /\ heard' \in [Job -> Feed!Stage] /\ view' \in [Job -> Feed!Stage]
              /\ sig' \in [Job -> Feed!Stage]
         /\ known' \in [Job -> Feed!Stage] /\ notified' \subseteq Job
         /\ baseline' \subseteq Job /\ indexed' \subseteq Job /\ history' \subseteq Job
         /\ dirty' \in BOOLEAN
<1>1. e.job \in Job /\ e.st \in Feed!Stage
  BY DEF News
<1>2. /\ view' = [view EXCEPT ![e.job] = e.st] /\ dirty' = TRUE
      /\ heard' = [heard EXCEPT ![e.job] = e.st]
      /\ known' = [known EXCEPT ![e.job] = IF e.job \in Notifies THEN e.st ELSE @]
      /\ UNCHANGED <<sig, baseline, indexed, history>>
  BY DEF Feed!HandleTaskEvent
<1>3. notified' \subseteq Job
  <2>1. PICK fresh \in BOOLEAN : notified' = notified \cup {t \in {e.job} :
            Feed!Finished(t, e.st, fresh)}
    BY DEF Feed!HandleTaskEvent
  <2> QED BY <2>1, <1>1 DEF FeedInv, FeedTyped
<1> QED BY <1>1, <1>2, <1>3 DEF FeedInv, FeedTyped

\* It tells the next of them.
LEMMA TellFeed == ASSUME FeedInv, Feed!Tell PROVE FeedInv'
<1>1. conn = "telling" /\ UNCHANGED <<Feed!server, queue, spilt, poll, breaks>>
  BY DEF Feed!Tell
<1> USE DEF Feed!server, Feed!page
<1>2. CASE tell = <<>>
  <2>1. conn' = "live" /\ UNCHANGED <<tell, heard, Feed!page>>
    BY <1>2 DEF Feed!Tell
  <2>2. FeedTyped' /\ Stored'
    BY <2>1, <1>1, <1>2 DEF FeedInv, FeedTyped, Stored
  <2>3. Tellings'
    <3> SUFFICES ASSUME ~spilt, NEW u \in Job, Kept(u), u \notin unsaid PROVE Told(u)'
      BY <1>1 DEF Tellings, Kept
    <3>1. Told(u)
      BY <1>1 DEF FeedInv, Tellings
    <3> QED BY <3>1, <2>1, <1>1 DEF Told, Tells, Says, Feed!Event
  <2> QED BY <2>2, <2>3 DEF FeedInv
<1>3. CASE tell # <<>>
  <2>1. Feed!HandleTaskEvent(Head(tell)) /\ tell' = Tail(tell) /\ conn' = conn
    BY <1>3 DEF Feed!Tell
  <2>2. tell \in Seq(News)
    BY DEF FeedInv, FeedTyped
  <2>3. Head(tell) \in News /\ Tail(tell) \in Seq(News)
    BY <2>2, <1>3, TailFacts
  <2>4. FeedTyped'
    BY <2>1, <2>3, <1>1, HandleFacts DEF FeedInv, FeedTyped
  <2>5. Stored'
    BY <2>1, <1>1 DEF FeedInv, Stored
  <2>6. Tellings'
    <3> SUFFICES ASSUME ~spilt, NEW u \in Job, Kept(u), u \notin unsaid PROVE Told(u)'
      BY <1>1 DEF Tellings, Kept
    <3>1. Told(u)
      BY <1>1 DEF FeedInv, Tellings
    <3>2. Tells(queue, u)' = Tells(queue, u) /\ Says(queue, u, row[u])' = Says(queue, u, row[u])
      BY <1>1 DEF Tells, Says, Feed!Event
    <3>3. Tells(tell, u)' = Tells(Tail(tell), u)
              /\ Says(tell, u, row[u])' = Says(Tail(tell), u, row[u])
      BY <1>1, <2>1 DEF Tells, Says, Feed!Event
    <3>4. heard' = [heard EXCEPT ![Head(tell).job] = Head(tell).st]
      BY <2>1, <2>3, HandleFacts
    <3>5. CASE Tells(queue, u)
      BY <3>1, <3>2, <3>5 DEF Told
    <3>6. CASE ~Tells(queue, u) /\ Tells(Tail(tell), u)
      <4>1. Says(tell, u, row[u])
        BY <3>1, <3>6, <1>1, <1>3, <2>2, TellsTail DEF Told
      <4>2. Says(Tail(tell), u, row[u])
        BY <4>1, <3>6, <1>3, <2>2, TellsTail
      <4> QED BY <4>2, <3>6, <3>2, <3>3 DEF Told
    <3>7. CASE ~Tells(queue, u) /\ ~Tells(Tail(tell), u)
      <4>1. heard'[u] = row[u]
        <5>1. CASE Head(tell).job = u
          <6>1. Says(tell, u, row[u])
            BY <3>1, <3>7, <5>1, <1>1, <1>3, <2>2, TellsTail DEF Told
          <6>2. Head(tell) = Feed!Event(u, row[u])
            BY <6>1, <3>7, <1>3, <2>2, TellsTail
          <6> QED BY <6>2, <3>4 DEF FeedInv, FeedTyped, Feed!Event
        <5>2. CASE Head(tell).job # u
          <6>1. ~Tells(tell, u)
            BY <3>7, <5>2, <1>3, <2>2, TellsTail
          <6>2. heard[u] = row[u]
            BY <6>1, <3>1, <3>7, <1>1 DEF Told
          <6> QED BY <6>2, <5>2, <3>4 DEF FeedInv, FeedTyped
        <5> QED BY <5>1, <5>2
      <4> QED BY <4>1, <3>7, <3>2, <3>3, <1>1 DEF Told
    <3> QED BY <3>5, <3>6, <3>7
  <2> QED BY <2>4, <2>5, <2>6 DEF FeedInv
<1> QED BY <1>2, <1>3

\* The head of the queue is delivered.
LEMMA DeliverFeed == ASSUME FeedInv, FeedQueue \in Nat, Feed!Deliver PROVE FeedInv'
<1>1. /\ conn = "live" /\ queue # <<>> /\ Feed!HandleTaskEvent(Head(queue)) /\ queue' = Tail(queue)
      /\ UNCHANGED <<Feed!server, conn, tell, spilt, poll, breaks>>
  BY DEF Feed!Deliver
<1> USE DEF Feed!server, Feed!page
<1>2. queue \in Seq(News) /\ tell = <<>>
  BY <1>1 DEF FeedInv, FeedTyped, Stored
<1>3. Head(queue) \in News /\ Tail(queue) \in Seq(News) /\ Len(Tail(queue)) = Len(queue) - 1
          /\ Len(queue) \in Nat
  BY <1>1, <1>2, TailFacts
<1>4. Len(queue') <= FeedQueue
  <2>1. Len(queue) <= FeedQueue
    BY DEF FeedInv, FeedTyped
  <2> QED BY <2>1, <1>3, <1>1
<1>5. FeedTyped'
  BY <1>1, <1>3, <1>4, HandleFacts DEF FeedInv, FeedTyped
<1>6. Stored'
  BY <1>1 DEF FeedInv, Stored
<1>7. Tellings'
  <2> SUFFICES ASSUME ~spilt, NEW u \in Job, Kept(u), u \notin unsaid PROVE Told(u)'
    BY <1>1 DEF Tellings, Kept
  <2>1. Told(u)
    BY <1>1 DEF FeedInv, Tellings
  <2>2. ~Tells(tell, u) /\ ~Tells(tell, u)'
    BY <1>1, <1>2 DEF Tells
  <2>3. Tells(queue, u)' = Tells(Tail(queue), u)
            /\ Says(queue, u, row[u])' = Says(Tail(queue), u, row[u])
    BY <1>1 DEF Tells, Says, Feed!Event
  <2>4. heard' = [heard EXCEPT ![Head(queue).job] = Head(queue).st]
    BY <1>1, <1>3, HandleFacts
  <2>5. CASE Tells(Tail(queue), u)
    <3>1. Says(queue, u, row[u])
      BY <2>1, <2>5, <1>1, <1>2, TellsTail DEF Told
    <3>2. Says(Tail(queue), u, row[u])
      BY <3>1, <2>5, <1>1, <1>2, TellsTail
    <3> QED BY <3>2, <2>5, <2>3 DEF Told
  <2>6. CASE ~Tells(Tail(queue), u)
    <3>1. heard'[u] = row[u]
      <4>1. CASE Head(queue).job = u
        <5>1. Says(queue, u, row[u])
          BY <2>1, <4>1, <1>1, <1>2, TellsTail DEF Told
        <5>2. Head(queue) = Feed!Event(u, row[u])
          BY <5>1, <2>6, <1>1, <1>2, TellsTail
        <5> QED BY <5>2, <2>4 DEF FeedInv, FeedTyped, Feed!Event
      <4>2. CASE Head(queue).job # u
        <5>1. ~Tells(queue, u)
          BY <2>6, <4>2, <1>1, <1>2, TellsTail
        <5>2. heard[u] = row[u]
          BY <5>1, <2>1, <2>2, <1>1 DEF Told
        <5> QED BY <5>2, <4>2, <2>4 DEF FeedInv, FeedTyped
      <4> QED BY <4>1, <4>2
    <3> QED BY <3>1, <2>6, <2>2, <2>3, <1>1 DEF Told
  <2> QED BY <2>5, <2>6
<1> QED BY <1>5, <1>6, <1>7 DEF FeedInv

\* The poll reads the rows; the answer, when it comes, says what was read.
LEMMA PollFeed == ASSUME FeedInv, Feed!PollAsk \/ Feed!PollAnswer \/ Feed!Watch PROVE FeedInv'
<1> USE DEF Feed!server, Feed!stream, Feed!page
<1>1. Feed!None \in Feed!Stage
  BY DEF Feed!Stage, Feed!None, Feed!Over
<1>2. /\ UNCHANGED <<row, place, redis, unsaid, Feed!stream, breaks>>
      /\ trusts' \in {trusts, Feed!UsesRedis}
  BY DEF Feed!PollAsk, Feed!PollAnswer, Feed!Watch, Feed!Asked
<1>3. Feed!UsesRedis \in BOOLEAN /\ (Feed!UsesRedis => trusts)
  BY DEF FeedInv, FeedTyped, Feed!UsesRedis
<1>4. /\ poll' \in {<<>>} \cup {<<r>> : r \in [Job -> Feed!Stage]}
      /\ view' \in [Job -> Feed!Stage] /\ sig' \in [Job -> Feed!Stage]
           /\ known' \in [Job -> Feed!Stage]
      /\ notified' \subseteq Job /\ baseline' \subseteq Job /\ indexed' \subseteq Job
      /\ history' \subseteq Job /\ dirty' \in BOOLEAN
  <2>1. CASE Feed!PollAsk
    <3>1. Feed!Rows \in [Job -> Feed!Stage]
      BY <1>1 DEF Feed!Rows, FeedInv, FeedTyped
    <3>2. poll' = <<Feed!Rows>> /\ UNCHANGED Feed!page
      BY <2>1 DEF Feed!PollAsk
    <3> QED BY <3>1, <3>2 DEF FeedInv, FeedTyped
  <2>2. CASE Feed!PollAnswer
    <3>1. PICK r \in [Job -> Feed!Stage] : poll = <<r>>
      BY <2>2 DEF Feed!PollAnswer, FeedInv, FeedTyped
    <3>2. poll[1] = r
      BY <3>1
    <3>3. poll' = <<>> /\ UNCHANGED <<baseline, indexed, history>>
      BY <2>2 DEF Feed!PollAnswer
    <3>4. Feed!Merge(view, r) \in [Job -> Feed!Stage]
              /\ Feed!Merge(known, r) \in [Job -> Feed!Stage]
      BY DEF Feed!Merge, FeedInv, FeedTyped
    <3>5. view' \in {view, Feed!Merge(view, r)} /\ sig' \in {sig, r} /\ dirty' \in {TRUE, dirty}
      BY <2>2, <3>2 DEF Feed!PollAnswer, Feed!Sig
    <3>6. known' = [t \in Job |-> IF t \in Notifies THEN Feed!Merge(known, r)[t] ELSE Feed!None]
      BY <2>2, <3>2 DEF Feed!PollAnswer
    <3>7. known' \in [Job -> Feed!Stage]
      BY <3>4, <3>6, <1>1
    <3>8. PICK fresh \in BOOLEAN : notified' = notified \cup {t \in Job :
              Feed!Finished(t, r[t], fresh)}
      BY <2>2, <3>2 DEF Feed!PollAnswer
    <3> QED BY <3>3, <3>4, <3>5, <3>7, <3>8 DEF FeedInv, FeedTyped
  <2>3. CASE Feed!Watch
    <3>1. dirty' = FALSE /\ UNCHANGED <<view, sig, known, notified, history, poll>>
      BY <2>3 DEF Feed!Watch
    <3>2. baseline' \subseteq Job /\ indexed' \subseteq Job
      BY <2>3, FeedConstants DEF Feed!Watch, FeedInv, FeedTyped
    <3> QED BY <3>1, <3>2 DEF FeedInv, FeedTyped
  <2> QED BY <2>1, <2>2, <2>3
<1>5. FeedTyped'
  BY <1>2, <1>3, <1>4 DEF FeedInv, FeedTyped
<1>6. Stored'
  BY <1>2, <1>3 DEF FeedInv, Stored
<1>7. Tellings'
  BY <1>2, ToldSame
<1> QED BY <1>5, <1>6, <1>7 DEF FeedInv

\* Every step of the feed keeps the invariant.
LEMMA StepFeed == FeedInv /\ (Feed!Next \/ UNCHANGED Feed!vars) => FeedInv'
<1> SUFFICES ASSUME FeedInv, (Feed!Next \/ UNCHANGED Feed!vars) PROVE FeedInv'
  OBVIOUS
<1>1. CASE UNCHANGED Feed!vars
  <2> USE <1>1 DEF Feed!vars, Feed!server, Feed!stream, Feed!page
  <2>1. FeedTyped' /\ Stored'
    BY DEF FeedInv, FeedTyped, Stored
  <2>2. Tellings'
    BY ToldSame
  <2> QED BY <2>1, <2>2 DEF FeedInv
<1>2. ASSUME NEW t \in Job, Feed!Create(t) \/ Feed!Update(t) \/ Feed!Publish(t) PROVE FeedInv'
  BY <1>2, CreateFeed, UpdateFeed, PublishFeed, FeedConstants
<1>3. CASE Feed!RedisFails \/ Feed!RedisBack
  BY <1>3, RedisFeed
<1>4. CASE Feed!Connect \/ Feed!ListFirst \/ Feed!Tell \/ Feed!Deliver \/ Feed!Drop
  BY <1>4, ConnectFeed, ListFeed, TellFeed, DeliverFeed, CutFeed, FeedConstants
<1>5. CASE Feed!PollAsk \/ Feed!PollAnswer \/ Feed!Watch \/ Feed!Reload
  BY <1>5, PollFeed, CutFeed, FeedConstants
<1> QED BY <1>1, <1>2, <1>3, <1>4, <1>5 DEF Feed!Next

\* A row that can be read is kept.
LEMMA CatchesUp == FeedInv => Feed!StreamCatchesUp
<1> SUFFICES ASSUME FeedInv, conn = "live", queue = <<>>, ~spilt,
                    NEW t \in Job, Feed!Visible(t), t \notin unsaid
             PROVE  heard[t] = row[t]
  BY DEF Feed!StreamCatchesUp
<1>1. Kept(t)
  BY DEF FeedInv, FeedTyped, Stored, Kept, Feed!Visible, Feed!UsesRedis
<1>2. Told(t)
  BY <1>1 DEF FeedInv, Tellings
<1>3. ~Tells(queue, t)
  BY DEF Tells
<1>4. tell = <<>>
  BY DEF FeedInv, Stored
<1>5. ~Tells(tell, t)
  BY <1>4 DEF Tells
<1> QED BY <1>2, <1>3, <1>5 DEF Told

\* The variables of the feed have their types.
LEMMA FeedTypes == FeedInv => Feed!TypeOK
  BY DEF FeedInv, FeedTyped, Feed!TypeOK, News

-----------------------------------------------------------------------------
\* What both streams keep.
ClientInv == StreamInv /\ replies \in 0..MaxReplies /\ FeedInv

\* The two streams start in their invariants,
LEMMA ClientInit == Stream!Init /\ Feed!Init => ClientInv
<1> SUFFICES ASSUME Stream!Init, Feed!Init PROVE ClientInv
  OBVIOUS
<1>1. replies \in 0..MaxReplies
  BY DialogueAssumption DEF Stream!Init, Stream!StreamAssumption
<1> QED BY <1>1, InitStream, InitFeed, FeedConstants DEF ClientInv

\* keep them,
LEMMA ClientNext ==
  ASSUME ClientInv, Stream!Next \/ UNCHANGED Stream!vars, Feed!Next \/ UNCHANGED Feed!vars
  PROVE  ClientInv'
<1>1. StreamInv'
  BY StepStream DEF ClientInv
<1>2. (replies \in 0..MaxReplies)'
  BY RepliesFit, DialogueAssumption DEF ClientInv
<1>3. FeedInv'
  BY StepFeed DEF ClientInv
<1> QED BY <1>1, <1>2, <1>3 DEF ClientInv

\* and so tell what they should,
LEMMA ClientKept == ClientInv => ChatTold /\ TasksTold
  BY TellsDone, ShowsFinal, StartsOnce, TellsTheSame, CatchesUp DEF ClientInv, ChatTold, TasksTold

\* with variables of their types.
LEMMA ClientTypes == ClientInv => Stream!TypeOK /\ Feed!TypeOK
  BY StreamTypes, FeedTypes DEF ClientInv

\* The two streams, each under its own specification, tell a client what they should.
THEOREM ClientSound == Stream!Spec /\ Feed!Spec => [](ChatTold /\ TasksTold)
<1>1. ClientInv /\ [Stream!Next]_(Stream!vars) /\ [Feed!Next]_(Feed!vars) => ClientInv'
  BY ClientNext
<1> QED BY <1>1, ClientInit, ClientKept, PTL DEF Stream!Spec, Feed!Spec

-----------------------------------------------------------------------------
(* Numbers, recursion and sums. *)

\* A set of numbers has a least one.
LEMMA LeastOf ==
  ASSUME NEW T, T \subseteq Nat, T # {}
  PROVE  \E i \in T : \A j \in T : i <= j
<1>1. IsWellFoundedOn(OpToRel(<, Nat), Nat)
  BY NatLessThanWellFounded
<1>2. PICK i \in T : \A j \in T : ~(<<j, i>> \in OpToRel(<, Nat))
  BY <1>1, WFMin
<1>3. \A j \in T : ~(j < i)
  BY <1>2 DEF OpToRel
<1> QED BY <1>3

\* Induction up to a bound, on the set of the places where something fails.
LEMMA UpTo ==
  ASSUME NEW L \in Nat, NEW B, B \subseteq 0..L, 0 \notin B,
         \A n \in 1..L : n - 1 \notin B => n \notin B
  PROVE  B = {}
<1> SUFFICES ASSUME B # {} PROVE FALSE
  OBVIOUS
<1>1. B \subseteq Nat
  OBVIOUS
<1>2. PICK n \in B : \A m \in B : n <= m
  BY <1>1, LeastOf
<1>3. n \in 1..L /\ n - 1 \in B
  OBVIOUS
<1> QED BY <1>1, <1>2, <1>3

\* A set of numbers that has a bound has a greatest one.
LEMMA GreatestOf ==
  ASSUME NEW L \in Nat, NEW T, T \subseteq 0..L, T # {}
  PROVE  \E i \in T : \A j \in T : i >= j
<1> DEFINE U == {L - i : i \in T}
<1>1. U \subseteq Nat /\ U # {}
  <2>1. \A i \in T : L - i \in Nat
    OBVIOUS
  <2> QED BY <2>1
<1>2. PICK u \in U : \A v \in U : u <= v
  <2> HIDE DEF U
  <2> QED BY <1>1, LeastOf
<1>3. PICK i \in T : u = L - i
  OBVIOUS
<1>4. \A j \in T : L - i <= L - j
  BY <1>2, <1>3
<1> QED BY <1>4

\* A function that starts at z and goes on by the steps g.
Unrolls(h, S, L, z, g) == /\ h \in [0..L -> S] /\ h[0] = z
                          /\ \A n \in 1..L : h[n] = g[n][h[n - 1]]

\* A step from each number to the next makes a function.
LEMMA Recursion ==
  ASSUME NEW S, NEW L \in Nat, NEW z \in S, NEW g, g \in [1..L -> [S -> S]]
  PROVE  \E h : Unrolls(h, S, L, z, g)
<1> DEFINE Is(m) == \E h \in [0..m -> S] : h[0] = z /\ \A n \in 1..m : h[n] = g[n][h[n - 1]]
           B     == {m \in 0..L : ~Is(m)}
<1>1. Is(0)
  <2> DEFINE h == [k \in 0..0 |-> z]
  <2>1. h \in [0..0 -> S] /\ h[0] = z /\ \A n \in 1..0 : h[n] = g[n][h[n - 1]]
    OBVIOUS
  <2> QED BY <2>1
<1>2. ASSUME NEW m \in 1..L, Is(m - 1) PROVE Is(m)
  <2>1. PICK h \in [0..(m - 1) -> S] : h[0] = z /\ \A n \in 1..(m - 1) : h[n] = g[n][h[n - 1]]
    BY <1>2
  <2> DEFINE f == [k \in 0..m |-> IF k = m THEN g[m][h[m - 1]] ELSE h[k]]
  <2>2. h[m - 1] \in S /\ g[m][h[m - 1]] \in S
    BY <2>1
  <2>3. f \in [0..m -> S]
    <3>1. \A k \in 0..m : k = m \/ k \in 0..(m - 1)
      OBVIOUS
    <3> QED BY <2>1, <2>2, <3>1
  <2>4. f[0] = z
    BY <2>1
  <2>5. ASSUME NEW n \in 1..m PROVE f[n] = g[n][f[n - 1]]
    <3>1. f[n - 1] = h[n - 1]
      OBVIOUS
    <3>2. CASE n = m
      BY <3>1, <3>2
    <3>3. CASE n # m
      <4>1. n \in 1..(m - 1) /\ f[n] = h[n]
        BY <3>3
      <4> QED BY <2>1, <3>1, <4>1
    <3> QED BY <3>2, <3>3
  <2> HIDE DEF f
  <2> QED BY <2>3, <2>4, <2>5
<1>3. B = {}
  <2>1. B \subseteq 0..L /\ 0 \notin B
    BY <1>1
  <2>2. \A m \in 1..L : m - 1 \notin B => m \notin B
    <3> TAKE m \in 1..L
    <3>1. m - 1 \in 0..L
      OBVIOUS
    <3> HIDE DEF Is
    <3> QED BY <1>2, <3>1
  <2> HIDE DEF B
  <2> QED BY <2>1, <2>2, UpTo
<1>4. L \in 0..L
  OBVIOUS
<1> HIDE DEF Is
<1>5. Is(L)
  BY <1>3, <1>4
<1> QED BY <1>5 DEF Is, Unrolls

-----------------------------------------------------------------------------
\* The sums of the first numbers of m, and the last of them.
Sums(h, m, n) == h = [k \in 0..n |-> IF k = 0 THEN 0 ELSE h[k - 1] + m[k]]
Sum(m, n)     == (CHOOSE h : Sums(h, m, n))[n]
Numbers(m, n) == n \in Nat /\ \A k \in 1..n : m[k] \in Nat

\* A sum is the last of the partial sums, which exist.
LEMMA SumsAre ==
  ASSUME NEW m, NEW n, Numbers(m, n)
  PROVE  \E h \in [0..n -> Nat] : Sums(h, m, n) /\ Sum(m, n) = h[n]
<1> DEFINE g == [k \in 1..n |-> [x \in Nat |-> x + m[k]]]
<1>1. n \in Nat /\ \A k \in 1..n : m[k] \in Nat
  BY DEF Numbers
<1>2. g \in [1..n -> [Nat -> Nat]]
  BY <1>1
<1>3. PICK f \in [0..n -> Nat] : f[0] = 0 /\ \A k \in 1..n : f[k] = g[k][f[k - 1]]
  <2>1. 0 \in Nat
    OBVIOUS
  <2> HIDE DEF g
  <2>2. PICK f : Unrolls(f, Nat, n, 0, g)
    BY <1>1, <1>2, <2>1, Recursion
  <2> QED BY <2>2 DEF Unrolls
<1>4. ASSUME NEW k \in 1..n PROVE f[k] = f[k - 1] + m[k]
  <2>1. k - 1 \in 0..n /\ f[k - 1] \in Nat
    BY <1>1, <1>3
  <2> QED BY <1>3, <2>1
<1>5. Sums(f, m, n)
  <2>1. \A k \in 0..n : k = 0 \/ k \in 1..n
    BY <1>1
  <2>2. \A k \in 0..n : f[k] = IF k = 0 THEN 0 ELSE f[k - 1] + m[k]
    BY <1>3, <1>4, <2>1
  <2> QED BY <1>3, <2>2 DEF Sums
<1> DEFINE h == CHOOSE x : Sums(x, m, n)
<1>6. Sums(h, m, n)
  BY <1>5
<1> HIDE DEF h
<1>7. DOMAIN h = 0..n /\ h[0] = 0 /\ \A k \in 1..n : h[k] = h[k - 1] + m[k]
  <2>1. \A k \in 1..n : k \in 0..n /\ k # 0
    BY <1>1
  <2> QED BY <1>1, <1>6, <2>1 DEF Sums
<1> DEFINE B == {k \in 0..n : h[k] \notin Nat}
<1>8. B = {}
  <2>1. B \subseteq 0..n /\ 0 \notin B
    BY <1>7
  <2>2. \A k \in 1..n : k - 1 \notin B => k \notin B
    <3> TAKE k \in 1..n
    <3>1. k - 1 \in 0..n /\ m[k] \in Nat /\ h[k] = h[k - 1] + m[k]
      BY <1>1, <1>7
    <3> QED BY <3>1
  <2> HIDE DEF B
  <2> QED BY <1>1, <2>1, <2>2, UpTo
<1>9. h \in [0..n -> Nat]
  BY <1>6, <1>8 DEF Sums
<1>10. Sum(m, n) = h[n]
  BY DEF Sum, h
<1> QED BY <1>6, <1>9, <1>10

\* Two sums agree where the numbers do.
LEMMA SumsAgree ==
  ASSUME NEW m, NEW x, NEW a \in Nat, NEW b \in Nat, NEW h, NEW f, Sums(h, m, a), Sums(f, x, b),
         NEW n \in Nat, n <= a, n <= b, \A k \in 1..n : m[k] = x[k]
  PROVE  h[n] = f[n]
<1> DEFINE B == {k \in 0..n : h[k] # f[k]}
<1>1. h[0] = 0 /\ f[0] = 0
  BY DEF Sums
<1>2. ASSUME NEW k \in 1..n PROVE h[k] = h[k - 1] + m[k] /\ f[k] = f[k - 1] + x[k]
  <2>1. k \in 0..a /\ k \in 0..b /\ k # 0
    OBVIOUS
  <2> QED BY <2>1 DEF Sums
<1>3. B = {}
  <2>1. B \subseteq 0..n /\ 0 \notin B
    BY <1>1
  <2>2. \A k \in 1..n : k - 1 \notin B => k \notin B
    <3> TAKE k \in 1..n
    <3>1. k - 1 \in 0..n /\ m[k] = x[k]
      OBVIOUS
    <3> QED BY <1>2, <3>1
  <2> HIDE DEF B
  <2> QED BY <2>1, <2>2, UpTo
<1> QED BY <1>3

\* A sum is one of fewer numbers and the last number.
LEMMA SumFacts ==
  ASSUME NEW m, NEW n, Numbers(m, n)
  PROVE  /\ Sum(m, n) \in Nat /\ Sum(m, 0) = 0
         /\ n > 0 => Numbers(m, n - 1) /\ Sum(m, n) = Sum(m, n - 1) + m[n]
<1>1. n \in Nat /\ \A k \in 1..n : m[k] \in Nat
  BY DEF Numbers
<1>2. PICK h \in [0..n -> Nat] : Sums(h, m, n) /\ Sum(m, n) = h[n]
  BY SumsAre
<1>3. Sum(m, 0) = 0
  <2>1. Numbers(m, 0)
    BY DEF Numbers
  <2>2. PICK f : Sums(f, m, 0) /\ Sum(m, 0) = f[0]
    BY <2>1, SumsAre
  <2> QED BY <2>2 DEF Sums
<1>4. ASSUME n > 0 PROVE Numbers(m, n - 1) /\ Sum(m, n) = Sum(m, n - 1) + m[n]
  <2>1. Numbers(m, n - 1) /\ n - 1 \in Nat
    BY <1>1, <1>4 DEF Numbers
  <2>2. PICK f : Sums(f, m, n - 1) /\ Sum(m, n - 1) = f[n - 1]
    BY <2>1, SumsAre
  <2>3. h[n - 1] = f[n - 1]
    BY <1>1, <1>2, <2>1, <2>2, SumsAgree
  <2>4. h[n] = h[n - 1] + m[n]
    BY <1>1, <1>2, <1>4 DEF Sums
  <2> QED BY <1>2, <2>1, <2>2, <2>3, <2>4
<1> QED BY <1>1, <1>2, <1>3, <1>4

\* A sum depends only on the numbers that are added.
LEMMA SumSame ==
  ASSUME NEW m, NEW x, NEW n, Numbers(m, n), \A k \in 1..n : m[k] = x[k]
  PROVE  Sum(m, n) = Sum(x, n)
<1>1. n \in Nat /\ Numbers(x, n)
  BY DEF Numbers
<1>2. PICK h : Sums(h, m, n) /\ Sum(m, n) = h[n]
  BY SumsAre
<1>3. PICK f : Sums(f, x, n) /\ Sum(x, n) = f[n]
  BY <1>1, SumsAre
<1> QED BY <1>1, <1>2, <1>3, SumsAgree

\* More numbers, no smaller sum.
LEMMA SumGrows ==
  ASSUME NEW m, NEW n, Numbers(m, n), NEW k \in 0..n
  PROVE  Sum(m, k) \in Nat /\ Sum(m, k) <= Sum(m, n)
<1> DEFINE B == {i \in 0..n : k <= i /\ ~(Sum(m, k) <= Sum(m, i))}
<1>0. n \in Nat
  BY DEF Numbers
<1>1. \A i \in 0..n : Numbers(m, i)
  BY <1>0 DEF Numbers
<1>2. \A i \in 0..n : Sum(m, i) \in Nat
  BY <1>1, SumFacts
<1>3. B = {}
  <2>1. B \subseteq 0..n /\ 0 \notin B
    BY <1>0, <1>2
  <2>2. \A i \in 1..n : i - 1 \notin B => i \notin B
    <3> TAKE i \in 1..n
    <3>1. i - 1 \in 0..n /\ i \in 0..n /\ i > 0
      BY <1>0
    <3>2. Sum(m, i) = Sum(m, i - 1) + m[i] /\ m[i] \in Nat
      BY <1>1, <3>1, SumFacts DEF Numbers
    <3> QED BY <1>0, <1>2, <3>1, <3>2
  <2> HIDE DEF B
  <2> QED BY <1>0, <2>1, <2>2, UpTo
<1> QED BY <1>0, <1>2, <1>3

\* The sum of two parts.
LEMMA SumParts ==
  ASSUME NEW m, NEW a \in Nat, NEW b \in Nat, Numbers(m, a + b),
         NEW x, \A k \in 1..b : x[k] = m[a + k]
  PROVE  Sum(m, a + b) = Sum(m, a) + Sum(x, b)
<1> DEFINE B == {i \in 0..b : Sum(m, a + i) # Sum(m, a) + Sum(x, i)}
<1>1. \A i \in 0..b : Numbers(m, a + i) /\ Numbers(x, i)
  BY DEF Numbers
<1>2. B = {}
  <2>1. B \subseteq 0..b /\ 0 \notin B
    <3>1. Sum(x, 0) = 0 /\ Sum(m, a) \in Nat
      BY <1>1, SumFacts
    <3> QED BY <3>1
  <2>2. \A i \in 1..b : i - 1 \notin B => i \notin B
    <3> TAKE i \in 1..b
    <3>1. i - 1 \in 0..b /\ i \in 0..b /\ i > 0 /\ a + i > 0
      OBVIOUS
    <3>2. Sum(x, i) = Sum(x, i - 1) + m[a + i] /\ m[a + i] \in Nat
      BY <1>1, <3>1, SumFacts DEF Numbers
    <3>3. Sum(m, a + i) = Sum(m, a + (i - 1)) + m[a + i]
      <4>1. (a + i) - 1 = a + (i - 1)
        OBVIOUS
      <4>2. Sum(m, a + i) = Sum(m, (a + i) - 1) + m[a + i]
        BY <1>1, <3>1, SumFacts
      <4> QED BY <4>1, <4>2
    <3>4. Sum(x, i - 1) \in Nat /\ Sum(m, a) \in Nat /\ Sum(m, a + (i - 1)) \in Nat
      BY <1>1, <3>1, SumFacts
    <3> QED BY <3>1, <3>2, <3>3, <3>4
  <2> HIDE DEF B
  <2> QED BY <2>1, <2>2, UpTo
<1> QED BY <1>2

-----------------------------------------------------------------------------
(* The running summary. *)

\* The characters of messages are a sum.
LEMMA CharsSum == \A m, n : Summary!Chars(m, n) = Sum(m, n)
  BY DEF Summary!Chars, Sum, Sums

\* How many messages are no longer in the prompt.
Past(m) == IF Len(m) > Buffer THEN Len(m) - Buffer ELSE 0

SummaryInv ==
    /\ messages \in Seq(Size) /\ cached \in BOOLEAN /\ missed \in BOOLEAN /\ answered \in BOOLEAN
    /\ through \in 0..Past(messages) /\ read \in 0..Past(messages) /\ (~cached => through = 0)
    /\ Sum(messages, through) <= MaxChars => through <= read
    /\ ~answered /\ ~missed /\ Sum(messages, Past(messages)) <= MaxChars
          => Past(messages) - read < Refresh

\* The constants of the summary.
LEMMA SummaryConstants == /\ Buffer \in Nat \ {0} /\ Refresh \in Nat \ {0} /\ MaxChars \in Nat \ {0}
                          /\ Size \subseteq Nat
  BY DialogueAssumption DEF Summary!SummaryAssumption

\* The first messages.
LEMMA FirstOf ==
  ASSUME NEW S, NEW m \in Seq(S), NEW q \in 0..Len(m)
  PROVE  /\ SubSeq(m, 1, q) \in Seq(S) /\ Len(SubSeq(m, 1, q)) = q
         /\ \A k \in 1..q : SubSeq(m, 1, q)[k] = m[k]
<1>1. \A k \in 1..q : m[k] \in S
  OBVIOUS
<1> QED BY <1>1

\* The older messages are the first ones.
LEMMA OlderFacts ==
  ASSUME NEW m \in Seq(Size)
  PROVE  /\ Past(m) \in Nat /\ Past(m) <= Len(m)
         /\ Summary!Older(m) \in Seq(Size) /\ Len(Summary!Older(m)) = Past(m)
         /\ \A k \in 1..Past(m) : Summary!Older(m)[k] = m[k]
         /\ Numbers(m, Past(m)) /\ Numbers(Summary!Older(m), Past(m))
         /\ \A k \in 0..Past(m) : Sum(Summary!Older(m), k) = Sum(m, k)
         /\ Past(m) = 0 <=> Summary!Older(m) = <<>>
<1>1. Past(m) \in Nat /\ Past(m) <= Len(m)
  BY SummaryConstants DEF Past
<1> DEFINE old == Summary!Older(m)
<1>2. /\ old \in Seq(Size) /\ Len(old) = Past(m) /\ \A k \in 1..Past(m) : old[k] = m[k]
  <2>1. Len(m) - Buffer \in Int /\ Len(m) \in Nat /\ Len(m) - Buffer < Len(m)
    BY SummaryConstants
  <2>2. old = SubSeq(m, 1, Len(m) - Buffer)
    BY DEF Summary!Older
  <2>3. CASE Len(m) > Buffer
    <3>1. Past(m) = Len(m) - Buffer /\ Past(m) \in 0..Len(m)
      BY <2>1, <2>3, SummaryConstants DEF Past
    <3> QED BY <2>2, <3>1, FirstOf
  <2>4. CASE ~(Len(m) > Buffer)
    <3>1. old = <<>>
      BY <2>1, <2>2, <2>4, SummaryConstants
    <3> QED BY <3>1, <2>4 DEF Past
  <2> QED BY <2>3, <2>4
<1> HIDE DEF old
<1>3. \A k \in 1..Past(m) : m[k] \in Nat
  <2>1. \A k \in 1..Past(m) : k \in 1..Len(m)
    BY <1>1
  <2>2. \A k \in 1..Len(m) : m[k] \in Size
    OBVIOUS
  <2> QED BY <2>1, <2>2, SummaryConstants
<1>4. \A k \in 0..Past(m) : Numbers(m, k) /\ Numbers(old, k)
  BY <1>1, <1>2, <1>3 DEF Numbers
<1>5. \A k \in 0..Past(m) : Sum(old, k) = Sum(m, k)
  <2> TAKE k \in 0..Past(m)
  <2>1. \A i \in 1..k : old[i] = m[i]
    BY <1>1, <1>2
  <2> QED BY <1>4, <2>1, SumSame
<1>6. Past(m) = 0 <=> old = <<>>
  BY <1>2
<1>7. Past(m) \in 0..Past(m)
  BY <1>1
<1> QED BY <1>1, <1>2, <1>4, <1>5, <1>6, <1>7 DEF old

\* A conversation starts in the invariant.
LEMMA SummaryInit == Summary!Init => SummaryInv
<1> SUFFICES ASSUME Summary!Init PROVE SummaryInv
  OBVIOUS
<1>1. messages = <<>> /\ messages \in Seq(Size) /\ Len(messages) = 0
  BY DEF Summary!Init
<1>2. Past(messages) = 0
  BY <1>1, SummaryConstants DEF Past
<1>3. through \in 0..Past(messages) /\ read \in 0..Past(messages) /\ through <= read
  BY <1>2 DEF Summary!Init
<1> QED BY <1>1, <1>3 DEF Summary!Init, SummaryInv

\* One message more: the sums of those before it stay.
LEMMA OneMessage ==
  ASSUME SummaryInv, NEW size \in Size, messages' = Append(messages, size)
  PROVE  /\ messages' \in Seq(Size) /\ Past(messages) <= Past(messages')
         /\ \A k \in 0..Past(messages) : Sum(messages', k) = Sum(messages, k)
<1>1. messages \in Seq(Size) /\ messages' \in Seq(Size) /\ Len(messages') = Len(messages) + 1
      /\ \A k \in 1..Len(messages) : messages'[k] = messages[k]
  BY AppendFacts DEF SummaryInv
<1>2. Past(messages) <= Past(messages') /\ Past(messages) \in Nat /\ Past(messages) <= Len(messages)
  BY <1>1, SummaryConstants DEF Past
<1>3. ASSUME NEW k \in 0..Past(messages) PROVE Sum(messages', k) = Sum(messages, k)
  <2>1. k \in Nat /\ \A i \in 1..k : i \in 1..Len(messages)
    BY <1>1, <1>2
  <2>2. \A i \in 1..Len(messages) : messages[i] \in Size
    BY <1>1
  <2>3. Numbers(messages, k) /\ \A i \in 1..k : messages'[i] = messages[i]
    BY <1>1, <2>1, <2>2, SummaryConstants DEF Numbers
  <2> QED BY <2>3, SumSame
<1> QED BY <1>1, <1>2, <1>3

\* Every step of a conversation keeps the invariant.
LEMMA SummaryStep == SummaryInv /\ (Summary!Next \/ UNCHANGED Summary!svars) => SummaryInv'
<1> SUFFICES ASSUME SummaryInv, Summary!Next \/ UNCHANGED Summary!svars PROVE SummaryInv'
  OBVIOUS
<1>0. CASE UNCHANGED Summary!svars
  BY <1>0 DEF Summary!svars, SummaryInv, Past
<1>1. ASSUME NEW size \in Size, Summary!Answer(size) PROVE SummaryInv'
  <2>1. /\ messages' = Append(messages, size) /\ answered' = TRUE
        /\ UNCHANGED <<cached, through, read, missed>>
    BY <1>1 DEF Summary!Answer
  <2>2. /\ messages' \in Seq(Size) /\ Past(messages) <= Past(messages')
        /\ \A k \in 0..Past(messages) : Sum(messages', k) = Sum(messages, k)
    BY <2>1, OneMessage
  <2>3. Past(messages) \in Nat /\ Past(messages') \in Nat
    BY <2>2, OlderFacts DEF SummaryInv
  <2> QED BY <2>1, <2>2, <2>3 DEF SummaryInv
<1>2. ASSUME NEW size \in Size, Summary!Memory(size) PROVE SummaryInv'
  <2> DEFINE m   == messages'
             old == Summary!Older(m)
             p   == Past(m)
  <2>1. messages' = Append(messages, size) /\ answered' = FALSE
    BY <1>2 DEF Summary!Memory
  <2>2. /\ m \in Seq(Size) /\ Past(messages) <= p
        /\ \A k \in 0..Past(messages) : Sum(m, k) = Sum(messages, k)
    BY <2>1, OneMessage
  <2>3. /\ Past(messages) \in Nat /\ p \in Nat /\ Len(old) = p /\ (p = 0 <=> old = <<>>)
        /\ Numbers(m, p) /\ \A k \in 0..p : Sum(old, k) = Sum(m, k)
    BY <2>2, OlderFacts DEF SummaryInv
  <2>4. /\ through \in 0..Past(messages) /\ read \in 0..Past(messages) /\ (~cached => through = 0)
        /\ (Sum(messages, through) <= MaxChars => through <= read)
        /\ cached \in BOOLEAN /\ missed \in BOOLEAN
    BY DEF SummaryInv
  <2>5. /\ through \in 0..p /\ read \in 0..p /\ Sum(m, through) = Sum(messages, through)
        /\ Sum(m, through) \in Nat /\ Sum(m, p) \in Nat /\ Sum(m, through) <= Sum(m, p)
        /\ p \in 0..p
    BY <2>2, <2>3, <2>4, SumGrows
  <2> HIDE DEF m, old, p
  <2>6. CASE UNCHANGED <<cached, through, read, missed>> /\ ~Summary!Due(m)
    <3>1. Summary!Min({p, through}) = through
      BY <2>3, <2>5 DEF Summary!Min
    <3>2. old = <<>> \/ (cached /\ ~(Len(old) - Summary!Min({Len(old), through}) >= Refresh))
      BY <2>6, <2>4 DEF Summary!Due, old
    <3>4. p = 0 \/ (cached /\ p - through < Refresh)
      BY <2>3, <2>5, <3>1, <3>2, SummaryConstants
    <3>3. Sum(m, p) <= MaxChars => p - read < Refresh
      BY <3>4, <2>3, <2>4, <2>5, SummaryConstants
    <3> QED BY <2>1, <2>2, <2>4, <2>5, <2>6, <3>3 DEF SummaryInv, m, p
  <2>7. CASE missed' = TRUE /\ UNCHANGED <<cached, through, read>>
    BY <2>1, <2>2, <2>4, <2>5, <2>7 DEF SummaryInv, m, p
  <2>8. CASE /\ missed' = FALSE /\ cached' = TRUE /\ through' = Len(old)
             /\ read' = Summary!Max({read, Summary!Shown(old)})
    <3> DEFINE T == {n \in 0..p : Sum(m, n) <= MaxChars}
               most == Summary!Shown(old)
    <3>1. most = Summary!Max(T)
      <4>1. \A n \in 0..p : Summary!Chars(old, n) = Sum(m, n)
        BY <2>3, CharsSum
      <4>2. {n \in 0..Len(old) : Summary!Chars(old, n) <= MaxChars} = T
        BY <2>3, <4>1
      <4> QED BY <4>2 DEF Summary!Shown
    <3>2. T \subseteq 0..p /\ T # {}
      <4>1. Sum(m, 0) = 0
        BY <2>3, SumFacts
      <4>2. 0 \in T
        BY <4>1, <2>3, SummaryConstants
      <4> QED BY <4>2
    <3>3. most \in T /\ \A n \in T : most >= n
      <4>1. \E n \in T : \A k \in T : n >= k
        <5> HIDE DEF T
        <5> QED BY <2>3, <3>2, GreatestOf
      <4> HIDE DEF T
      <4> QED BY <3>1, <4>1 DEF Summary!Max
    <3>4. Sum(m, p) <= MaxChars => most = p
      <4> SUFFICES ASSUME Sum(m, p) <= MaxChars PROVE most = p
        OBVIOUS
      <4>1. p \in T
        BY <2>5
      <4>2. most \in 0..p /\ most >= p
        BY <3>2, <3>3, <4>1
      <4> QED BY <4>2, <2>3
    <3>5. most \in 0..p
      BY <3>2, <3>3
    <3> HIDE DEF T, most
    <3>6. read' = Summary!Max({read, most})
      BY <2>8 DEF most
    <3>7. read' \in 0..p /\ read' >= most
      BY <2>5, <3>5, <3>6 DEF Summary!Max
    <3>8. Sum(m, p) <= MaxChars => p <= read'
      BY <2>3, <3>4, <3>7
    <3>9. Sum(m, p) <= MaxChars => p - read' < Refresh
      <4> SUFFICES ASSUME Sum(m, p) <= MaxChars PROVE p - read' < Refresh
        OBVIOUS
      <4>1. p \in Nat /\ read' \in Nat /\ read' = p
        BY <2>3, <3>7, <3>8
      <4> HIDE DEF p
      <4>2. Refresh \in Nat /\ Refresh > 0
        BY SummaryConstants
      <4> QED BY <4>1, <4>2
    <3>10. through' = p /\ through' \in 0..p
      BY <2>3, <2>8
    <3> QED BY <2>1, <2>2, <2>8, <3>7, <3>8, <3>9, <3>10 DEF SummaryInv, m, p
  <2> QED BY <1>2, <2>6, <2>7, <2>8 DEF Summary!Memory, m, old
<1> QED BY <1>0, <1>1, <1>2 DEF Summary!Next

\* The invariant says what the run checks of the summary.
LEMMA SummaryKept == SummaryInv => Summary!GapBounded
<1> SUFFICES ASSUME SummaryInv PROVE Summary!GapBounded
  OBVIOUS
<1>1. Len(Summary!Older(messages)) = Past(messages) /\ Past(messages) \in 0..Past(messages)
  BY OlderFacts DEF SummaryInv
<1>2. Summary!Chars(Summary!Older(messages), Past(messages)) = Sum(messages, Past(messages))
  BY <1>1, OlderFacts, CharsSum DEF SummaryInv
<1> QED BY <1>1, <1>2 DEF SummaryInv, Summary!GapBounded

\* The variables of the summary have their types.
LEMMA SummaryTypes == SummaryInv => Summary!TypeOK
  BY OlderFacts DEF SummaryInv, Summary!TypeOK

-----------------------------------------------------------------------------
(* The fit to a window. *)

Message == [type : {"human", "ai", "tool"}, text : Nat, args : Nat, calls : SUBSET {1, 2},
            of : {0, 1, 2}]

\* The tokens of a message.
LEMMA TokensNat ==
  ASSUME NEW m \in Message
  PROVE  Context!Tokens(m) \in Nat /\ Context!Tokens(m) = m.text + m.args
  BY DEF Context!Tokens, Message

\* The tokens of messages are summed; those of two parts are added.
Weights(x) == [i \in 1..Len(x) |-> Context!Tokens(x[i])]

\* Tokens are a sum,
LEMMA TotalSum ==
  ASSUME NEW x \in Seq(Message)
  PROVE  /\ Context!Total(x) = Sum(Weights(x), Len(x)) /\ Numbers(Weights(x), Len(x))
         /\ Context!Total(x) \in Nat
<1> DEFINE w == Weights(x)
           L == Len(x)
<1>1. L \in Nat /\ \A k \in 1..L : w[k] = Context!Tokens(x[k]) /\ w[k] \in Nat
  BY TokensNat DEF Weights
<1>2. Context!Total(x) = (CHOOSE h :
        h = [k \in 0..L |-> IF k = 0 THEN 0 ELSE h[k - 1] + Context!Tokens(x[k])])[L]
  BY DEF Context!Total
<1>3. ASSUME NEW h PROVE
        [k \in 0..L |-> IF k = 0 THEN 0 ELSE h[k - 1] + Context!Tokens(x[k])]
        = [k \in 0..L |-> IF k = 0 THEN 0 ELSE h[k - 1] + w[k]]
  <2>1. \A k \in 0..L : k = 0 \/ k \in 1..L
    BY <1>1
  <2>2. \A k \in 0..L : (IF k = 0 THEN 0 ELSE h[k - 1] + Context!Tokens(x[k]))
                        = (IF k = 0 THEN 0 ELSE h[k - 1] + w[k])
    BY <1>1, <2>1
  <2> HIDE DEF w, L
  <2> QED BY <2>2
<1> HIDE DEF w, L
<1>4. Context!Total(x) = Sum(w, L)
  BY <1>2, <1>3 DEF Sum, Sums
<1>5. Numbers(w, L)
  BY <1>1 DEF Numbers
<1>6. Sum(w, L) \in Nat
  BY <1>5, SumFacts
<1> QED BY <1>4, <1>5, <1>6 DEF w, L

\* those of two parts are added,
LEMMA TotalParts ==
  ASSUME NEW x \in Seq(Message), NEW y \in Seq(Message)
  PROVE  x \o y \in Seq(Message) /\ Context!Total(x \o y) = Context!Total(x) + Context!Total(y)
<1> DEFINE z == x \o y
           a == Len(x)
           b == Len(y)
<1>1. /\ z \in Seq(Message) /\ Len(z) = a + b /\ a \in Nat /\ b \in Nat
      /\ \A k \in 1..a : z[k] = x[k]
      /\ \A k \in 1..b : z[a + k] = y[k]
  OBVIOUS
<1>2. Context!Total(z) = Sum(Weights(z), a + b) /\ Numbers(Weights(z), a + b)
  BY <1>1, TotalSum
<1>3. /\ Context!Total(x) = Sum(Weights(x), a) /\ Numbers(Weights(x), a)
      /\ Context!Total(y) = Sum(Weights(y), b)
  BY TotalSum
<1> HIDE DEF z, a, b
<1>4. /\ \A k \in 1..a : Weights(x)[k] = Weights(z)[k]
      /\ \A k \in 1..b : Weights(y)[k] = Weights(z)[a + k]
  <2>1. Weights(x) = [i \in 1..a |-> Context!Tokens(x[i])]
    BY DEF Weights, a
  <2>2. Weights(y) = [i \in 1..b |-> Context!Tokens(y[i])]
    BY DEF Weights, b
  <2>3. Weights(z) = [i \in 1..(a + b) |-> Context!Tokens(z[i])]
    BY <1>1 DEF Weights
  <2>4. \A k \in 1..a : k \in 1..(a + b)
    BY <1>1
  <2>5. \A k \in 1..b : a + k \in 1..(a + b)
    BY <1>1
  <2> QED BY <1>1, <2>1, <2>2, <2>3, <2>4, <2>5
<1>5. Sum(Weights(x), a) = Sum(Weights(z), a)
  BY <1>3, <1>4, SumSame
<1>6. Sum(Weights(z), a + b) = Sum(Weights(z), a) + Sum(Weights(y), b)
  BY <1>1, <1>2, <1>4, SumParts
<1> QED BY <1>1, <1>2, <1>3, <1>5, <1>6 DEF z

\* those of one message are its own,
LEMMA TotalOne ==
  ASSUME NEW m \in Message
  PROVE  <<m>> \in Seq(Message) /\ Context!Total(<<m>>) = m.text + m.args
<1>1. <<m>> \in Seq(Message) /\ Len(<<m>>) = 1 /\ <<m>>[1] = m
  OBVIOUS
<1>2. Context!Total(<<m>>) = Sum(Weights(<<m>>), 1) /\ Numbers(Weights(<<m>>), 1)
  BY <1>1, TotalSum
<1>3. Weights(<<m>>)[1] = Context!Tokens(m)
  BY <1>1 DEF Weights
<1>4. /\ Sum(Weights(<<m>>), 1) = Sum(Weights(<<m>>), 1 - 1) + Weights(<<m>>)[1]
      /\ Sum(Weights(<<m>>), 0) = 0
  BY <1>2, SumFacts
<1> QED BY <1>1, <1>2, <1>3, <1>4, TokensNat

\* and no message has none.
LEMMA TotalNone == Context!Total(<<>>) = 0
<1>1. <<>> \in Seq(Message) /\ Len(<<>>) = 0
  OBVIOUS
<1>2. Context!Total(<<>>) = Sum(Weights(<<>>), 0) /\ Numbers(Weights(<<>>), 0)
  BY <1>1, TotalSum
<1> QED BY <1>2, SumFacts

-----------------------------------------------------------------------------
\* The messages lo..j of a stand in b, d places further.
Copies(a, b, lo, j, d) ==
    \A x \in lo..j : /\ b[x + d].type = a[x].type /\ b[x + d].of = a[x].of
                     /\ b[x + d].calls = a[x].calls

\* A result that belongs to a call does so in another list that has the messages between
\* them, one for one.
LEMMA JoinsThere ==
  ASSUME NEW a, NEW b, NEW j \in Nat, NEW d \in Int, NEW lo \in Nat \ {0}, Context!Joins(a, j), lo <= j,
         lo + d >= 1, lo = 1 \/ a[lo].type # "tool",
         Copies(a, b, lo, j, d)
  PROVE  Context!Joins(b, j + d)
<1>0. \A x \in lo..j : /\ b[x + d].type = a[x].type /\ b[x + d].of = a[x].of
                       /\ b[x + d].calls = a[x].calls
  BY DEF Copies
<1>1. a[j].type = "tool"
  BY DEF Context!Joins
<1>2. PICK i \in 1..(j - 1) : /\ a[i].calls # {}
                              /\ \A k \in (i + 1)..j : a[k].type = "tool" /\ a[k].of \in a[i].calls
  BY DEF Context!Joins
<1>3. i >= lo
  <2> SUFFICES ASSUME ~(i >= lo) PROVE FALSE
    OBVIOUS
  <2>1. lo \in (i + 1)..j /\ lo # 1
    BY <1>2
  <2> QED BY <1>2, <2>1
<1>4. i + d \in 1..((j + d) - 1) /\ b[i + d].calls = a[i].calls
  BY <1>0, <1>2, <1>3
<1>5. ASSUME NEW k \in ((i + d) + 1)..(j + d)
      PROVE  b[k].type = "tool" /\ b[k].of \in b[i + d].calls
  <2> DEFINE x == k - d
  <2>1. x \in (i + 1)..j /\ x \in lo..j /\ x + d = k
    BY <1>2, <1>3
  <2> HIDE DEF x
  <2> QED BY <1>0, <1>2, <1>4, <2>1
<1>6. b[j + d].type = "tool"
  <2>1. j \in lo..j
    OBVIOUS
  <2> QED BY <1>0, <1>1, <2>1
<1> QED BY <1>2, <1>4, <1>5, <1>6 DEF Context!Joins

\* The same, from the first message on.
LEMMA JoinsAfter ==
  ASSUME NEW a, NEW b, NEW j \in Nat \ {0}, NEW d \in Nat, Context!Joins(a, j), Copies(a, b, 1, j, d)
  PROVE  Context!Joins(b, j + d)
<1>1. PICK lo \in Nat \ {0} : lo = 1
  OBVIOUS
<1>2. lo <= j /\ lo + d >= 1 /\ d \in Int /\ j \in Nat
  BY <1>1
<1>3. Copies(a, b, lo, j, d)
  BY <1>1
<1> QED BY <1>1, <1>2, <1>3, JoinsThere

\* n messages go on alike behind i in a and behind k in b.
GoOn(a, i, b, k, n) == \A x \in 1..n : b[k + x].type = a[i + x].type /\ b[k + x].of = a[i + x].of
Stops(a, p) == p = Len(a) \/ a[p + 1].type # "tool"

\* The results that a call has are those right behind it, in every list that goes on alike
\* until the first message that is no result.
LEMMA AnsweredWithin ==
  ASSUME NEW a, NEW b, NEW i \in Nat, NEW k \in Nat, NEW n \in Nat, Len(a) \in Nat, Len(b) \in Nat,
         k + n <= Len(b), b[k].calls = a[i].calls, GoOn(a, i, b, k, n), Stops(a, i + n)
  PROVE  Context!Answered(a, i) \subseteq Context!Answered(b, k)
<1> DEFINE A == {j \in (i + 1)..Len(a) : \A l \in (i + 1)..j : a[l].type = "tool" /\ a[l].of \in a[i].calls}
           B == {j \in (k + 1)..Len(b) : \A l \in (k + 1)..j : b[l].type = "tool" /\ b[l].of \in b[k].calls}
<1>0. /\ \A x \in 1..n : b[k + x].type = a[i + x].type /\ b[k + x].of = a[i + x].of
      /\ i + n = Len(a) \/ a[(i + n) + 1].type # "tool"
  BY DEF GoOn, Stops
<1>1. ASSUME NEW j \in A PROVE \E y \in B : b[y].of = a[j].of
  <2>1. j \in (i + 1)..Len(a) /\ \A l \in (i + 1)..j : a[l].type = "tool" /\ a[l].of \in a[i].calls
    OBVIOUS
  <2> HIDE DEF A, B
  <2>2. j <= i + n
    <3> SUFFICES ASSUME ~(j <= i + n) PROVE FALSE
      OBVIOUS
    <3>1. (i + n) + 1 \in (i + 1)..j /\ i + n # Len(a)
      BY <2>1
    <3> QED BY <1>0, <2>1, <3>1
  <2>3. PICK x \in 1..n : j = i + x
    <3>1. j - i \in 1..n /\ j = i + (j - i)
      BY <2>1, <2>2
    <3> QED BY <3>1
  <2>4. k + x \in (k + 1)..Len(b)
    BY <2>3
  <2>5. \A l \in (k + 1)..(k + x) : b[l].type = "tool" /\ b[l].of \in b[k].calls
    <3> TAKE l \in (k + 1)..(k + x)
    <3>1. PICK v \in 1..x : l = k + v
      <4>1. l - k \in 1..x /\ l = k + (l - k)
        BY <2>3
      <4> QED BY <4>1
    <3>2. v \in 1..n /\ i + v \in (i + 1)..j
      BY <2>3, <3>1
    <3> QED BY <1>0, <2>1, <3>1, <3>2
  <2>6. k + x \in B
    BY <2>4, <2>5 DEF B
  <2>7. b[k + x].of = a[j].of
    BY <1>0, <2>3
  <2> QED BY <2>6, <2>7
<1> QED BY <1>1 DEF Context!Answered

\* A call has the same results wherever its messages stand, if what follows them is no result.
LEMMA AnsweredAlike ==
  ASSUME NEW a, NEW b, NEW i \in Nat, NEW k \in Nat, NEW n \in Nat, Len(a) \in Nat, Len(b) \in Nat,
         i + n <= Len(a), k + n <= Len(b), b[k].calls = a[i].calls,
         GoOn(a, i, b, k, n), Stops(a, i + n), Stops(b, k + n)
  PROVE  Context!Answered(a, i) = Context!Answered(b, k)
<1>1. Context!Answered(a, i) \subseteq Context!Answered(b, k)
  BY AnsweredWithin
<1>2. Context!Answered(b, k) \subseteq Context!Answered(a, i)
  <2>1. GoOn(b, k, a, i, n)
    BY DEF GoOn
  <2> QED BY <2>1, AnsweredWithin
<1> QED BY <1>1, <1>2

\* A conversation: it starts with a question, and each result has its call.
Whole(c) ==
    /\ c \in Seq(Message) /\ Len(c) >= 1
    /\ c[1].type = "human" /\ c[1].calls = {} /\ c[1].args = 0
    /\ \A j \in 1..Len(c) : c[j].type = "tool" => Context!Joins(c, j)

\* A unit: a message that is no result, and the results right behind it.
LEMMA UnitFacts ==
  ASSUME NEW ms, Whole(ms), NEW j \in 1..Len(ms), ~Context!Joins(ms, j)
  PROVE  \E e \in j..Len(ms) :
            /\ Context!Unit(ms, j) \in Seq(Message) /\ Len(Context!Unit(ms, j)) = (e - j) + 1
            /\ \A x \in 1..((e - j) + 1) : Context!Unit(ms, j)[x] = ms[(j - 1) + x]
            /\ ms[j].type # "tool" /\ (e = Len(ms) \/ ms[e + 1].type # "tool")
            /\ j = 1 => e = 1
<1> DEFINE L == Len(ms)
           T == {e \in j..L : \A k \in (j + 1)..e : Context!Joins(ms, k)}
<1>1. ms \in Seq(Message) /\ L \in Nat
  BY DEF Whole
<1>2. T \subseteq 0..L /\ j \in T
  BY <1>1
<1>3. PICK e \in T : \A k \in T : e >= k
  <2> HIDE DEF T
  <2> QED BY <1>1, <1>2, GreatestOf
<1>4. Context!Max(T) \in T /\ \A k \in T : Context!Max(T) >= k
  <2> HIDE DEF T
  <2> QED BY <1>3 DEF Context!Max
<1>5. Context!Max(T) = e
  BY <1>1, <1>3, <1>4
<1>6. Context!Unit(ms, j) = SubSeq(ms, j, e)
  BY <1>5 DEF Context!Unit
<1>7. e \in j..L /\ \A k \in (j + 1)..e : Context!Joins(ms, k)
  BY <1>3
<1>8. /\ SubSeq(ms, j, e) \in Seq(Message) /\ Len(SubSeq(ms, j, e)) = (e - j) + 1
      /\ \A x \in 1..((e - j) + 1) : SubSeq(ms, j, e)[x] = ms[(j - 1) + x]
  <2>1. \A x \in 1..L : ms[x] \in Message
    BY <1>1
  <2>2. \A x \in j..e : x \in 1..L
    BY <1>1, <1>7
  <2> HIDE DEF T, L
  <2> QED BY <1>1, <1>7, <2>1, <2>2
<1>9. ms[j].type # "tool"
  BY DEF Whole
<1>10. e = L \/ ms[e + 1].type # "tool"
  <2> SUFFICES ASSUME e # L, ms[e + 1].type = "tool" PROVE FALSE
    OBVIOUS
  <2>1. e + 1 \in 1..L /\ e + 1 \in j..L
    BY <1>1, <1>7
  <2>2. Context!Joins(ms, e + 1)
    BY <2>1 DEF Whole
  <2>3. \A k \in (j + 1)..(e + 1) : k = e + 1 \/ k \in (j + 1)..e
    BY <1>1, <1>7
  <2>4. e + 1 \in T
    BY <1>7, <2>1, <2>2, <2>3
  <2> HIDE DEF T
  <2> QED BY <1>1, <1>3, <1>7, <2>4
<1>11. j = 1 => e = 1
  <2> SUFFICES ASSUME j = 1, e # 1 PROVE FALSE
    OBVIOUS
  <2>1. Context!Joins(ms, 2)
    BY <1>1, <1>7
  <2>2. PICK i \in 1..(2 - 1) : ms[i].calls # {}
    BY <2>1 DEF Context!Joins
  <2> QED BY <2>2 DEF Whole
<1> QED BY <1>6, <1>7, <1>8, <1>9, <1>10, <1>11

-----------------------------------------------------------------------------
\* Messages with every result behind its call, and every call with the results that it
\* has in ms.
Tied(ms, x) ==
    /\ x \in Seq(Message)
    /\ \A j \in 1..Len(x) : x[j].type = "tool" => Context!Joins(x, j)
    /\ \A i \in 1..Len(x) : x[i].calls # {} =>
          \E k \in 1..Len(ms) : /\ Context!Same(ms[k], x[i])
                                /\ Context!Answered(ms, k) = Context!Answered(x, i)

\* The empty pack is tied,
LEMMA TiedNone == \A ms : Tied(ms, <<>>)
  BY DEF Tied

\* and so is the whole conversation.
LEMMA TiedSelf == ASSUME NEW ms, Whole(ms) PROVE Tied(ms, ms)
  BY DEF Tied, Whole, Context!Same

\* A tied pack does not begin with a result.
LEMMA NoToolFirst ==
  ASSUME NEW ms, NEW x, Tied(ms, x), Len(x) >= 1
  PROVE  x[1].type # "tool"
<1> SUFFICES ASSUME x[1].type = "tool" PROVE FALSE
  OBVIOUS
<1>1. Context!Joins(x, 1)
  BY DEF Tied
<1> QED BY <1>1 DEF Context!Joins

\* One unit more in front, cut or whole.
LEMMA TiedFront ==
  ASSUME NEW ms, Whole(ms), NEW d \in Nat, NEW n \in Nat \ {0}, d + n <= Len(ms),
         ms[d + 1].type # "tool", d + n = Len(ms) \/ ms[d + n + 1].type # "tool",
         NEW u \in Seq(Message), Len(u) = n, \A x \in 1..n : Context!Same(ms[d + x], u[x]),
         NEW t, Tied(ms, t)
  PROVE  Tied(ms, u \o t)
<1> DEFINE z == u \o t
           L == Len(ms)
           m == Len(t)
<1>1. /\ z \in Seq(Message) /\ Len(z) = n + m /\ m \in Nat
      /\ \A x \in 1..n : z[x] = u[x]
      /\ \A x \in 1..m : z[n + x] = t[x]
  <2>1. t \in Seq(Message)
    BY DEF Tied
  <2> QED BY <2>1
<1>2. L \in Nat
  BY DEF Whole
<1>3. \A x \in 1..n : /\ z[x].type = ms[d + x].type /\ z[x].of = ms[d + x].of
                      /\ z[x].calls = ms[d + x].calls /\ Context!Same(ms[d + x], z[x])
  BY <1>1 DEF Context!Same
<1>4. m = 0 \/ z[n + 1].type # "tool"
  BY <1>1, NoToolFirst
<1> HIDE DEF z, L, m
<1>5. ASSUME NEW j \in 1..(n + m), z[j].type = "tool" PROVE Context!Joins(z, j)
  <2>1. CASE j <= n
    <3>1. j \in 1..n /\ d + j \in 1..L /\ ms[d + j].type = "tool"
      BY <1>2, <1>3, <1>5, <2>1 DEF L
    <3>2. Context!Joins(ms, d + j)
      BY <3>1 DEF Whole, L
    <3>3. Copies(ms, z, d + 1, d + j, -d)
      <4>1. ASSUME NEW x \in (d + 1)..(d + j)
            PROVE  /\ z[x + (-d)].type = ms[x].type /\ z[x + (-d)].of = ms[x].of
                   /\ z[x + (-d)].calls = ms[x].calls
        <5>1. x + (-d) \in 1..n /\ d + (x + (-d)) = x
          BY <3>1
        <5> QED BY <1>3, <5>1
      <4> QED BY <4>1 DEF Copies
    <3>4. Context!Joins(z, (d + j) + (-d))
      BY <3>1, <3>2, <3>3, JoinsThere
    <3>5. (d + j) + (-d) = j
      BY <3>1
    <3> QED BY <3>4, <3>5
  <2>2. CASE j > n
    <3>1. j - n \in 1..m /\ n + (j - n) = j /\ t[j - n].type = "tool"
      BY <1>1, <1>5, <2>2
    <3>2. Context!Joins(t, j - n)
      BY <3>1 DEF Tied, m
    <3>3. Copies(t, z, 1, j - n, n)
      <4>1. \A x \in 1..(j - n) : x \in 1..m /\ x + n = n + x
        BY <1>1, <3>1
      <4> QED BY <1>1, <4>1 DEF Copies
    <3>4. Context!Joins(z, (j - n) + n)
      <4>1. j - n \in Nat \ {0} /\ n \in Nat
        BY <3>1
      <4> QED BY <4>1, <3>2, <3>3, JoinsAfter
    <3>5. (j - n) + n = j
      BY <3>1
    <3> QED BY <3>4, <3>5
  <2> QED BY <1>1, <2>1, <2>2
<1>6. ASSUME NEW i \in 1..(n + m), z[i].calls # {}
      PROVE  \E k \in 1..L : /\ Context!Same(ms[k], z[i])
                             /\ Context!Answered(ms, k) = Context!Answered(z, i)
  <2>1. CASE i <= n
    <3>1. i \in 1..n /\ d + i \in 1..L
      BY <1>2, <2>1 DEF L
    <3>2. PICK r \in Nat : i + r = n
      <4>1. n - i \in Nat /\ i + (n - i) = n
        BY <3>1
      <4> QED BY <4>1
    <3>3. PICK k \in 1..L : k = d + i
      BY <3>1
    <3>4. GoOn(ms, k, z, i, r)
      <4>1. ASSUME NEW x \in 1..r
            PROVE  z[i + x].type = ms[k + x].type /\ z[i + x].of = ms[k + x].of
        <5>1. i + x \in 1..n /\ k + x = d + (i + x)
          BY <3>1, <3>2, <3>3
        <5> QED BY <1>3, <5>1
      <4> QED BY <4>1 DEF GoOn
    <3>5. k + r = d + n /\ k \in Nat /\ i \in Nat
      BY <3>1, <3>2, <3>3
    <3>6. Stops(ms, k + r)
      BY <3>5 DEF Stops
    <3>7. Stops(z, i + r)
      BY <1>1, <1>4, <3>2 DEF Stops
    <3>8. Len(ms) \in Nat /\ Len(z) \in Nat /\ k + r <= Len(ms) /\ i + r <= Len(z)
      BY <1>1, <1>2, <3>2, <3>5 DEF L
    <3>9. z[i].calls = ms[k].calls /\ Context!Same(ms[k], z[i])
      BY <1>3, <3>1, <3>3
    <3>10. Context!Answered(ms, k) = Context!Answered(z, i)
      BY <3>4, <3>5, <3>6, <3>7, <3>8, <3>9, AnsweredAlike
    <3> QED BY <3>9, <3>10
  <2>2. CASE i > n
    <3>1. PICK y \in 1..m : i = n + y
      <4>1. i - n \in 1..m /\ i = n + (i - n)
        BY <1>1, <2>2
      <4> QED BY <4>1
    <3>2. z[i] = t[y]
      BY <1>1, <3>1
    <3>3. PICK k \in 1..L : /\ Context!Same(ms[k], t[y])
                            /\ Context!Answered(ms, k) = Context!Answered(t, y)
      BY <1>6, <3>1, <3>2 DEF Tied, m, L
    <3>4. PICK r \in Nat : y + r = m
      <4>1. m - y \in Nat /\ y + (m - y) = m
        BY <1>1, <3>1
      <4> QED BY <4>1
    <3>5. GoOn(t, y, z, i, r)
      <4>1. ASSUME NEW x \in 1..r PROVE z[i + x] = t[y + x]
        <5>1. m \in Nat
          BY <1>1
        <5>2. y + x \in 1..m /\ n + (y + x) = i + x
          BY <3>1, <3>4, <5>1
        <5> QED BY <1>1, <5>2
      <4> QED BY <4>1 DEF GoOn
    <3>6. Len(t) = m /\ m \in Nat /\ y \in Nat /\ i \in Nat /\ i + r = n + m
      <4>1. m \in Nat
        BY <1>1
      <4>2. Len(t) = m
        BY DEF m
      <4>3. y \in Nat /\ i \in Nat /\ i + r = n + m
        BY <3>1, <3>4, <4>1
      <4> QED BY <4>1, <4>2, <4>3
    <3>7. Len(z) = i + r /\ Len(z) \in Nat
      BY <1>1, <3>6
    <3>9. Stops(t, y + r) /\ Stops(z, i + r) /\ y + r <= Len(t) /\ i + r <= Len(z)
      BY <3>4, <3>6, <3>7 DEF Stops
    <3>8. Context!Answered(t, y) = Context!Answered(z, i)
      <4>1. z[i].calls = t[y].calls
        BY <3>2
      <4>2. Len(t) \in Nat /\ Len(z) \in Nat /\ y \in Nat /\ i \in Nat /\ r \in Nat
        BY <3>6, <3>7
      <4> QED BY <3>5, <3>9, <4>1, <4>2, AnsweredAlike
    <3> QED BY <3>2, <3>3, <3>8
  <2> QED BY <1>1, <2>1, <2>2
<1> QED BY <1>1, <1>5, <1>6 DEF Tied, z, L

-----------------------------------------------------------------------------
\* A round keeps a conversation whole.
LEMMA FitConstants ==
  /\ Floor \in Nat \ {0} /\ Budget \subseteq Nat /\ MaxRounds \in Nat
  /\ \A b \in Budget : b - (b * 65) \div 100 >= Floor
  /\ TextSize \subseteq Nat /\ Args \subseteq Nat /\ System \subseteq Nat
  BY DialogueAssumption DEF Context!FitAssumption

\* A message alone has no result to put behind a call.
LEMMA OneSound ==
  ASSUME NEW m \in Message, m.type # "tool"
  PROVE  /\ <<m>> \in Seq(Message)
         /\ \A j \in 1..Len(<<m>>) : <<m>>[j].type = "tool" => Context!Joins(<<m>>, j)
<1>1. <<m>> \in Seq(Message) /\ Len(<<m>>) = 1 /\ <<m>>[1] = m
  OBVIOUS
<1>2. \A j \in 1..1 : j = 1
  OBVIOUS
<1> QED BY <1>1, <1>2

\* The pieces a conversation is made of are sound,
LEMMA PieceFacts ==
  ASSUME NEW p \in Context!Piece
  PROVE  /\ p \in Seq(Message)
         /\ \A j \in 1..Len(p) : p[j].type = "tool" => Context!Joins(p, j)
<1>1. \A n \in TextSize : Context!Human(n) \in Message /\ Context!AI(n) \in Message
  BY FitConstants DEF Context!Human, Context!AI, Message
<1>2. \A a \in Args, ids \in SUBSET {1, 2} : Context!Calls(a, ids) \in Message
  BY FitConstants DEF Context!Calls, Message
<1>3. \A n \in TextSize, i \in {1, 2} : Context!Tool(n, i) \in Message
  BY FitConstants DEF Context!Tool, Message
<1>4. \A n \in TextSize : Context!Human(n).type # "tool" /\ Context!AI(n).type # "tool"
  BY DEF Context!Human, Context!AI
<1>5. \A a \in Args, ids \in SUBSET {1, 2} :
         Context!Calls(a, ids).type # "tool" /\ Context!Calls(a, ids).calls = ids
  BY DEF Context!Calls
<1>6. \A n \in TextSize, i \in {1, 2} :
         Context!Tool(n, i).type = "tool" /\ Context!Tool(n, i).of = i
  BY DEF Context!Tool
<1>7. ASSUME NEW n \in TextSize, p = <<Context!Human(n)>> \/ p = <<Context!AI(n)>>
      PROVE  /\ p \in Seq(Message)
             /\ \A j \in 1..Len(p) : p[j].type = "tool" => Context!Joins(p, j)
  BY <1>1, <1>4, <1>7, OneSound
<1>8. ASSUME NEW a \in Args, p = <<Context!Calls(a, {1, 2})>>
      PROVE  /\ p \in Seq(Message)
             /\ \A j \in 1..Len(p) : p[j].type = "tool" => Context!Joins(p, j)
  <2>1. {1, 2} \in SUBSET {1, 2}
    OBVIOUS
  <2> QED BY <1>2, <1>5, <1>8, <2>1, OneSound
<1>9. ASSUME NEW a \in Args, NEW n \in TextSize, p = <<Context!Calls(a, {1}), Context!Tool(n, 1)>>
      PROVE  /\ p \in Seq(Message)
             /\ \A j \in 1..Len(p) : p[j].type = "tool" => Context!Joins(p, j)
  <2>1. /\ p \in Seq(Message) /\ Len(p) = 2 /\ p[1].type # "tool" /\ p[1].calls = {1}
        /\ p[2].type = "tool" /\ p[2].of = 1
    BY <1>2, <1>3, <1>5, <1>6, <1>9
  <2>2. Context!Joins(p, 2)
    <3>1. 1 \in 1..(2 - 1) /\ \A k \in (1 + 1)..2 : k = 2
      OBVIOUS
    <3> QED BY <2>1, <3>1 DEF Context!Joins
  <2>3. \A j \in 1..Len(p) : j = 1 \/ j = 2
    BY <2>1
  <2> QED BY <2>1, <2>2, <2>3
<1>10. ASSUME NEW a \in Args, NEW n \in TextSize, NEW m \in TextSize,
              p = <<Context!Calls(a, {1, 2}), Context!Tool(n, 1), Context!Tool(m, 2)>>
       PROVE  /\ p \in Seq(Message)
              /\ \A j \in 1..Len(p) : p[j].type = "tool" => Context!Joins(p, j)
  <2>1. /\ p \in Seq(Message) /\ Len(p) = 3 /\ p[1].type # "tool" /\ p[1].calls = {1, 2}
        /\ p[2].type = "tool" /\ p[2].of = 1 /\ p[3].type = "tool" /\ p[3].of = 2
    BY <1>2, <1>3, <1>5, <1>6, <1>10
  <2>2. Context!Joins(p, 2) /\ Context!Joins(p, 3)
    <3>1. /\ 1 \in 1..(2 - 1) /\ \A k \in (1 + 1)..2 : k = 2
          /\ 1 \in 1..(3 - 1) /\ \A k \in (1 + 1)..3 : k = 2 \/ k = 3
      OBVIOUS
    <3> QED BY <2>1, <3>1 DEF Context!Joins
  <2>3. \A j \in 1..Len(p) : j = 1 \/ j = 2 \/ j = 3
    BY <2>1
  <2> QED BY <2>1, <2>2, <2>3
<1> QED BY <1>7, <1>8, <1>9, <1>10 DEF Context!Piece

\* one more of them keeps it whole,
LEMMA WholeMore ==
  ASSUME NEW c, Whole(c), NEW p \in Context!Piece
  PROVE  Whole(c \o p)
<1> DEFINE z == c \o p
           n == Len(c)
           m == Len(p)
<1>1. p \in Seq(Message) /\ \A j \in 1..m : p[j].type = "tool" => Context!Joins(p, j)
  BY PieceFacts
<1>2. /\ z \in Seq(Message) /\ Len(z) = n + m /\ n \in Nat /\ m \in Nat /\ n >= 1
      /\ \A x \in 1..n : z[x] = c[x]
      /\ \A x \in 1..m : z[n + x] = p[x]
  BY <1>1 DEF Whole
<1>3. \A j \in 1..n : c[j].type = "tool" => Context!Joins(c, j)
  BY DEF Whole
<1>4. z[1] = c[1]
  BY <1>2
<1> HIDE DEF z, n, m
<1>5. ASSUME NEW j \in 1..(n + m), z[j].type = "tool" PROVE Context!Joins(z, j)
  <2>1. CASE j <= n
    <3>1. j \in 1..n /\ Context!Joins(c, j)
      BY <1>2, <1>3, <1>5, <2>1
    <3>2. Copies(c, z, 1, j, 0)
      <4>1. \A x \in 1..j : x \in 1..n /\ x + 0 = x
        BY <3>1, <1>2
      <4> QED BY <1>2, <4>1 DEF Copies
    <3>3. Context!Joins(z, j + 0)
      <4>1. j \in Nat \ {0} /\ 0 \in Nat
        BY <3>1
      <4> QED BY <3>1, <3>2, <4>1, JoinsAfter
    <3> QED BY <3>1, <3>3
  <2>2. CASE j > n
    <3>1. j - n \in 1..m /\ n + (j - n) = j
      BY <1>2, <2>2
    <3>2. Context!Joins(p, j - n)
      BY <1>1, <1>2, <1>5, <3>1 DEF m
    <3>3. Copies(p, z, 1, j - n, n)
      <4>1. \A x \in 1..(j - n) : x \in 1..m /\ x + n = n + x
        BY <1>2, <3>1
      <4> QED BY <1>2, <4>1 DEF Copies
    <3>4. Context!Joins(z, (j - n) + n)
      <4>1. j - n \in Nat \ {0} /\ n \in Nat
        BY <1>2, <3>1
      <4> QED BY <4>1, <3>2, <3>3, JoinsAfter
    <3>5. (j - n) + n = j
      BY <1>2
    <3> QED BY <3>4, <3>5
  <2> QED BY <1>2, <2>1, <2>2
<1> QED BY <1>2, <1>4, <1>5 DEF Whole, z

\* The conversations that are whole, and those that a round more makes of some.
Conversations == {x \in Seq(Message) : Whole(x)}
More(X)       == {c \o p : c \in X, p \in Context!Piece}
Questions     == {<<Context!Human(n)>> : n \in TextSize}

\* for all the conversations of a set,
LEMMA MoreWhole ==
  ASSUME NEW X, X \subseteq Conversations
  PROVE  More(X) \subseteq Conversations
<1> SUFFICES ASSUME NEW y \in More(X) PROVE y \in Conversations
  OBVIOUS
<1>1. PICK c \in X, p \in Context!Piece : y = c \o p
  BY DEF More
<1>2. Whole(y)
  BY <1>1, WholeMore DEF Conversations
<1> QED BY <1>2 DEF Conversations, Whole

\* and a question alone is whole.
LEMMA QuestionsWhole == Questions \subseteq Conversations
<1>1. ASSUME NEW n \in TextSize PROVE Whole(<<Context!Human(n)>>)
  <2>1. /\ Context!Human(n) \in Message /\ Context!Human(n).type = "human"
        /\ Context!Human(n).calls = {} /\ Context!Human(n).args = 0
    BY FitConstants DEF Context!Human, Message
  <2> QED BY <2>1 DEF Whole
<1>2. \A x \in Questions : Whole(x) /\ x \in Seq(Message)
  BY <1>1 DEF Whole, Questions
<1> QED BY <1>2 DEF Conversations

\* The recursion of the talks, and that it has a function that meets it.
Talking(f) == f = [k \in 0..MaxRounds |-> IF k = 0 THEN Questions ELSE More(f[k - 1])]

\* Talks is the function that its recursion defines.
LEMMA TalksAre == Talking(Context!Talks)
<1> DEFINE S == SUBSET Conversations
           g == [k \in 1..MaxRounds |-> [X \in S |-> More(X)]]
<1>1. MaxRounds \in Nat
  BY FitConstants
<1>2. Questions \in S /\ \A X \in S : More(X) \in S
  BY QuestionsWhole, MoreWhole
<1>3. g \in [1..MaxRounds -> [S -> S]]
  BY <1>2
<1>4. \A k \in 1..MaxRounds : \A X \in S : g[k][X] = More(X)
  OBVIOUS
<1> HIDE DEF S, g
<1>5. PICK f : Unrolls(f, S, MaxRounds, Questions, g)
  BY <1>1, <1>2, <1>3, Recursion
<1>6. /\ f \in [0..MaxRounds -> S] /\ f[0] = Questions
      /\ \A k \in 1..MaxRounds : f[k] = g[k][f[k - 1]]
  BY <1>5 DEF Unrolls
<1>7. ASSUME NEW k \in 0..MaxRounds PROVE f[k] = IF k = 0 THEN Questions ELSE More(f[k - 1])
  <2>1. CASE k = 0
    BY <1>6, <2>1
  <2>2. CASE k # 0
    <3>1. k \in 1..MaxRounds /\ k - 1 \in 0..MaxRounds
      BY <1>1, <2>2
    <3>2. f[k - 1] \in S /\ f[k] = g[k][f[k - 1]]
      BY <1>6, <3>1
    <3> QED BY <1>4, <2>2, <3>1, <3>2
  <2> QED BY <2>1, <2>2
<1>8. Talking(f)
  BY <1>6, <1>7 DEF Talking
<1> DEFINE t == CHOOSE h : Talking(h)
<1>9. Talking(t)
  BY <1>8
<1>10. Context!Talks = t
  BY DEF Context!Talks, Talking, Questions, More
<1> QED BY <1>9, <1>10

\* Every conversation of the model is whole.
LEMMA TalksWhole ==
  ASSUME NEW r \in 0..MaxRounds, NEW c \in Context!Talks[r]
  PROVE  Whole(c)
<1> DEFINE t == Context!Talks
           B == {k \in 0..MaxRounds : ~(t[k] \subseteq Conversations)}
<1>1. MaxRounds \in Nat
  BY FitConstants
<1>2. t = [k \in 0..MaxRounds |-> IF k = 0 THEN Questions ELSE More(t[k - 1])]
  BY TalksAre DEF Talking
<1> HIDE DEF t
<1>3. t[0] = Questions
  BY <1>1, <1>2
<1>4. \A k \in 1..MaxRounds : t[k] = More(t[k - 1])
  BY <1>1, <1>2
<1>5. B = {}
  <2>1. B \subseteq 0..MaxRounds /\ 0 \notin B
    BY <1>3, QuestionsWhole
  <2>2. \A k \in 1..MaxRounds : k - 1 \notin B => k \notin B
    <3> TAKE k \in 1..MaxRounds
    <3>1. k - 1 \in 0..MaxRounds /\ t[k] = More(t[k - 1])
      BY <1>1, <1>4
    <3> QED BY <3>1, MoreWhole
  <2> HIDE DEF B
  <2> QED BY <1>1, <2>1, <2>2, UpTo
<1>6. t[r] \subseteq Conversations
  BY <1>5
<1> QED BY <1>6 DEF Conversations, t

-----------------------------------------------------------------------------
\* What cuts make of messages: the same ones, with other texts.
Versions(u) == {x \in Seq(Message) : Len(x) = Len(u) /\ \A i \in 1..Len(u) : Context!Same(u[i], x[i])}

\* A cut shortens the largest message, and no other.
LEMMA CutMessages ==
  ASSUME NEW x \in Seq(Message), NEW limit \in Int
  PROVE  LET i == Context!Largest(x)
             y == Context!Cut(x, limit)
         IN  /\ y \in Seq(Message) /\ Len(y) = Len(x)
             /\ \A k \in 1..Len(x) : k # i => y[k] = x[k]
             /\ i \in 1..Len(x) =>
                  /\ Context!Same(x[i], y[i])
                  /\ y[i].text <= Floor \/ y[i].text <= Context!Tokens(x[i]) - (Context!Total(x) - limit)
<1> DEFINE i    == Context!Largest(x)
           w    == Context!Tokens(x[i]) - (Context!Total(x) - limit)
           goal == Context!Max({Floor, w})
           y    == Context!Cut(x, limit)
           L    == Len(x)
<1>1. y = [x EXCEPT ![i] = [x[i] EXCEPT !.text = Context!Min({x[i].text, goal})]]
  BY DEF Context!Cut
<1>2. L \in Nat /\ x \in [1..L -> Message] /\ DOMAIN x = 1..L
  OBVIOUS
<1>3. CASE i \in 1..L
  <2> DEFINE small == Context!Min({x[i].text, goal})
  <2>1. x[i] \in Message /\ w \in Int
    <3>1. x[i] \in Message
      BY <1>2, <1>3
    <3>2. Context!Tokens(x[i]) \in Nat /\ Context!Total(x) \in Nat
      BY <3>1, TokensNat, TotalSum
    <3> HIDE DEF i
    <3> QED BY <3>1, <3>2
  <2> HIDE DEF w, i
  <2>2. goal \in Nat /\ (goal = Floor \/ goal = w)
    BY <2>1, FitConstants DEF Context!Max
  <2> HIDE DEF goal
  <2>3. small \in Nat /\ small <= goal
    <3>1. x[i].text \in Nat
      BY <2>1 DEF Message
    <3>2. CASE x[i].text <= goal
      <4>1. small = x[i].text
        BY <2>2, <3>1, <3>2 DEF Context!Min
      <4> QED BY <2>2, <3>1, <3>2, <4>1
    <3>3. CASE ~(x[i].text <= goal)
      <4>1. small = goal
        BY <2>2, <3>1, <3>3 DEF Context!Min
      <4> QED BY <2>2, <4>1
    <3> QED BY <3>2, <3>3
  <2> HIDE DEF small
  <2>4. [x[i] EXCEPT !.text = small] \in Message /\ [x[i] EXCEPT !.text = small].text = small
        /\ Context!Same(x[i], [x[i] EXCEPT !.text = small])
    BY <2>1, <2>3 DEF Message, Context!Same
  <2>5. y = [x EXCEPT ![i] = [x[i] EXCEPT !.text = small]]
    BY <1>1 DEF small
  <2> HIDE DEF y, L
  <2>6. y \in [1..L -> Message] /\ y[i] = [x[i] EXCEPT !.text = small]
        /\ \A k \in 1..L : k # i => y[k] = x[k]
    BY <1>2, <1>3, <2>4, <2>5
  <2>7. y \in Seq(Message) /\ Len(y) = L
    BY <1>2, <2>6
  <2>8. y[i].text <= Floor \/ y[i].text <= w
    BY <2>2, <2>3, <2>4, <2>6
  <2> QED BY <2>4, <2>6, <2>7, <2>8 DEF y, i, w, L
<1>4. CASE i \notin 1..L
  <2> HIDE DEF i, y, goal, L
  <2>1. y = x
    BY <1>1, <1>2, <1>4
  <2> QED BY <1>4, <2>1 DEF i, y, L
<1> QED BY <1>3, <1>4

\* A cut is a version of the unit.
LEMMA CutVersion ==
  ASSUME NEW u, NEW x \in Versions(u), NEW limit \in Int
  PROVE  Context!Cut(x, limit) \in Versions(u)
<1> DEFINE y == Context!Cut(x, limit)
           i == Context!Largest(x)
<1>1. x \in Seq(Message) /\ Len(x) = Len(u) /\ \A k \in 1..Len(u) : Context!Same(u[k], x[k])
  BY DEF Versions
<1>2. /\ y \in Seq(Message) /\ Len(y) = Len(x)
      /\ \A k \in 1..Len(x) : k # i => y[k] = x[k]
      /\ i \in 1..Len(x) => Context!Same(x[i], y[i])
  BY <1>1, CutMessages
<1> HIDE DEF y, i
<1>3. ASSUME NEW k \in 1..Len(u) PROVE Context!Same(u[k], y[k])
  <2>1. CASE k = i
    BY <1>1, <1>2, <2>1 DEF Context!Same
  <2>2. CASE k # i
    BY <1>1, <1>2, <2>2
  <2> QED BY <2>1, <2>2
<1> QED BY <1>1, <1>2, <1>3 DEF Versions, y

\* The cuts one after the other.
OneCut(x, limit) == IF Context!Total(x) <= limit THEN x ELSE Context!Cut(x, limit)
Cutting(f, u, limit) == f = [k \in 0..12 |-> IF k = 0 THEN u ELSE OneCut(f[k - 1], limit)]

\* Shrink is the last of at most twelve cuts.
LEMMA CutsAre ==
  ASSUME NEW u \in Seq(Message), NEW limit \in Int
  PROVE  \E f : /\ f \in [0..12 -> Versions(u)] /\ f[0] = u
                /\ \A k \in 1..12 : f[k] = OneCut(f[k - 1], limit)
                /\ Context!Shrink(u, limit) = IF limit > 0 /\ Context!Total(f[12]) <= limit
                                              THEN f[12] ELSE <<>>
<1> DEFINE S == Versions(u)
           g == [k \in 1..12 |-> [x \in S |-> OneCut(x, limit)]]
<1>1. u \in S
  BY DEF Versions, Context!Same
<1>2. \A x \in S : OneCut(x, limit) \in S
  BY CutVersion DEF OneCut
<1>3. g \in [1..12 -> [S -> S]]
  BY <1>2
<1>4. \A k \in 1..12 : \A x \in S : g[k][x] = OneCut(x, limit)
  OBVIOUS
<1> HIDE DEF S, g
<1>5. PICK h : Unrolls(h, S, 12, u, g)
  <2>1. 12 \in Nat
    OBVIOUS
  <2> QED BY <1>1, <1>3, <2>1, Recursion
<1>6. /\ h \in [0..12 -> S] /\ h[0] = u
      /\ \A k \in 1..12 : h[k] = g[k][h[k - 1]]
  BY <1>5 DEF Unrolls
<1>7. ASSUME NEW k \in 0..12 PROVE h[k] = IF k = 0 THEN u ELSE OneCut(h[k - 1], limit)
  <2>1. CASE k = 0
    BY <1>6, <2>1
  <2>2. CASE k # 0
    <3>1. k \in 1..12 /\ k - 1 \in 0..12
      BY <2>2
    <3>2. h[k - 1] \in S /\ h[k] = g[k][h[k - 1]]
      BY <1>6, <3>1
    <3> QED BY <1>4, <2>2, <3>1, <3>2
  <2> QED BY <2>1, <2>2
<1>8. Cutting(h, u, limit)
  BY <1>6, <1>7 DEF Cutting
<1> DEFINE f == CHOOSE c : Cutting(c, u, limit)
<1>9. Cutting(f, u, limit)
  BY <1>8
<1>10. Context!Shrink(u, limit) = IF limit > 0 /\ Context!Total(f[12]) <= limit THEN f[12] ELSE <<>>
  BY DEF Context!Shrink, Cutting, OneCut
<1> HIDE DEF f
<1>11. DOMAIN f = 0..12 /\ f[0] = u /\ \A k \in 1..12 : f[k] = OneCut(f[k - 1], limit)
  BY <1>9 DEF Cutting
<1> DEFINE B == {k \in 0..12 : f[k] \notin S}
<1>12. B = {}
  <2>1. B \subseteq 0..12 /\ 0 \notin B /\ 12 \in Nat
    BY <1>1, <1>11
  <2>2. \A k \in 1..12 : k - 1 \notin B => k \notin B
    <3> TAKE k \in 1..12
    <3>1. k - 1 \in 0..12 /\ f[k] = OneCut(f[k - 1], limit)
      BY <1>11
    <3> QED BY <1>2, <3>1
  <2> HIDE DEF B
  <2> QED BY <2>1, <2>2, UpTo
<1>13. f \in [0..12 -> S]
  BY <1>9, <1>12 DEF Cutting
<1> QED BY <1>10, <1>11, <1>13 DEF S

\* What is left of a unit is a version that fits.
LEMMA ShrinkFacts ==
  ASSUME NEW u \in Seq(Message), NEW limit \in Int, Context!Shrink(u, limit) # <<>>
  PROVE  /\ Context!Shrink(u, limit) \in Versions(u)
         /\ Context!Total(Context!Shrink(u, limit)) <= limit
<1>1. PICK f : /\ f \in [0..12 -> Versions(u)]
               /\ Context!Shrink(u, limit) = IF limit > 0 /\ Context!Total(f[12]) <= limit
                                             THEN f[12] ELSE <<>>
  BY CutsAre
<1>2. f[12] \in Versions(u)
  <2>1. 12 \in 0..12
    OBVIOUS
  <2> QED BY <1>1, <2>1
<1> QED BY <1>1, <1>2

\* One message with a text alone can be cut to what is left.
LEMMA CutOne ==
  ASSUME NEW x \in Seq(Message), Len(x) = 1, x[1].args = 0, NEW limit \in Nat, limit >= Floor,
         ~(Context!Total(x) <= limit)
  PROVE  Context!Total(Context!Cut(x, limit)) <= limit
<1>1. x[1] \in Message /\ x = <<x[1]>>
  OBVIOUS
<1>2. Context!Total(x) = x[1].text /\ Context!Tokens(x[1]) = x[1].text /\ x[1].text \in Nat
  BY <1>1, TotalOne, TokensNat DEF Message
<1>3. Context!Largest(x) = 1
  <2>1. DOMAIN x = 1..1 /\ \A k \in 1..1 : k = 1
    OBVIOUS
  <2>2. {i \in DOMAIN x : \A j \in DOMAIN x : Context!Tokens(x[j]) <= Context!Tokens(x[i])} = {1}
    BY <1>2, <2>1
  <2> QED BY <2>2 DEF Context!Largest, Context!Min
<1> DEFINE y == Context!Cut(x, limit)
<1>4. /\ y \in Seq(Message) /\ Len(y) = 1 /\ Context!Same(x[1], y[1])
      /\ y[1].text <= Floor \/ y[1].text <= Context!Tokens(x[1]) - (Context!Total(x) - limit)
  BY <1>3, CutMessages
<1> HIDE DEF y
<1>5. y[1] \in Message /\ y = <<y[1]>> /\ y[1].args = 0
  <2>1. y \in Seq(Message) /\ Len(y) = 1
    BY <1>4
  <2>2. y[1] \in Message /\ y = <<y[1]>>
    BY <2>1
  <2>3. y[1].args = 0
    BY <1>4 DEF Context!Same
  <2> QED BY <2>2, <2>3
<1>6. Context!Total(y) = y[1].text /\ y[1].text \in Nat
  BY <1>5, TotalOne DEF Message
<1>7. y[1].text <= limit
  BY <1>2, <1>4, <1>6, FitConstants
<1> QED BY <1>6, <1>7 DEF y

\* A question can always be cut to fit a limit that is not below the floor.
LEMMA ShrinkOne ==
  ASSUME NEW u \in Seq(Message), Len(u) = 1, u[1].args = 0, NEW limit \in Nat, limit >= Floor
  PROVE  Context!Shrink(u, limit) # <<>>
<1>1. PICK f : /\ f \in [0..12 -> Versions(u)] /\ f[0] = u
               /\ \A k \in 1..12 : f[k] = OneCut(f[k - 1], limit)
               /\ Context!Shrink(u, limit) = IF limit > 0 /\ Context!Total(f[12]) <= limit
                                             THEN f[12] ELSE <<>>
  BY CutsAre
<1>2. ASSUME NEW k \in 0..12 PROVE f[k] \in Seq(Message) /\ Len(f[k]) = 1 /\ f[k][1].args = 0
  BY <1>1 DEF Versions, Context!Same
<1>3. 12 \in 1..12 /\ 12 \in 0..12 /\ 12 - 1 \in 0..12
  OBVIOUS
<1> DEFINE x == f[12 - 1]
<1>4. x \in Seq(Message) /\ Len(x) = 1 /\ x[1].args = 0 /\ f[12] = OneCut(x, limit)
  BY <1>1, <1>2, <1>3
<1> HIDE DEF x
<1>5. Context!Total(f[12]) <= limit
  BY <1>4, CutOne DEF OneCut
<1>6. limit > 0
  BY FitConstants
<1>7. f[12] # <<>>
  BY <1>2, <1>3
<1> QED BY <1>1, <1>5, <1>6, <1>7

-----------------------------------------------------------------------------
\* What may be sent of ms with so much left, and how one unit more is taken.
Packs(ms, limit) == {x \in Seq(Message) : Tied(ms, x) /\ Context!Total(x) <= limit}
Choice(ms, limit, n, x) ==
    IF Context!Joins(ms, Len(ms) + 1 - n) THEN x
    ELSE Context!Take(x, Context!Unit(ms, Len(ms) + 1 - n), limit)

\* One more unit keeps the selection tied and within the limit.
LEMMA TakeKeeps ==
  ASSUME NEW ms, Whole(ms), NEW limit \in Nat, NEW n \in 1..Len(ms), NEW t \in Packs(ms, limit)
  PROVE  /\ Choice(ms, limit, n, t) \in Packs(ms, limit)
         /\ n = Len(ms) /\ limit >= Floor => Choice(ms, limit, n, t) # <<>>
<1> DEFINE j == Len(ms) + 1 - n
           u == Context!Unit(ms, j)
           L == Len(ms)
<1>1. L \in Nat /\ ms \in Seq(Message) /\ n \in 1..L
  BY DEF Whole
<1>2. j \in 1..L /\ j <= L /\ (n = L => j = 1)
  BY <1>1
<1>3. t \in Seq(Message) /\ Tied(ms, t) /\ Context!Total(t) <= limit /\ Context!Total(t) \in Nat
  BY TotalSum DEF Packs
<1>4. ms[1].calls = {} /\ ms[1].args = 0
  BY DEF Whole
<1> HIDE DEF j, u
<1>5. CASE Context!Joins(ms, j)
  <2>1. Choice(ms, limit, n, t) = t
    BY <1>5 DEF Choice, j
  <2>2. j # 1
    <3>1. ~Context!Joins(ms, 1)
      BY DEF Context!Joins
    <3> QED BY <1>5, <3>1
  <2> QED BY <1>2, <2>1, <2>2
<1>6. CASE ~Context!Joins(ms, j)
  <2>1. PICK e \in j..L : /\ u \in Seq(Message) /\ Len(u) = (e - j) + 1
                          /\ \A x \in 1..((e - j) + 1) : u[x] = ms[(j - 1) + x]
                          /\ ms[j].type # "tool" /\ (e = L \/ ms[e + 1].type # "tool")
                          /\ j = 1 => e = 1
    BY <1>2, <1>6, UnitFacts DEF u
  <2>2. PICK d \in Nat : d = j - 1
    BY <1>2
  <2>3. PICK m \in Nat \ {0} : m = (e - j) + 1
    BY <1>1, <1>2, <2>1
  <2>4. /\ d + m = e /\ d + m <= L /\ ms[d + 1].type # "tool"
        /\ d + m = L \/ ms[d + m + 1].type # "tool"
        /\ Len(u) = m /\ \A x \in 1..m : u[x] = ms[d + x]
    <3>1. d + m = e /\ d + 1 = j /\ e <= L
      <4>1. j \in Int /\ e \in Int /\ e <= L
        BY <1>1, <1>2
      <4> QED BY <2>2, <2>3, <4>1
    <3> QED BY <2>1, <2>2, <2>3, <3>1
  <2>5. ASSUME NEW v \in Versions(u), NEW y, Tied(ms, y) PROVE Tied(ms, v \o y)
    <3>1. v \in Seq(Message) /\ Len(v) = m /\ \A x \in 1..m : Context!Same(u[x], v[x])
      BY <2>4 DEF Versions
    <3>2. \A x \in 1..m : Context!Same(ms[d + x], v[x])
      BY <2>4, <3>1
    <3> QED BY <2>4, <2>5, <3>1, <3>2, TiedFront
  <2>6. u \in Versions(u)
    BY <2>1 DEF Versions, Context!Same
  <2> DEFINE left  == limit - Context!Total(t)
             small == Context!Shrink(u, left)
  <2>7. Choice(ms, limit, n, t) = IF Context!Total(u) <= left THEN u \o t
                                  ELSE IF t = <<>> /\ small # <<>> THEN small ELSE t
    BY <1>6 DEF Choice, Context!Take, j, u
  <2>8. left \in Int /\ (t = <<>> => left = limit)
    BY <1>3, TotalNone
  <2> HIDE DEF left, small
  <2>9. CASE Context!Total(u) <= left
    <3>1. u \o t \in Seq(Message) /\ Context!Total(u \o t) = Context!Total(u) + Context!Total(t)
      BY <1>3, <2>1, TotalParts
    <3>2. Context!Total(u) \in Nat
      BY <2>1, TotalSum
    <3>3. Context!Total(u \o t) <= limit
      BY <1>3, <2>9, <3>1, <3>2 DEF left
    <3>4. Tied(ms, u \o t)
      BY <1>3, <2>5, <2>6
    <3>5. u \o t # <<>>
      BY <1>3, <2>1, <2>3
    <3> QED BY <2>7, <2>9, <3>1, <3>3, <3>4, <3>5 DEF Packs
  <2>10. CASE ~(Context!Total(u) <= left) /\ t = <<>> /\ small # <<>>
    <3>1. small \in Versions(u) /\ Context!Total(small) <= limit
      BY <2>1, <2>8, <2>10, ShrinkFacts DEF small
    <3>2. small \in Seq(Message) /\ small \o t = small
      BY <2>10, <3>1 DEF Versions
    <3>3. Tied(ms, small)
      BY <1>3, <2>5, <3>1, <3>2
    <3> QED BY <2>7, <2>10, <3>1, <3>2, <3>3 DEF Packs
  <2>11. CASE ~(Context!Total(u) <= left) /\ ~(t = <<>> /\ small # <<>>)
    <3>1. Choice(ms, limit, n, t) = t
      BY <2>7, <2>11
    <3>2. ASSUME n = L, limit >= Floor, t = <<>> PROVE FALSE
      <4>1. j = 1 /\ e = 1 /\ Len(u) = 1 /\ u[1] = ms[1]
        <5>1. j = 1 /\ e = 1
          BY <1>2, <2>1, <3>2
        <5>2. m = 1 /\ d = 0
          BY <2>2, <2>3, <5>1
        <5> QED BY <2>4, <5>1, <5>2
      <4>2. Context!Shrink(u, limit) # <<>>
        BY <1>4, <2>1, <3>2, <4>1, ShrinkOne
      <4> QED BY <2>8, <2>11, <3>2, <4>2 DEF small
    <3> QED BY <3>1, <3>2
  <2> QED BY <2>9, <2>10, <2>11
<1> QED BY <1>5, <1>6

\* The recursion of the selection, and that it chooses from the newest message back.
Choosing(f, ms, limit) ==
    f = [n \in 0..Len(ms) |->
           IF n = 0 THEN <<>>
           ELSE IF Context!Joins(ms, Len(ms) + 1 - n) THEN f[n - 1]
           ELSE Context!Take(f[n - 1], Context!Unit(ms, Len(ms) + 1 - n), limit)]

\* The selection, one choice after another,
LEMMA ChoosingIs ==
  ASSUME NEW f, NEW ms, NEW limit
  PROVE  Choosing(f, ms, limit)
           <=> f = [n \in 0..Len(ms) |-> IF n = 0 THEN <<>> ELSE Choice(ms, limit, n, f[n - 1])]
<1>1. ASSUME NEW n
      PROVE  (IF n = 0 THEN <<>>
              ELSE IF Context!Joins(ms, Len(ms) + 1 - n) THEN f[n - 1]
              ELSE Context!Take(f[n - 1], Context!Unit(ms, Len(ms) + 1 - n), limit))
             = (IF n = 0 THEN <<>> ELSE Choice(ms, limit, n, f[n - 1]))
  BY DEF Choice
<1>2. [n \in 0..Len(ms) |->
         IF n = 0 THEN <<>>
         ELSE IF Context!Joins(ms, Len(ms) + 1 - n) THEN f[n - 1]
         ELSE Context!Take(f[n - 1], Context!Unit(ms, Len(ms) + 1 - n), limit)]
      = [n \in 0..Len(ms) |-> IF n = 0 THEN <<>> ELSE Choice(ms, limit, n, f[n - 1])]
  BY <1>1
<1> QED BY <1>2 DEF Choosing

\* is what Select computes.
LEMMA SelectIs ==
  ASSUME NEW ms, NEW limit
  PROVE  Context!Select(ms, limit) = (CHOOSE f : Choosing(f, ms, limit))[Len(ms)]
<1>1. Context!Select(ms, limit)
      = (CHOOSE f : f = [n \in 0..Len(ms) |->
           IF n = 0 THEN <<>>
           ELSE IF Context!Joins(ms, Len(ms) + 1 - n) THEN f[n - 1]
           ELSE Context!Take(f[n - 1], Context!Unit(ms, Len(ms) + 1 - n), limit)])[Len(ms)]
  BY DEF Context!Select
<1> QED BY <1>1 DEF Choosing

\* What is selected fits, holds together and is not empty.
LEMMA SelectFacts ==
  ASSUME NEW ms, Whole(ms), NEW limit \in Nat, limit >= Floor
  PROVE  Context!Select(ms, limit) \in Packs(ms, limit) /\ Context!Select(ms, limit) # <<>>
<1> DEFINE S == Packs(ms, limit)
           L == Len(ms)
           g == [n \in 1..L |-> [x \in S |-> Choice(ms, limit, n, x)]]
<1>0. L \in Nat /\ L >= 1
  BY DEF Whole
<1>1. <<>> \in S
  BY TiedNone, TotalNone DEF Packs
<1>2. \A n \in 1..L : \A x \in S : Choice(ms, limit, n, x) \in S
  BY TakeKeeps
<1>3. g \in [1..L -> [S -> S]]
  BY <1>2
<1>4. \A n \in 1..L : \A x \in S : g[n][x] = Choice(ms, limit, n, x)
  OBVIOUS
<1> HIDE DEF S, g, L
<1>5. PICK h : Unrolls(h, S, L, <<>>, g)
  BY <1>0, <1>1, <1>3, Recursion
<1>6. /\ h \in [0..L -> S] /\ h[0] = <<>>
      /\ \A n \in 1..L : h[n] = g[n][h[n - 1]]
  BY <1>5 DEF Unrolls
<1>7. ASSUME NEW n \in 0..L PROVE h[n] = IF n = 0 THEN <<>> ELSE Choice(ms, limit, n, h[n - 1])
  <2>1. CASE n = 0
    BY <1>6, <2>1
  <2>2. CASE n # 0
    <3>1. n \in 1..L /\ n - 1 \in 0..L
      BY <1>0, <2>2
    <3>2. h[n - 1] \in S /\ h[n] = g[n][h[n - 1]]
      BY <1>6, <3>1
    <3> QED BY <1>4, <2>2, <3>1, <3>2
  <2> QED BY <2>1, <2>2
<1>8. Choosing(h, ms, limit)
  BY <1>6, <1>7, ChoosingIs DEF L
<1> DEFINE f == CHOOSE c : Choosing(c, ms, limit)
<1>9. Choosing(f, ms, limit)
  BY <1>8
<1>10. Context!Select(ms, limit) = f[L]
  <2>1. Context!Select(ms, limit) = f[Len(ms)]
    BY SelectIs
  <2> QED BY <2>1 DEF L
<1> HIDE DEF f
<1>11. DOMAIN f = 0..L /\ f[0] = <<>> /\ \A n \in 1..L : f[n] = Choice(ms, limit, n, f[n - 1])
  BY <1>0, <1>9, ChoosingIs DEF L
<1> DEFINE B == {n \in 0..L : f[n] \notin S}
<1>12. B = {}
  <2>1. B \subseteq 0..L /\ 0 \notin B
    BY <1>1, <1>11
  <2>2. \A n \in 1..L : n - 1 \notin B => n \notin B
    <3> TAKE n \in 1..L
    <3>1. n - 1 \in 0..L /\ f[n] = Choice(ms, limit, n, f[n - 1])
      BY <1>0, <1>11
    <3> QED BY <1>2, <3>1
  <2> HIDE DEF B
  <2> QED BY <1>0, <2>1, <2>2, UpTo
<1>13. f[L] \in S /\ f[L - 1] \in S /\ L \in 1..L
  BY <1>0, <1>12
<1>14. f[L] = Choice(ms, limit, L, f[L - 1])
  BY <1>11, <1>13
<1>15. f[L] # <<>>
  BY <1>13, <1>14, TakeKeeps DEF S, L
<1> QED BY <1>10, <1>13, <1>15 DEF S

-----------------------------------------------------------------------------
\* What is left of a window beside the system text.
LEMMA LimitFacts ==
  ASSUME system \in Nat, budget \in Budget
  PROVE  /\ budget \in Nat /\ Context!SystemCut \in Nat
         /\ budget - Context!SystemCut \in Nat /\ budget - Context!SystemCut >= Floor
<1>1. budget \in Nat /\ budget - (budget * 65) \div 100 >= Floor /\ Floor \in Nat
  BY FitConstants
<1>2. (budget * 65) \div 100 \in Nat /\ budget \div 2 \in Nat
      /\ budget \div 2 <= (budget * 65) \div 100
  BY <1>1
<1> QED BY <1>1, <1>2 DEF Context!SystemCut

ContextInv == Whole(conv) /\ system \in Nat /\ budget \in Budget /\ Context!FitsWhole

\* A fit starts in the invariant.
LEMMA ContextInit == Context!Init => ContextInv
<1> SUFFICES ASSUME Context!Init PROVE ContextInv
  OBVIOUS
<1>1. Whole(conv)
  BY TalksWhole DEF Context!Init
<1>2. system \in Nat /\ budget \in Budget /\ fit = Context!None
  BY FitConstants DEF Context!Init
<1> QED BY <1>1, <1>2 DEF ContextInv, Context!FitsWhole

\* What is sent of a conversation, whole or selected, holds together.
LEMMA FittedFacts ==
  ASSUME ContextInv
  PROVE  \E x : /\ Context!Fitted.conv = x /\ Tied(conv, x)
                /\ Context!Fitted.system + Context!Total(x) <= budget
<1> DEFINE limit == budget - Context!SystemCut
           taken == Context!Select(conv, limit)
<1>1. /\ budget \in Nat /\ Context!SystemCut \in Nat /\ limit \in Nat /\ limit >= Floor
      /\ Whole(conv) /\ system \in Nat
  BY LimitFacts DEF ContextInv
<1>2. taken \in Packs(conv, limit) /\ taken # <<>>
  <2> HIDE DEF limit
  <2> QED BY <1>1, SelectFacts
<1>3. CASE system + Context!Total(conv) <= budget
  <2>1. Context!Fitted = [conv |-> conv, system |-> system]
    BY <1>3 DEF Context!Fitted
  <2> QED BY <1>1, <1>3, <2>1, TiedSelf
<1>4. CASE ~(system + Context!Total(conv) <= budget)
  <2>1. Context!Fitted = [conv |-> taken, system |-> Context!SystemCut]
    BY <1>2, <1>4 DEF Context!Fitted
  <2>2. Tied(conv, taken) /\ Context!Total(taken) <= limit /\ Context!Total(taken) \in Nat
    BY <1>2, TotalSum DEF Packs
  <2>3. Context!SystemCut + Context!Total(taken) <= budget
    <3> HIDE DEF taken
    <3> QED BY <1>1, <2>2
  <2> QED BY <2>1, <2>2, <2>3
<1> QED BY <1>3, <1>4

\* Every step of a fit keeps the invariant.
LEMMA ContextStep == ContextInv /\ (Context!Next \/ UNCHANGED Context!fvars) => ContextInv'
<1> SUFFICES ASSUME ContextInv, Context!Next \/ UNCHANGED Context!fvars PROVE ContextInv'
  OBVIOUS
<1>1. CASE UNCHANGED Context!fvars
  <2>1. UNCHANGED <<conv, system, budget, fit>>
    BY <1>1 DEF Context!fvars
  <2> QED BY <2>1 DEF ContextInv, Context!FitsWhole
<1>2. CASE Context!Next
  <2>1. fit' = Context!Fitted /\ UNCHANGED <<conv, system, budget>>
    BY <1>2 DEF Context!Next, Context!Fit
  <2>2. PICK x : /\ Context!Fitted.conv = x /\ Tied(conv, x)
                 /\ Context!Fitted.system + Context!Total(x) <= budget
    BY FittedFacts
  <2>3. fit'.conv = x /\ fit'.system + Context!Total(x) <= budget
    BY <2>1, <2>2
  <2>4. conv \in Seq(Message) /\ x \in Seq(Message)
    BY <2>2 DEF ContextInv, Whole, Tied
  <2>5. DOMAIN conv = 1..Len(conv) /\ DOMAIN x = 1..Len(x)
    BY <2>4
  <2>6. Context!FitsWhole'
    <3>1. fit'.system + Context!Total(fit'.conv) <= budget
      BY <2>3
    <3>2. \A j \in DOMAIN x : x[j].type = "tool" => Context!Joins(x, j)
      BY <2>2, <2>5 DEF Tied
    <3>3. \A i \in DOMAIN x : x[i].calls # {} =>
             \E k \in DOMAIN conv : /\ Context!Same(conv[k], x[i])
                                    /\ Context!Answered(conv, k) = Context!Answered(x, i)
      BY <2>2, <2>5 DEF Tied
    <3> QED BY <2>1, <2>3, <3>1, <3>2, <3>3 DEF Context!FitsWhole
  <2> QED BY <2>1, <2>6 DEF ContextInv
<1> QED BY <1>1, <1>2

-----------------------------------------------------------------------------
\* What both keep.
DialogueInv == SummaryInv /\ ContextInv

\* Both start in their invariants,
LEMMA DialogueInit == Summary!Init /\ Context!Init => DialogueInv
  BY SummaryInit, ContextInit DEF DialogueInv

\* keep them,
LEMMA DialogueNext ==
  ASSUME DialogueInv, Summary!Next \/ UNCHANGED Summary!svars, Context!Next \/ UNCHANGED Context!fvars
  PROVE  DialogueInv'
  BY SummaryStep, ContextStep DEF DialogueInv

\* and so the conversation is sound.
LEMMA DialogueKept == DialogueInv => ConversationKept
  BY SummaryKept DEF DialogueInv, ContextInv, ConversationKept

\* While summaries are made and the older messages fit into one, a prompt lags by fewer
\* messages than a refresh; and what is sent to a model fits its window, with no result
\* without its call and no call without the results it had (agent/memory.py,
\* core/token_budget.py).
THEOREM ConversationSound == Summary!Spec /\ Context!Spec => []ConversationKept
<1>1. DialogueInv /\ [Summary!Next]_(Summary!svars) /\ [Context!Next]_(Context!fvars) => DialogueInv'
  BY DialogueNext
<1> QED BY <1>1, DialogueInit, DialogueKept, PTL DEF Summary!Spec, Context!Spec
=============================================================================
