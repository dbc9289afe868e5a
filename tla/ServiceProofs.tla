----------------------------- MODULE ServiceProofs ----------------------------
(***************************************************************************)
(* What the components of MCServices promise for any bound: that the trace *)
(* store accounts for every event, that the report of an evaluation run is *)
(* not taken back, that experiments and documents agree with what they     *)
(* record, that no model is left out and no two speak, and that only       *)
(* agreed memories are injected.  A component that does not run stays      *)
(* where it is, so that each part first shows an invariant of its          *)
(* component alone.                                                        *)
(***************************************************************************)
EXTENDS MCServices, DialogueProofs, FiniteSetTheorems, WellFoundedInduction, TLAPS

-------------------------------------------------------------------------------
(* The trace store. *)

\* The rows of trace events: the number of an event and its sequence number.
Row == [id : Nat, seq : Nat]

\* The bound of a buffer is a positive number.
LEMMA Consts == BufferMax \in Nat \ {0}
BY Instances DEF Instances, Trace!TraceAssumption

\* A sequence of members of a set is one of members of any larger set.
LEMMA SeqIn ==
  ASSUME NEW S, NEW T, S \subseteq T, NEW s \in Seq(S)
  PROVE  s \in Seq(T)
OBVIOUS

\* _bounded keeps the last events of a buffer, in their order.
LEMMA CutFacts ==
  ASSUME NEW S, NEW s \in Seq(S)
  PROVE  /\ Trace!Cut(s) \in Seq(S)
         /\ \E k \in Nat : /\ Len(s) = Len(Trace!Cut(s)) + k
                           /\ \A i \in DOMAIN Trace!Cut(s) : i + k \in DOMAIN s
                               /\ Trace!Cut(s)[i] = s[i + k]
<1>1. CASE Len(s) > BufferMax
  <2> DEFINE k == Len(s) - BufferMax
  <2>1. k \in Nat /\ Len(s) = BufferMax + k /\ BufferMax \in Nat \ {0} /\ k > 0
    BY <1>1, Consts
  <2>2. Trace!Cut(s) = SubSeq(s, k + 1, Len(s))
    BY <1>1, <2>1 DEF Trace!Cut
  <2> HIDE DEF k
  <2>3. /\ SubSeq(s, k + 1, Len(s)) \in Seq(S)
        /\ Len(SubSeq(s, k + 1, Len(s))) = BufferMax
        /\ \A i \in 1..BufferMax : SubSeq(s, k + 1, Len(s))[i] = s[i + k]
    BY <2>1
  <2> DEFINE t == SubSeq(s, k + 1, Len(s))
  <2>4. Len(s) = Len(t) + k /\ \A i \in DOMAIN t : i + k \in DOMAIN s /\ t[i] = s[i + k]
    <3> HIDE DEF t
    <3>1. t \in Seq(S) /\ Len(t) = BufferMax /\ \A i \in 1..BufferMax : t[i] = s[i + k]
      BY <2>3 DEF t
    <3> QED BY <2>1, <3>1
  <2> QED BY <2>1, <2>2, <2>3, <2>4
<1>2. CASE ~(Len(s) > BufferMax)
  <2>1. Trace!Cut(s) = s
    BY <1>2 DEF Trace!Cut
  <2>2. Len(s) = Len(s) + 0 /\ \A i \in DOMAIN s : i + 0 \in DOMAIN s /\ s[i] = s[i + 0]
    OBVIOUS
  <2> QED BY <2>1, <2>2
<1> QED BY <1>1, <1>2

\* _bounded adds no event.
LEMMA CutIds ==
  ASSUME NEW S, NEW s \in Seq(S)
  PROVE  Trace!Ids(Trace!Cut(s)) \subseteq Trace!Ids(s)
BY CutFacts DEF Trace!Ids

\* One more event at the end of a buffer.
LEMMA AppendIds ==
  ASSUME NEW S, NEW s \in Seq(S), NEW r \in S
  PROVE  /\ Append(s, r) \in Seq(S) /\ DOMAIN Append(s, r) = DOMAIN s \cup {Len(s) + 1}
         /\ \A i \in DOMAIN s : Append(s, r)[i] = s[i]
         /\ Append(s, r)[Len(s) + 1] = r
         /\ Trace!Ids(Append(s, r)) = Trace!Ids(s) \cup {r.id}
<1>1. /\ Append(s, r) \in Seq(S) /\ DOMAIN Append(s, r) = DOMAIN s \cup {Len(s) + 1}
      /\ \A i \in DOMAIN s : Append(s, r)[i] = s[i]
      /\ Append(s, r)[Len(s) + 1] = r
  OBVIOUS
<1>2. Trace!Ids(Append(s, r)) = Trace!Ids(s) \cup {r.id}
  BY <1>1 DEF Trace!Ids
<1> QED BY <1>1, <1>2

\* Rows that are put back in front of a buffer.
LEMMA ConcatIds ==
  ASSUME NEW S, NEW s \in Seq(S), NEW t \in Seq(S)
  PROVE  s \o t \in Seq(S) /\ Trace!Ids(s \o t) = Trace!Ids(s) \cup Trace!Ids(t)
<1>1. /\ s \o t \in Seq(S) /\ Len(s \o t) = Len(s) + Len(t)
      /\ \A i \in 1..(Len(s) + Len(t)) : (s \o t)[i] = IF i <= Len(s) THEN s[i] ELSE t[i - Len(s)]
  OBVIOUS
<1>2. Trace!Ids(s) \subseteq Trace!Ids(s \o t)
  BY <1>1 DEF Trace!Ids
<1>3. Trace!Ids(t) \subseteq Trace!Ids(s \o t)
  <2> SUFFICES ASSUME NEW j \in DOMAIN t PROVE t[j].id \in Trace!Ids(s \o t)
    BY DEF Trace!Ids
  <2>1. Len(s) + j \in DOMAIN (s \o t) /\ (s \o t)[Len(s) + j] = t[j]
    BY <1>1
  <2> QED BY <2>1 DEF Trace!Ids
<1>4. Trace!Ids(s \o t) \subseteq Trace!Ids(s) \cup Trace!Ids(t)
  <2> SUFFICES ASSUME NEW i \in DOMAIN (s \o t)
        PROVE (s \o t)[i].id \in Trace!Ids(s) \cup Trace!Ids(t)
    BY DEF Trace!Ids
  <2>1. CASE i <= Len(s)
    BY <2>1, <1>1 DEF Trace!Ids
  <2>2. CASE ~(i <= Len(s))
    <3>1. i - Len(s) \in DOMAIN t /\ (s \o t)[i] = t[i - Len(s)]
      BY <2>2, <1>1
    <3> QED BY <3>1 DEF Trace!Ids
  <2> QED BY <2>1, <2>2
<1> QED BY <1>1, <1>2, <1>3, <1>4

\* An empty buffer has no event.
LEMMA Emptied == Trace!Ids(<<>>) = {}
BY DEF Trace!Ids

\* What a writer may ask of the connection.
Kinds == {"insert", "commit", "read"}

\* Where a writer may be.
Places == {"idle", "insert", "inserted", "commit", "done", "failed", "read"}

\* The shape of every variable of the trace store that the argument uses.
Typed ==
    /\ seqOf \in Nat /\ nextId \in Nat /\ failures \in Nat /\ restarts \in Nat
    /\ buffer \in Seq(Row) /\ held \in [Trace!Flusher -> Seq(Row)]
    /\ asks \in Seq(Trace!Writer \X Kinds) /\ at \in [Trace!Writer -> Places]
    /\ tx \subseteq Row /\ db \subseteq Row /\ asked \subseteq Trace!Known

\* The connection is asked for one thing by a writer at a time, the one that the
\* writer waits for; a flusher has no rows before it takes and after it brings
\* them home, and says done of rows that are committed.
Asked == /\ \A i \in DOMAIN asks : at[asks[i][1]] = asks[i][2]
         /\ \A i, j \in DOMAIN asks : asks[i][1] = asks[j][1] => i = j
         /\ \A w \in Trace!Writer : at[w] \in Kinds
             => \E i \in DOMAIN asks : asks[i] = <<w, at[w]>>

\* A flusher has no rows before it takes them; those it inserted or asks a commit
\* for are stored, and those it says done of are committed.
Carried == \A f \in Trace!Flusher :
    /\ at[f] \in {"idle", "read"} => held[f] = <<>>
    /\ at[f] \in {"inserted", "commit"} => \A i \in DOMAIN held[f] : held[f][i] \in tx \cup db
    /\ at[f] = "done" => \A i \in DOMAIN held[f] : held[f][i] \in db

\* As long as no commit failed and no process ended, rows keep their order: what
\* is buffered is newer than what is held, and that is inserted nowhere else.
Calm == failures = 0 /\ restarts = 0

\* Rows in the order of their events.
Ordered(rows) == \A i, j \in DOMAIN rows : i < j => rows[i].id < rows[j].id

\* Rows whose sequence numbers are those of their events.
Numbered(rows) == \A i \in DOMAIN rows : rows[i].seq = rows[i].id

\* The numbers as they are in calm: what is buffered is newer than all that is held
\* or stored, and rows to be inserted are not there yet, nor with the other flusher.
InOrder ==
    /\ seqOf = nextId /\ Trace!Stored \cup Trace!Ids(buffer) \subseteq Trace!Known
    /\ Ordered(buffer) /\ Numbered(buffer) /\ \A r \in tx \cup db : r.seq = r.id
    /\ \A m \in Trace!Ids(buffer) : \A n \in Trace!Stored : n < m
    /\ \A f \in Trace!Flusher :
          /\ Ordered(held[f]) /\ Numbered(held[f]) /\ at[f] # "failed"
              /\ Trace!Ids(held[f]) \subseteq Trace!Known
          /\ \A m \in Trace!Ids(buffer) : \A n \in Trace!Ids(held[f]) : n < m
          /\ at[f] = "insert" =>
                /\ Trace!Ids(held[f]) \cap Trace!Stored = {}
                /\ \A g \in Trace!Flusher \ {f} : Trace!Ids(held[f]) \cap Trace!Ids(held[g]) = {}

\* What the runner is to read back: what it asked for and no bound dropped.
ToRead == asked \ (dropped \cup forgone)

\* The loop's insert is asked for, before anything the runner asks.
LoopFirst(q) == \E j \in DOMAIN q : /\ q[j] = <<"loop", "insert">>
                                    /\ \A i \in DOMAIN q : q[i][1] = "runner" => j < i

\* From the runner's flush to its read, no event it asks for waits in the
\* buffer: it is stored, in its hands, or in those of the other flusher, whose insert
\* is asked for before anything the runner asks.
Awaited == at["runner"] # "idle" =>
    /\ Trace!Ids(buffer) \cap asked = {}
    /\ ToRead \subseteq Trace!Stored \cup Trace!Ids(held["runner"]) \cup Trace!Ids(held["loop"])
    /\ at["loop"] = "insert" /\ ToRead \cap Trace!Ids(held["loop"]) # {} => LoopFirst(asks)

\* What holds in calm.
Quiet == InOrder /\ Awaited /\ ~missedRead

\* What always holds: no event is unaccounted for.
Books == Typed /\ Asked /\ Carried /\ Trace!EventsAccounted

\* The inductive invariant of the trace store.
StoreInv == Books /\ (Calm => Quiet)

\* The store starts in the invariant.
LEMMA BooksInit == Trace!Init => StoreInv
<1> SUFFICES ASSUME Trace!Init PROVE StoreInv
  OBVIOUS
<1>1. held \in [Trace!Flusher -> Seq(Row)] /\ buffer \in Seq(Row)
        /\ asks \in Seq(Trace!Writer \X Kinds)
  BY DEF Trace!Init
<1>2. at \in [Trace!Writer -> Places]
  BY DEF Trace!Init, Places
<1>3. Typed
  BY <1>1, <1>2 DEF Trace!Init, Typed
<1>4. Asked /\ Carried
  BY DEF Trace!Init, Asked, Carried, Trace!Flusher, Trace!Writer, Kinds
<1>5. Trace!EventsAccounted
  BY DEF Trace!Init, Trace!EventsAccounted, Trace!Known
<1>6. InOrder /\ Awaited /\ ~missedRead
  BY DEF Trace!Init, InOrder, Awaited, Trace!Ids, Trace!Stored, Trace!Known, Ordered, Numbered,
     Trace!Flusher, Trace!Writer
<1> QED BY <1>3, <1>4, <1>5, <1>6 DEF StoreInv, Books, Quiet

\* A request appended by a writer that had none.
LEMMA AskMore ==
  ASSUME Typed, Asked, NEW w \in Trace!Writer, NEW k \in Kinds,
         at[w] \notin Kinds,
         at' = [at EXCEPT ![w] = k], asks' = Append(asks, <<w, k>>)
  PROVE  Asked' /\ (asks \in Seq(Trace!Writer \X Kinds))'
         /\ (at \in [Trace!Writer -> Places])'
<1> DEFINE O == Trace!Writer \X Kinds
<1>1. /\ asks \in Seq(O) /\ <<w, k>> \in O
      /\ at \in [Trace!Writer -> Places]
  BY DEF Typed, Kinds
<1>2. /\ asks' \in Seq(O) /\ DOMAIN asks' = DOMAIN asks \cup {Len(asks) + 1}
      /\ \A i \in DOMAIN asks : asks'[i] = asks[i] /\ asks[i] \in O
      /\ asks'[Len(asks) + 1] = <<w, k>> /\ Len(asks) + 1 \notin DOMAIN asks
  BY <1>1
<1>3. \A i \in DOMAIN asks : asks[i][1] # w
  BY <1>1, <1>2 DEF Asked, Kinds, Places
<1>4. \A v \in Trace!Writer : at'[v] = IF v = w THEN k ELSE at[v]
  BY <1>1
<1>5. \A i \in DOMAIN asks' : at'[asks'[i][1]] = asks'[i][2]
  BY <1>1, <1>2, <1>3, <1>4 DEF Asked, Kinds, Places
<1>6. \A i, j \in DOMAIN asks' : asks'[i][1] = asks'[j][1] => i = j
  BY <1>1, <1>2, <1>3 DEF Asked, Kinds, Places
<1>7. \A v \in Trace!Writer : at'[v] \in Kinds =>
                         \E i \in DOMAIN asks' : asks'[i] = <<v, at'[v]>>
  <2> SUFFICES ASSUME NEW v \in Trace!Writer, at'[v] \in Kinds
               PROVE  \E i \in DOMAIN asks' : asks'[i] = <<v, at'[v]>>
    OBVIOUS
  <2>1. CASE v = w
    BY <2>1, <1>2, <1>4
  <2>2. CASE v # w
    <3>1. PICK i \in DOMAIN asks : asks[i] = <<v, at[v]>>
      BY <2>2, <1>4 DEF Asked, Kinds, Places
    <3> QED BY <3>1, <2>2, <1>2, <1>4
  <2> QED BY <2>1, <2>2
<1> QED BY <1>1, <1>2, <1>5, <1>6, <1>7 DEF Asked, Kinds, Places

\* The head of the requests carried out.
LEMMA AskDone ==
  ASSUME Typed, Asked, NEW w \in Trace!Writer, NEW k \in Kinds, Trace!Asks(w, k),
         NEW a \in {"idle", "inserted", "done", "failed"}, at' = [at EXCEPT ![w] = a]
  PROVE  /\ Asked' /\ (asks \in Seq(Trace!Writer \X Kinds))'
         /\ (at \in [Trace!Writer -> Places])'
         /\ at[w] = k
<1> DEFINE O == Trace!Writer \X Kinds
<1>1. /\ asks \in Seq(O)
      /\ at \in [Trace!Writer -> Places]
  BY DEF Typed, Kinds
<1>2. /\ asks' \in Seq(O) /\ Len(asks) = Len(asks') + 1
      /\ \A i \in DOMAIN asks : asks[i] \in O
      /\ \A i \in DOMAIN asks' : i + 1 \in DOMAIN asks /\ asks'[i] = asks[i + 1]
      /\ asks[1] = <<w, k>> /\ 1 \in DOMAIN asks
      /\ \A i \in DOMAIN asks : i = 1 \/ (i - 1 \in DOMAIN asks' /\ asks'[i - 1] = asks[i])
  BY <1>1 DEF Trace!Asks
<1>3. \A i \in DOMAIN asks' : asks'[i][1] # w
  <2> TAKE i \in DOMAIN asks'
  <2>1. i + 1 # 1 /\ i + 1 \in DOMAIN asks /\ 1 \in DOMAIN asks
    BY <1>1, <1>2
  <2>2. asks[i + 1][1] # asks[1][1]
    BY <2>1 DEF Asked, Kinds, Places
  <2> QED BY <2>2, <1>2
<1>4. at[w] = k /\ \A v \in Trace!Writer : at'[v] = IF v = w THEN a ELSE at[v]
  BY <1>1, <1>2 DEF Asked, Kinds, Places
<1>5. \A i \in DOMAIN asks' : at'[asks'[i][1]] = asks'[i][2]
  <2> TAKE i \in DOMAIN asks'
  <2>1. i + 1 \in DOMAIN asks /\ asks'[i] = asks[i + 1] /\ asks[i + 1] \in O
    BY <1>2
  <2> QED BY <2>1, <1>3, <1>4 DEF Asked, Kinds, Places
<1>6. \A i, j \in DOMAIN asks' : asks'[i][1] = asks'[j][1] => i = j
  <2> SUFFICES ASSUME NEW i \in DOMAIN asks', NEW j \in DOMAIN asks', asks'[i][1] = asks'[j][1]
               PROVE  i = j
    OBVIOUS
  <2>1. i + 1 = j + 1
    BY <1>2 DEF Asked, Kinds, Places
  <2>2. i \in Nat /\ j \in Nat
    BY <1>2
  <2> QED BY <2>1, <2>2
<1>7. \A v \in Trace!Writer : at'[v] \in Kinds =>
                         \E i \in DOMAIN asks' : asks'[i] = <<v, at'[v]>>
  <2> SUFFICES ASSUME NEW v \in Trace!Writer, at'[v] \in Kinds
               PROVE  \E i \in DOMAIN asks' : asks'[i] = <<v, at'[v]>>
    OBVIOUS
  <2>1. v # w /\ at'[v] = at[v]
    BY <1>4 DEF Kinds
  <2>2. PICK i \in DOMAIN asks : asks[i] = <<v, at[v]>>
    BY <2>1 DEF Asked, Kinds, Places
  <2>3. i # 1
    BY <2>1, <2>2, <1>2
  <2> QED BY <2>1, <2>2, <2>3, <1>2
<1>8. at' \in [Trace!Writer -> Places]
  BY <1>1 DEF Places
<1> QED BY <1>2, <1>4, <1>5, <1>6, <1>7, <1>8 DEF Asked

\* A writer that has no request goes on.
LEMMA AskNone ==
  ASSUME Typed, Asked, NEW w \in Trace!Writer, at[w] \notin Kinds,
         NEW a \in {"idle", "inserted", "done", "failed"}, at' = [at EXCEPT ![w] = a],
         asks' = asks
  PROVE  /\ Asked' /\ (asks \in Seq(Trace!Writer \X Kinds))'
         /\ (at \in [Trace!Writer -> Places])'
<1>1. /\ asks \in Seq(Trace!Writer \X Kinds)
      /\ at \in [Trace!Writer -> Places]
  BY DEF Typed, Kinds
<1>2. \A i \in DOMAIN asks : asks[i] \in Trace!Writer \X Kinds
  BY <1>1
<1>3. \A v \in Trace!Writer : at'[v] = IF v = w THEN a ELSE at[v]
  BY <1>1
<1>4. \A i \in DOMAIN asks : asks[i][1] # w
  BY <1>2 DEF Asked, Kinds, Places
<1> QED BY <1>1, <1>2, <1>3, <1>4 DEF Asked, Kinds, Places

\* record: an event more, and perhaps one that is dropped by the bound.
LEMMA BooksRecord == Books /\ Trace!Record => Books'
<1> SUFFICES ASSUME Books, Trace!Record PROVE Books'
  OBVIOUS
<1> DEFINE new == [id |-> nextId + 1, seq |-> seqOf + 1]
<1>1. /\ nextId \in Nat /\ seqOf \in Nat /\ buffer \in Seq(Row) /\ new \in Row
      /\ nextId' = nextId + 1 /\ seqOf' = seqOf + 1 /\ buffer' = Append(Trace!Cut(buffer), new)
      /\ dropped' = dropped \cup (Trace!Ids(buffer) \ Trace!Ids(Trace!Cut(buffer)))
      /\ held' = held /\ asks' = asks /\ at' = at /\ tx' = tx /\ db' = db /\ forgone' = forgone
      /\ asked' = asked /\ missedRead' = missedRead /\ closed' = closed /\ failures' = failures
      /\ restarts' = restarts
  BY DEF Books, Typed, Trace!Record, Trace!disk, Row
<1>2. Trace!Known' = Trace!Known \cup {nextId + 1}
  BY <1>1 DEF Trace!Known
<1>3. Trace!Cut(buffer) \in Seq(Row) /\ Trace!Ids(Trace!Cut(buffer)) \subseteq Trace!Ids(buffer)
  BY <1>1, CutFacts, CutIds
<1>4. buffer' \in Seq(Row) /\ Trace!Ids(buffer') = Trace!Ids(Trace!Cut(buffer)) \cup {nextId + 1}
  BY <1>1, <1>3, AppendIds
<1>5. Typed'
  BY <1>1, <1>2, <1>4 DEF Books, Typed
<1>6. Trace!EventsAccounted'
  <2>1. Trace!Unwritten' = Trace!Ids(buffer')
          \cup UNION {Trace!Ids(held[f]) : f \in Trace!Flusher}
    BY <1>1 DEF Trace!Unwritten
  <2> QED BY <1>1, <1>2, <1>4, <2>1 DEF Trace!EventsAccounted, Books, Trace!Unwritten
<1>7. Asked' /\ Carried'
  BY <1>1 DEF Books, Asked, Carried
<1> QED BY <1>5, <1>6, <1>7 DEF Books

\* The two flushers are writers, and the one that saves the row is none of them.
LEMMA Flushers == Trace!Flusher \subseteq Trace!Writer /\ "row" \in Trace!Writer
  /\ "row" \notin Trace!Flusher
                  /\ "loop" \in Trace!Flusher /\ "runner" \in Trace!Flusher
BY DEF Trace!Flusher, Trace!Writer

\* The rows taken by a flusher that had none.
LEMMA TakeHeld ==
  ASSUME Books, NEW f \in Trace!Flusher, at[f] = "idle", held' = [held EXCEPT ![f] = buffer],
         buffer' = <<>>
  PROVE  /\ held' \in [Trace!Flusher -> Seq(Row)] /\ buffer' \in Seq(Row)
         /\ \A g \in Trace!Flusher : held'[g] = IF g = f THEN buffer ELSE held[g]
         /\ Trace!Unwritten' = Trace!Unwritten
<1>1. held \in [Trace!Flusher -> Seq(Row)] /\ buffer \in Seq(Row) /\ held[f] = <<>>
        /\ Trace!Ids(held[f]) = {}
  BY Emptied DEF Books, Typed, Carried
<1>2. /\ held' \in [Trace!Flusher -> Seq(Row)] /\ buffer' \in Seq(Row)
      /\ \A g \in Trace!Flusher : held'[g] = IF g = f THEN buffer ELSE held[g]
  BY <1>1
<1>3. UNION {Trace!Ids(held'[g]) : g \in Trace!Flusher} = Trace!Ids(buffer)
        \cup UNION {Trace!Ids(held[g]) : g \in Trace!Flusher}
  BY <1>1, <1>2
<1> QED BY <1>1, <1>2, <1>3, Emptied DEF Trace!Unwritten

\* A flusher takes the buffer: what was unwritten there is unwritten with it.
LEMMA BooksTake ==
  ASSUME Books, NEW f \in Trace!Flusher, at[f] = "idle", held' = [held EXCEPT ![f] = buffer],
         buffer' = <<>>, asks' = Append(asks, <<f, "insert">>), at' = [at EXCEPT ![f] = "insert"],
         asked' \subseteq Trace!Known, UNCHANGED <<seqOf, dropped, nextId, Trace!disk, forgone,
         failures, restarts>>
  PROVE  Books'
<1>1. /\ Asked' /\ (asks \in Seq(Trace!Writer \X Kinds))' /\ (at \in [Trace!Writer -> Places])'
  BY AskMore, Flushers DEF Books, Kinds
<1>2. /\ held' \in [Trace!Flusher -> Seq(Row)] /\ buffer' \in Seq(Row)
      /\ \A g \in Trace!Flusher : held'[g] = IF g = f THEN buffer ELSE held[g]
      /\ Trace!Unwritten' = Trace!Unwritten
  BY TakeHeld
<1>3. Typed' /\ Trace!Known' = Trace!Known
  BY <1>1, <1>2 DEF Books, Typed, Trace!disk, Trace!Known
<1>4. Trace!EventsAccounted'
  BY <1>2, <1>3 DEF Books, Trace!EventsAccounted, Trace!disk
<1>5. \A g \in Trace!Flusher : at'[g] = IF g = f THEN "insert" ELSE at[g]
  BY Flushers DEF Books, Typed
<1>6. Carried'
  BY <1>2, <1>5 DEF Books, Carried, Trace!disk
<1> QED BY <1>1, <1>3, <1>4, <1>6 DEF Books

\* The flush of the loop takes the buffer.
LEMMA BooksFlushLoop == Books /\ Trace!FlushLoop => Books'
<1> SUFFICES ASSUME Books, Trace!FlushLoop PROVE Books'
  OBVIOUS
<1>1. asked' \subseteq Trace!Known
  BY DEF Trace!FlushLoop, Books, Typed
<1> QED BY <1>1, BooksTake, Flushers DEF Trace!FlushLoop, Trace!Take

\* So does the flush before a read, which fixes what is asked for.
LEMMA BooksFlushThenRead == Books /\ Trace!FlushThenRead => Books'
<1> SUFFICES ASSUME Books, Trace!FlushThenRead PROVE Books'
  OBVIOUS
<1>0. asked' \subseteq Trace!Known /\ at["runner"] = "idle"
      /\ UNCHANGED <<seqOf, dropped, nextId, Trace!disk, forgone, failures, restarts>>
  BY DEF Trace!FlushThenRead
<1>1. CASE buffer # <<>>
  BY <1>0, <1>1, BooksTake, Flushers DEF Trace!FlushThenRead, Trace!Take
<1>2. CASE buffer = <<>>
  <2>1. /\ asks' = Append(asks, <<"runner", "read">>) /\ UNCHANGED <<buffer, held>>
        /\ at' = [at EXCEPT !["runner"] = "read"]
    BY <1>2 DEF Trace!FlushThenRead
  <2>2. /\ Asked' /\ (asks \in Seq(Trace!Writer \X Kinds))' /\ (at \in [Trace!Writer -> Places])'
    BY <2>1, <1>0, AskMore, Flushers DEF Books, Kinds
  <2>3. Typed' /\ Trace!Known' = Trace!Known
    BY <2>1, <2>2, <1>0 DEF Books, Typed, Trace!disk, Trace!Known
  <2>4. Trace!EventsAccounted'
    BY <2>1, <2>3, <1>0 DEF Books, Trace!EventsAccounted, Trace!Unwritten, Trace!disk
  <2>5. \A g \in Trace!Flusher : at'[g] = IF g = "runner" THEN "read" ELSE at[g]
    BY <2>1, Flushers DEF Books, Typed
  <2>6. Carried'
    BY <2>1, <2>5, <1>0 DEF Books, Carried, Trace!disk
  <2> QED BY <2>2, <2>3, <2>4, <2>6 DEF Books
<1> QED BY <1>1, <1>2

\* A step of a writer that leaves rows where they are.
LEMMA BooksStill ==
  ASSUME Books, UNCHANGED <<Trace!mem, Trace!disk, held, forgone, asked, restarts>>,
    failures' \in Nat,
         Asked', (asks \in Seq(Trace!Writer \X Kinds))', (at \in [Trace!Writer -> Places])',
         Carried'
  PROVE  Books'
<1>1. Typed' /\ Trace!EventsAccounted'
  BY DEF Books, Typed, Trace!EventsAccounted, Trace!Unwritten, Trace!mem, Trace!disk, Trace!Known
<1> QED BY <1>1 DEF Books

\* Saving the run's row asks for a commit, and touches no event.
LEMMA BooksUpsertRow == Books /\ Trace!UpsertRow => Books'
<1> SUFFICES ASSUME Books, Trace!UpsertRow PROVE Books'
  OBVIOUS
<1>1. /\ Asked' /\ (asks \in Seq(Trace!Writer \X Kinds))' /\ (at \in [Trace!Writer -> Places])'
  BY AskMore, Flushers DEF Books, Kinds, Trace!UpsertRow
<1>2. \A g \in Trace!Flusher : at'[g] = at[g]
  BY Flushers DEF Books, Typed, Trace!UpsertRow
<1>3. Carried'
  BY <1>2 DEF Books, Carried, Trace!UpsertRow, Trace!disk
<1> QED BY <1>1, <1>3, BooksStill DEF Trace!UpsertRow, Books, Typed

\* A read ends the wait of the runner.
LEMMA BooksRead == Books /\ Trace!Read => Books'
<1> SUFFICES ASSUME Books, Trace!Read PROVE Books'
  OBVIOUS
<1>1. /\ Asked' /\ (asks \in Seq(Trace!Writer \X Kinds))' /\ (at \in [Trace!Writer -> Places])'
      /\ at["runner"] = "read"
  BY AskDone, Flushers DEF Books, Kinds, Trace!Read, Trace!Goes
<1>2. \A g \in Trace!Flusher : at'[g] = IF g = "runner" THEN "idle" ELSE at[g]
  BY Flushers DEF Books, Typed, Trace!Read, Trace!Goes
<1>3. Carried'
  BY <1>1, <1>2 DEF Books, Carried, Trace!Read, Trace!disk
<1> QED BY <1>1, <1>3, BooksStill DEF Trace!Read, Books, Typed

\* The row's commit came back.
LEMMA BooksRowSaved == Books /\ Trace!RowSaved => Books'
<1> SUFFICES ASSUME Books, Trace!RowSaved PROVE Books'
  OBVIOUS
<1>1. /\ Asked' /\ (asks \in Seq(Trace!Writer \X Kinds))' /\ (at \in [Trace!Writer -> Places])'
  BY AskNone, Flushers DEF Books, Kinds, Trace!RowSaved, Trace!Goes
<1>2. \A g \in Trace!Flusher : at'[g] = at[g]
  BY Flushers DEF Books, Typed, Trace!RowSaved, Trace!Goes
<1>3. Carried'
  BY <1>2 DEF Books, Carried, Trace!RowSaved, Trace!disk
<1> QED BY <1>1, <1>3, BooksStill DEF Trace!RowSaved, Books, Typed

\* A flusher whose rows are inserted asks for their commit.
LEMMA BooksAskCommit ==
  ASSUME Books, NEW f \in Trace!Flusher, Trace!AskCommit(f)
  PROVE  Books'
<1>1. /\ Asked' /\ (asks \in Seq(Trace!Writer \X Kinds))' /\ (at \in [Trace!Writer -> Places])'
  BY AskMore, Flushers DEF Books, Kinds, Trace!AskCommit, Trace!Goes
<1>2. \A g \in Trace!Flusher : at'[g] = IF g = f THEN "commit" ELSE at[g]
  BY Flushers DEF Books, Typed, Trace!AskCommit, Trace!Goes
<1>3. Carried'
  BY <1>2 DEF Books, Carried, Trace!AskCommit, Trace!disk
<1> QED BY <1>1, <1>3, BooksStill DEF Trace!AskCommit, Books, Typed

\* What an insert does: rows the flusher holds, all of them unless it fails.
LEMMA InsertFacts ==
  ASSUME Books, NEW f \in Trace!Flusher, Trace!Insert(f)
  PROVE  /\ tx \subseteq tx' /\ tx' \subseteq Row /\ db' = db
         /\ \/ at' = [at EXCEPT ![f] = "inserted"] /\ \A i \in DOMAIN held[f] : held[f][i] \in tx'
            \/ at' = [at EXCEPT ![f] = "failed"]
         /\ (\A i \in DOMAIN held[f] : Trace!Fits(held[f], i)) =>
              /\ at' = [at EXCEPT ![f] = "inserted"]
              /\ tx' = tx \cup {held[f][i] : i \in DOMAIN held[f]}
         /\ \A r \in tx' : r \in tx \/ \E i \in DOMAIN held[f] : r = held[f][i]
<1> DEFINE rows == held[f]
           bad  == {i \in DOMAIN rows : ~Trace!Fits(rows, i)}
           upTo == IF bad = {} THEN Len(rows) ELSE (CHOOSE i \in bad : \A j \in bad : i <= j) - 1
<1>1. /\ tx' = tx \cup {rows[i] : i \in 1..upTo} /\ db' = db
      /\ at' = [at EXCEPT ![f] = IF bad = {} THEN "inserted" ELSE "failed"]
  BY DEF Trace!Insert, Trace!Goes
<1>2. rows \in Seq(Row) /\ tx \subseteq Row
  BY DEF Books, Typed
<1>3. bad \subseteq DOMAIN rows
  OBVIOUS
<1>4. 1..upTo \subseteq DOMAIN rows
  <2>1. CASE bad = {}
    BY <2>1, <1>2
  <2>2. CASE bad # {}
    <3> HIDE DEF bad
    <3>1. \E i \in bad : \A j \in bad : i <= j
      <4>1. bad \subseteq Nat /\ bad # {}
        BY <1>2, <1>3, <2>2
      <4>2. PICK n \in bad : TRUE
        BY <4>1
      <4> QED BY <4>1, LeastOf
    <3>2. (CHOOSE i \in bad : \A j \in bad : i <= j) \in bad
      BY <3>1
    <3> DEFINE m == CHOOSE i \in bad : \A j \in bad : i <= j
    <3>3. upTo = m - 1
      BY <2>2
    <3>4. m \in DOMAIN rows
      BY <3>2, <1>3
    <3> HIDE DEF upTo, m
    <3>5. DOMAIN rows = 1..Len(rows) /\ Len(rows) \in Nat
      BY <1>2
    <3> QED BY <3>3, <3>4, <3>5
  <2> QED BY <2>1, <2>2
<1>5. bad = {} => 1..upTo = DOMAIN rows
  BY <1>2
<1> HIDE DEF upTo
<1>6. tx \subseteq tx' /\ tx' \subseteq Row
        /\ \A r \in tx' : r \in tx \/ \E i \in DOMAIN rows : r = rows[i]
  BY <1>1, <1>2, <1>4
<1>7. bad = {} => /\ at' = [at EXCEPT ![f] = "inserted"]
                  /\ tx' = tx \cup {rows[i] : i \in DOMAIN rows}
  BY <1>1, <1>5
<1>8. bad # {} => at' = [at EXCEPT ![f] = "failed"]
  BY <1>1
<1>9. (\A i \in DOMAIN rows : Trace!Fits(rows, i)) => bad = {}
  OBVIOUS
<1> QED BY <1>1, <1>6, <1>7, <1>8, <1>9

\* Rows are inserted into the open transaction.
LEMMA BooksInsert ==
  ASSUME Books, NEW f \in Trace!Flusher, Trace!Insert(f)
  PROVE  Books'
<1>1. PICK a \in {"inserted", "failed"} :
        /\ at' = [at EXCEPT ![f] = a]
        /\ a = "inserted" => \A i \in DOMAIN held[f] : held[f][i] \in tx'
        /\ tx \subseteq tx' /\ tx' \subseteq Row /\ db' = db
  BY InsertFacts
<1>2. /\ Asked' /\ (asks \in Seq(Trace!Writer \X Kinds))' /\ (at \in [Trace!Writer -> Places])'
  BY <1>1, AskDone, Flushers DEF Books, Kinds, Trace!Insert
<1>3. UNCHANGED <<Trace!mem, held, forgone, asked, failures, restarts>>
  BY DEF Trace!Insert
<1>4. Typed' /\ Trace!EventsAccounted'
  BY <1>1, <1>2, <1>3 DEF Books, Typed, Trace!EventsAccounted, Trace!Unwritten, Trace!mem,
     Trace!Known
<1>5. \A g \in Trace!Flusher : at'[g] = IF g = f THEN a ELSE at[g]
  BY <1>1, Flushers DEF Books, Typed
<1>6. Carried'
  BY <1>1, <1>3, <1>5 DEF Books, Carried
<1> QED BY <1>2, <1>4, <1>6 DEF Books

\* A commit makes the open transaction part of the table, or fails and leaves it.
LEMMA BooksCommit ==
  ASSUME Books, NEW w \in Trace!Writer, Trace!Commit(w)
  PROVE  Books'
<1>0. UNCHANGED <<Trace!mem, held, forgone, asked, restarts>> /\ Trace!Asks(w, "commit")
  BY DEF Trace!Commit
<1>1. CASE db' = db \cup tx /\ tx' = {} /\ Trace!Goes(w, "done") /\ UNCHANGED failures
  <2>1. /\ Asked' /\ (asks \in Seq(Trace!Writer \X Kinds))' /\ (at \in [Trace!Writer -> Places])'
        /\ at[w] = "commit"
    BY <1>0, <1>1, AskDone DEF Books, Kinds, Trace!Goes
  <2>2. Typed' /\ Trace!EventsAccounted'
    BY <1>0, <1>1, <2>1 DEF Books, Typed, Trace!EventsAccounted, Trace!Unwritten, Trace!mem,
       Trace!Known
  <2>3. \A g \in Trace!Flusher : at'[g] = IF g = w THEN "done" ELSE at[g]
    BY <1>1, Flushers DEF Books, Typed, Trace!Goes
  <2>4. Carried'
    BY <1>0, <1>1, <2>1, <2>3 DEF Books, Carried
  <2> QED BY <2>1, <2>2, <2>4 DEF Books
<1>2. CASE failures' = failures + 1 /\ Trace!Goes(w, "failed") /\ UNCHANGED Trace!disk
  <2>1. /\ Asked' /\ (asks \in Seq(Trace!Writer \X Kinds))' /\ (at \in [Trace!Writer -> Places])'
        /\ at[w] = "commit"
    BY <1>0, <1>2, AskDone DEF Books, Kinds, Trace!Goes
  <2>2. \A g \in Trace!Flusher : at'[g] = IF g = w THEN "failed" ELSE at[g]
    BY <1>2, Flushers DEF Books, Typed, Trace!Goes
  <2>3. Carried'
    BY <1>0, <1>2, <2>2 DEF Books, Carried, Trace!disk
  <2> QED BY <1>0, <1>2, <2>1, <2>3, BooksStill DEF Books, Typed
<1> QED BY <1>1, <1>2 DEF Trace!Commit

\* A flusher goes on once it has its answer.
LEMMA AskAfter ==
  ASSUME Books, NEW f \in Trace!Flusher, at[f] \in {"done", "failed"}, Trace!After(f)
  PROVE  /\ Asked' /\ (asks \in Seq(Trace!Writer \X Kinds))' /\ (at \in [Trace!Writer -> Places])'
         /\ \A g \in Trace!Flusher : at'[g] = IF g = f THEN (IF f = "runner" THEN "read"
             ELSE "idle")
                                  ELSE at[g]
<1>1. CASE f = "runner"
  <2>1. at' = [at EXCEPT ![f] = "read"] /\ asks' = Append(asks, <<f, "read">>)
    BY <1>1 DEF Trace!After, Trace!Goes
  <2> QED BY <1>1, <2>1, AskMore, Flushers DEF Books, Typed, Kinds
<1>2. CASE f # "runner"
  <2>1. at' = [at EXCEPT ![f] = "idle"] /\ asks' = asks
    BY <1>2 DEF Trace!After, Trace!Goes
  <2> QED BY <1>2, <2>1, AskNone, Flushers DEF Books, Typed, Kinds
<1> QED BY <1>1, <1>2

\* A flush that is done lets its rows go: they are in the table.
LEMMA BooksFlushed ==
  ASSUME Books, NEW f \in Trace!Flusher, Trace!Flushed(f)
  PROVE  Books'
<1>1. /\ at[f] = "done" /\ Trace!After(f) /\ held' = [held EXCEPT ![f] = <<>>]
      /\ UNCHANGED <<Trace!mem, Trace!disk, forgone, asked, failures, restarts>>
  BY DEF Trace!Flushed
<1>2. /\ Asked' /\ (asks \in Seq(Trace!Writer \X Kinds))' /\ (at \in [Trace!Writer -> Places])'
      /\ \A g \in Trace!Flusher : at'[g] = IF g = f THEN (IF f = "runner" THEN "read" ELSE "idle")
                               ELSE at[g]
  BY <1>1, AskAfter
<1>3. held' \in [Trace!Flusher -> Seq(Row)]
        /\ \A g \in Trace!Flusher : held'[g] = IF g = f THEN <<>> ELSE held[g]
  BY <1>1 DEF Books, Typed
<1>4. Typed' /\ Trace!Known' = Trace!Known
  BY <1>1, <1>2, <1>3 DEF Books, Typed, Trace!mem, Trace!disk, Trace!Known
<1>5. Trace!Ids(held[f]) \subseteq {r.id : r \in db}
  BY <1>1 DEF Books, Carried, Trace!Ids
<1>6. buffer' = buffer /\ dropped' = dropped /\ forgone' = forgone /\ db' = db
  BY <1>1 DEF Trace!mem, Trace!disk
<1>7. Trace!EventsAccounted'
  <2>1. Trace!Unwritten \subseteq Trace!Unwritten' \cup {r.id : r \in db}
    BY <1>3, <1>5, <1>6 DEF Trace!Unwritten
  <2> QED BY <1>4, <1>6, <2>1 DEF Books, Trace!EventsAccounted
<1>8. Carried'
  BY <1>1, <1>2, <1>3 DEF Books, Carried, Trace!disk
<1> QED BY <1>2, <1>4, <1>7, <1>8 DEF Books

\* A flush that failed puts its rows back; what the bound drops is counted.
LEMMA BooksPutBack ==
  ASSUME Books, NEW f \in Trace!Flusher, Trace!PutBack(f)
  PROVE  Books'
<1>1. /\ at[f] = "failed" /\ Trace!After(f) /\ held' = [held EXCEPT ![f] = <<>>]
      /\ buffer' = Trace!Cut(held[f] \o buffer)
      /\ dropped' = dropped
          \cup (Trace!Ids(held[f] \o buffer) \ Trace!Ids(Trace!Cut(held[f] \o buffer)))
      /\ UNCHANGED <<seqOf, nextId, Trace!disk, forgone, asked, failures, restarts>>
  BY DEF Trace!PutBack, Trace!Restored
<1>2. /\ Asked' /\ (asks \in Seq(Trace!Writer \X Kinds))' /\ (at \in [Trace!Writer -> Places])'
      /\ \A g \in Trace!Flusher : at'[g] = IF g = f THEN (IF f = "runner" THEN "read" ELSE "idle")
                               ELSE at[g]
  BY <1>1, AskAfter
<1>3. held' \in [Trace!Flusher -> Seq(Row)]
        /\ \A g \in Trace!Flusher : held'[g] = IF g = f THEN <<>> ELSE held[g]
  BY <1>1 DEF Books, Typed
<1>4. held[f] \in Seq(Row) /\ buffer \in Seq(Row)
  BY DEF Books, Typed
<1>5. held[f] \o buffer \in Seq(Row)
        /\ Trace!Ids(held[f] \o buffer) = Trace!Ids(held[f]) \cup Trace!Ids(buffer)
  BY <1>4, ConcatIds
<1>6. buffer' \in Seq(Row)
  BY <1>1, <1>5, CutFacts
<1>7. Typed' /\ Trace!Known' = Trace!Known
  BY <1>1, <1>2, <1>3, <1>6 DEF Books, Typed, Trace!disk, Trace!Known
<1>8. dropped \subseteq dropped'
        /\ Trace!Ids(held[f]) \cup Trace!Ids(buffer) \subseteq dropped' \cup Trace!Ids(buffer')
  BY <1>1, <1>5
<1>9. Trace!Unwritten \subseteq Trace!Unwritten' \cup dropped'
  BY <1>3, <1>8 DEF Trace!Unwritten
<1>10. Trace!EventsAccounted'
  BY <1>1, <1>7, <1>8, <1>9 DEF Books, Trace!EventsAccounted, Trace!disk
<1>11. Carried'
  BY <1>1, <1>2, <1>3 DEF Books, Carried, Trace!disk
<1> QED BY <1>2, <1>7, <1>10, <1>11 DEF Books

\* close: what is not written is forgone.
LEMMA BooksClose == Books /\ Trace!Close => Books'
<1> SUFFICES ASSUME Books, Trace!Close PROVE Books'
  OBVIOUS
<1>1. /\ \A w \in Trace!Writer \ {"loop"} : at[w] = "idle"
      /\ forgone' = forgone \cup Trace!Unwritten
      /\ held' = [held EXCEPT !["loop"] = <<>>] /\ buffer' = <<>> /\ asks' = <<>>
      /\ at' = [at EXCEPT !["loop"] = "idle"] /\ tx' = {}
      /\ UNCHANGED <<seqOf, dropped, nextId, db, asked, missedRead, failures, restarts>>
  BY DEF Trace!Close, Trace!Goes
<1>2. /\ at' \in [Trace!Writer -> Places] /\ \A w \in Trace!Writer : at'[w] = "idle"
      /\ held' \in [Trace!Flusher -> Seq(Row)] /\ asks' \in Seq(Trace!Writer \X Kinds)
          /\ buffer' \in Seq(Row)
  BY <1>1, Flushers DEF Books, Typed, Places
<1>3. \A f \in Trace!Flusher : held'[f] = <<>>
  BY <1>1, Flushers DEF Books, Typed, Carried, Trace!Flusher, Trace!Writer
<1>4. Typed' /\ Trace!Known' = Trace!Known
  BY <1>1, <1>2 DEF Books, Typed, Trace!Known
<1>5. Asked'
  BY <1>1, <1>2 DEF Asked, Kinds
<1>6. Carried'
  BY <1>2, <1>3, Flushers DEF Carried
<1>7. Trace!EventsAccounted'
  BY <1>1, <1>4 DEF Books, Trace!EventsAccounted
<1> QED BY <1>4, <1>5, <1>6, <1>7 DEF Books

\* The process ends: what is not committed is forgone.
LEMMA BooksRestart == Books /\ Trace!Restart => Books'
<1> SUFFICES ASSUME Books, Trace!Restart PROVE Books'
  OBVIOUS
<1>1. /\ forgone' = forgone \cup Trace!Unwritten
      /\ seqOf' = 0 /\ held' = [f \in Trace!Flusher |-> <<>>] /\ buffer' = <<>> /\ asks' = <<>>
      /\ at' = [w \in Trace!Writer |-> "idle"] /\ tx' = {} /\ asked' = {}
          /\ restarts' = restarts + 1
      /\ UNCHANGED <<dropped, nextId, db, failures>>
  BY DEF Trace!Restart
<1>2. /\ at' \in [Trace!Writer -> Places] /\ \A w \in Trace!Writer : at'[w] = "idle"
      /\ held' \in [Trace!Flusher -> Seq(Row)] /\ asks' \in Seq(Trace!Writer \X Kinds)
          /\ buffer' \in Seq(Row)
      /\ \A f \in Trace!Flusher : held'[f] = <<>>
  BY <1>1 DEF Places
<1>4. Typed' /\ Trace!Known' = Trace!Known
  BY <1>1, <1>2 DEF Books, Typed, Trace!Known
<1>5. Asked'
  BY <1>1, <1>2 DEF Asked, Kinds
<1>6. Carried'
  BY <1>2, Flushers DEF Carried
<1>7. Trace!EventsAccounted'
  BY <1>1, <1>4 DEF Books, Trace!EventsAccounted
<1> QED BY <1>4, <1>5, <1>6, <1>7 DEF Books

\* No rows are in order.
LEMMA OrderedEmpty == Ordered(<<>>) /\ Numbered(<<>>)
BY DEF Ordered, Numbered

\* _bounded keeps the order.
LEMMA OrderedCut ==
  ASSUME NEW s \in Seq(Row), Ordered(s), Numbered(s)
  PROVE  Ordered(Trace!Cut(s)) /\ Numbered(Trace!Cut(s))
<1>1. PICK k \in Nat : /\ Trace!Cut(s) \in Seq(Row)
                       /\ \A i \in DOMAIN Trace!Cut(s) : i + k \in DOMAIN s
                           /\ Trace!Cut(s)[i] = s[i + k]
  BY CutFacts
<1>2. DOMAIN Trace!Cut(s) \subseteq Nat
  BY <1>1
<1>3. \A i, j \in DOMAIN Trace!Cut(s) : i < j => i + k < j + k
  BY <1>2
<1>4. Ordered(Trace!Cut(s))
  BY <1>1, <1>3 DEF Ordered
<1>5. Numbered(Trace!Cut(s))
  BY <1>1 DEF Numbered
<1> QED BY <1>4, <1>5

\* A newer event at the end keeps the order.
LEMMA OrderedAppend ==
  ASSUME NEW s \in Seq(Row), NEW r \in Row, Ordered(s), Numbered(s), r.seq = r.id,
         \A n \in Trace!Ids(s) : n < r.id
  PROVE  Ordered(Append(s, r)) /\ Numbered(Append(s, r))
<1> DEFINE t == Append(s, r)
<1>1. /\ DOMAIN t = DOMAIN s \cup {Len(s) + 1} /\ \A i \in DOMAIN s : t[i] = s[i]
      /\ t[Len(s) + 1] = r
  BY AppendIds
<1>2. DOMAIN s = 1..Len(s) /\ Len(s) \in Nat
  OBVIOUS
<1>3. \A i \in DOMAIN s : s[i].id < r.id
  BY DEF Trace!Ids
<1> HIDE DEF t
<1>4. Ordered(t)
  <2> SUFFICES ASSUME NEW i \in DOMAIN t, NEW j \in DOMAIN t, i < j PROVE t[i].id < t[j].id
    BY DEF Ordered
  <2>1. i \in DOMAIN s
    BY <1>1, <1>2
  <2>2. CASE j \in DOMAIN s
    BY <2>1, <2>2, <1>1 DEF Ordered
  <2>3. CASE j \notin DOMAIN s
    BY <2>1, <2>3, <1>1, <1>3
  <2> QED BY <2>2, <2>3
<1>5. Numbered(t)
  BY <1>1 DEF Numbered
<1> QED BY <1>4, <1>5 DEF t

\* A request at the end of the queue leaves the loop's insert before it.
LEMMA LoopFirstAppend ==
  ASSUME NEW q \in Seq(Trace!Writer \X Kinds), NEW e \in Trace!Writer \X Kinds, LoopFirst(q)
  PROVE  LoopFirst(Append(q, e))
<1> DEFINE t == Append(q, e)
<1>1. /\ DOMAIN t = DOMAIN q \cup {Len(q) + 1} /\ \A i \in DOMAIN q : t[i] = q[i]
      /\ DOMAIN q = 1..Len(q) /\ Len(q) \in Nat
  OBVIOUS
<1> HIDE DEF t
<1>2. PICK j \in DOMAIN q : /\ q[j] = <<"loop", "insert">>
                            /\ \A i \in DOMAIN q : q[i][1] = "runner" => j < i
  BY DEF LoopFirst
<1>3. \A i \in DOMAIN t : t[i][1] = "runner" => j < i
  BY <1>1, <1>2
<1> QED BY <1>1, <1>2, <1>3 DEF LoopFirst, t

\* The loop's insert stays first while others are carried out.
LEMMA LoopFirstTail ==
  ASSUME NEW q \in Seq(Trace!Writer \X Kinds), q # <<>>, Head(q) # <<"loop", "insert">>,
    LoopFirst(q)
  PROVE  LoopFirst(Tail(q)) /\ Head(q)[1] # "runner"
<1> DEFINE t == Tail(q)
<1>1. /\ \A i \in DOMAIN t : i + 1 \in DOMAIN q /\ t[i] = q[i + 1]
      /\ \A i \in DOMAIN q : i = 1 \/ (i - 1 \in DOMAIN t /\ t[i - 1] = q[i])
      /\ q[1] = Head(q) /\ 1 \in DOMAIN q /\ DOMAIN q \subseteq Nat \ {0}
          /\ DOMAIN t \subseteq Nat
  OBVIOUS
<1> HIDE DEF t
<1>2. PICK j \in DOMAIN q : /\ q[j] = <<"loop", "insert">>
                            /\ \A i \in DOMAIN q : q[i][1] = "runner" => j < i
  BY DEF LoopFirst
<1>3. j # 1 /\ j - 1 \in DOMAIN t /\ t[j - 1] = <<"loop", "insert">>
  BY <1>1, <1>2
<1>4. \A i \in DOMAIN t : t[i][1] = "runner" => j - 1 < i
  <2> SUFFICES ASSUME NEW i \in DOMAIN t, t[i][1] = "runner" PROVE j - 1 < i
    OBVIOUS
  <2>1. j < i + 1
    BY <1>1, <1>2
  <2> QED BY <2>1, <1>1
<1>5. Head(q)[1] # "runner"
  BY <1>1, <1>2
<1>6. LoopFirst(t)
  BY <1>3, <1>4 DEF LoopFirst
<1> QED BY <1>5, <1>6 DEF t

\* Steps that leave rows where they are, and the order of the requests.
LEMMA QuietStill ==
  ASSUME Books, Quiet, UNCHANGED <<Trace!mem, held, forgone, asked>>, tx' \cup db' = tx \cup db,
         \A f \in Trace!Flusher : at'[f] # "failed" /\ (at'[f] = "insert" => at[f] = "insert"),
         at'["runner"] # "idle" => at["runner"] # "idle",
         at'["loop"] = "insert" /\ at'["runner"] # "idle" /\ LoopFirst(asks) => LoopFirst(asks')
  PROVE  InOrder' /\ Awaited'
<1>1. /\ Trace!Stored' = Trace!Stored /\ Trace!Known' = Trace!Known /\ seqOf' = seqOf
          /\ nextId' = nextId /\ buffer' = buffer
      /\ held' = held /\ asked' = asked /\ ToRead' = ToRead
  BY DEF Trace!mem, Trace!Stored, Trace!Known, ToRead
<1>2. InOrder'
  BY <1>1 DEF Quiet, InOrder
<1>3. Awaited'
  BY <1>1, Flushers DEF Quiet, Awaited
<1> QED BY <1>2, <1>3

\* record, in calm: the new event has the largest number.
LEMMA QuietRecord ==
  ASSUME Books, Quiet, Trace!Record
  PROVE  Quiet'
<1> DEFINE new == [id |-> nextId + 1, seq |-> seqOf + 1]
<1>1. /\ nextId \in Nat /\ seqOf = nextId /\ buffer \in Seq(Row) /\ new \in Row
      /\ nextId' = nextId + 1 /\ seqOf' = seqOf + 1 /\ buffer' = Append(Trace!Cut(buffer), new)
      /\ dropped' = dropped \cup (Trace!Ids(buffer) \ Trace!Ids(Trace!Cut(buffer)))
      /\ held' = held /\ asks' = asks /\ at' = at /\ tx' = tx /\ db' = db /\ forgone' = forgone
      /\ asked' = asked /\ missedRead' = missedRead
  BY DEF Books, Typed, Trace!Record, Trace!disk, Row, Quiet, InOrder
<1>2. /\ Trace!Known' = Trace!Known \cup {nextId + 1} /\ nextId + 1 \notin Trace!Known
      /\ \A n \in Trace!Known : n < nextId + 1
  BY <1>1 DEF Trace!Known
<1>3. Trace!Cut(buffer) \in Seq(Row) /\ Trace!Ids(Trace!Cut(buffer)) \subseteq Trace!Ids(buffer)
  BY <1>1, CutFacts, CutIds
<1>4. Trace!Ids(buffer') = Trace!Ids(Trace!Cut(buffer)) \cup {nextId + 1}
  BY <1>1, <1>3, AppendIds
<1>5. /\ Trace!Ids(buffer) \subseteq Trace!Known /\ Trace!Stored \subseteq Trace!Known
          /\ asked \subseteq Trace!Known
      /\ \A f \in Trace!Flusher : Trace!Ids(held[f]) \subseteq Trace!Known
  BY DEF Books, Typed, Quiet, InOrder
<1>6. Ordered(buffer') /\ Numbered(buffer')
  <2>1. Ordered(Trace!Cut(buffer)) /\ Numbered(Trace!Cut(buffer))
    BY <1>1, OrderedCut DEF Quiet, InOrder
  <2>2. \A n \in Trace!Ids(Trace!Cut(buffer)) : n < new.id
    BY <1>2, <1>3, <1>5
  <2> QED BY <1>1, <1>3, <2>1, <2>2, OrderedAppend
<1>7. Trace!Stored' = Trace!Stored
  BY <1>1 DEF Trace!Stored
<1>8. \A m \in Trace!Ids(buffer') : \A n \in Trace!Stored : n < m
  BY <1>2, <1>3, <1>4, <1>5 DEF Quiet, InOrder
<1>9. \A f \in Trace!Flusher : \A m \in Trace!Ids(buffer') : \A n \in Trace!Ids(held[f]) : n < m
  BY <1>2, <1>3, <1>4, <1>5 DEF Quiet, InOrder
<1>10. InOrder'
  <2>1. seqOf' = nextId' /\ Trace!Stored' \cup Trace!Ids(buffer') \subseteq Trace!Known'
    BY <1>1, <1>2, <1>3, <1>4, <1>5, <1>7
  <2>2. \A f \in Trace!Flusher : Trace!Ids(held'[f]) \subseteq Trace!Known'
    BY <1>1, <1>2, <1>5
  <2> QED BY <1>1, <1>6, <1>7, <1>8, <1>9, <2>1, <2>2 DEF Quiet, InOrder
<1>11. Awaited'
  <2>1. ToRead' \subseteq ToRead
    BY <1>1 DEF ToRead
  <2>2. Trace!Ids(buffer) \cap asked = {} => Trace!Ids(buffer') \cap asked = {}
    BY <1>2, <1>3, <1>4, <1>5
  <2> QED BY <1>1, <1>7, <2>1, <2>2 DEF Quiet, Awaited
<1> QED BY <1>1, <1>10, <1>11 DEF Quiet

\* The buffer changes hands.
LEMMA QuietTake ==
  ASSUME Books, Quiet, NEW f \in Trace!Flusher, at[f] = "idle",
    held' = [held EXCEPT ![f] = buffer],
         buffer' = <<>>, at' = [at EXCEPT ![f] = "insert"],
         UNCHANGED <<seqOf, dropped, nextId, Trace!disk, forgone>>
  PROVE  /\ InOrder' /\ Trace!Stored' = Trace!Stored /\ Trace!Ids(buffer') = {}
         /\ \A g \in Trace!Flusher : held'[g] = (IF g = f THEN buffer ELSE held[g])
                               /\ at'[g] = (IF g = f THEN "insert" ELSE at[g])
<1>1. \A g \in Trace!Flusher : held'[g] = (IF g = f THEN buffer ELSE held[g])
                         /\ at'[g] = (IF g = f THEN "insert" ELSE at[g])
  BY TakeHeld, Flushers DEF Books, Typed
<1>2. Trace!Stored' = Trace!Stored /\ Trace!Known' = Trace!Known /\ Trace!Ids(buffer') = {}
        /\ Ordered(buffer') /\ Numbered(buffer')
  BY OrderedEmpty, Emptied DEF Trace!disk, Trace!Stored, Trace!Known
<1>3. \A g \in Trace!Flusher : \A m \in Trace!Ids(buffer) : \A n \in Trace!Ids(held[g]) : n < m
  BY DEF Quiet, InOrder
<1>4. Trace!Ids(buffer) \subseteq Nat /\ Trace!Stored \subseteq Trace!Known
        /\ Trace!Ids(buffer) \subseteq Trace!Known
  <2>1. buffer \in Seq(Row)
    BY DEF Books, Typed
  <2>2. \A i \in DOMAIN buffer : buffer[i] \in Row
    BY <2>1
  <2>3. Trace!Ids(buffer) \subseteq Nat
    BY <2>2 DEF Trace!Ids, Row
  <2> QED BY <2>3 DEF Quiet, InOrder
<1>5. Trace!Ids(buffer) \cap Trace!Stored = {}
        /\ \A g \in Trace!Flusher : Trace!Ids(buffer) \cap Trace!Ids(held[g]) = {}
  <2>1. \A m \in Trace!Ids(buffer) : ~(m < m)
    BY <1>4
  <2>2. \A m \in Trace!Ids(buffer) : \A n \in Trace!Stored : n < m
    BY DEF Quiet, InOrder
  <2> QED BY <1>3, <2>1, <2>2
<1>6. \A g \in Trace!Flusher :
          /\ Ordered(held'[g]) /\ Numbered(held'[g]) /\ at'[g] # "failed"
              /\ Trace!Ids(held'[g]) \subseteq Trace!Known
          /\ at'[g] = "insert" =>
                /\ Trace!Ids(held'[g]) \cap Trace!Stored = {}
                /\ \A h \in Trace!Flusher \ {g} : Trace!Ids(held'[g]) \cap Trace!Ids(held'[h]) = {}
  <2> TAKE g \in Trace!Flusher
  <2>1. CASE g = f
    <3>1. held'[g] = buffer /\ at'[g] = "insert"
            /\ \A h \in Trace!Flusher \ {g} : held'[h] = held[h]
      BY <2>1, <1>1
    <3> QED BY <3>1, <1>4, <1>5 DEF Quiet, InOrder
  <2>2. CASE g # f
    <3>1. held'[g] = held[g] /\ at'[g] = at[g]
          /\ \A h \in Trace!Flusher : held'[h] = held[h] \/ held'[h] = buffer
      BY <2>2, <1>1
    <3> QED BY <3>1, <1>5 DEF Quiet, InOrder
  <2> QED BY <2>1, <2>2
<1>7. InOrder'
  BY <1>2, <1>6 DEF Quiet, InOrder, Trace!disk
<1> QED BY <1>1, <1>2, <1>7

\* The loop's flush, in calm: what it takes is inserted nowhere else.
LEMMA QuietFlushLoop ==
  ASSUME Books, Quiet, Trace!FlushLoop
  PROVE  Quiet'
<1>1. /\ at["loop"] = "idle" /\ held' = [held EXCEPT !["loop"] = buffer] /\ buffer' = <<>>
      /\ at' = [at EXCEPT !["loop"] = "insert"] /\ asks' = Append(asks, <<"loop", "insert">>)
      /\ UNCHANGED <<seqOf, dropped, nextId, Trace!disk, forgone, asked, missedRead>>
  BY DEF Trace!FlushLoop, Trace!Take
<1>2. /\ InOrder' /\ Trace!Stored' = Trace!Stored /\ Trace!Ids(buffer') = {}
      /\ held'["loop"] = buffer /\ held'["runner"] = held["runner"]
          /\ at'["runner"] = at["runner"]
  <2>1. UNCHANGED <<seqOf, dropped, nextId, Trace!disk, forgone>> /\ "loop" \in Trace!Flusher
    BY <1>1, Flushers
  <2>2. /\ InOrder' /\ Trace!Stored' = Trace!Stored /\ Trace!Ids(buffer') = {}
        /\ \A g \in Trace!Flusher : held'[g] = (IF g = "loop" THEN buffer ELSE held[g])
                              /\ at'[g] = (IF g = "loop" THEN "insert" ELSE at[g])
    BY <1>1, <2>1, QuietTake
  <2> QED BY <2>2, Flushers
<1>3. held["loop"] = <<>> /\ Trace!Ids(held["loop"]) = {}
  BY <1>1, Flushers, Emptied DEF Books, Carried
<1>4. Awaited'
  <2> SUFFICES ASSUME at'["runner"] # "idle" PROVE Awaited'
    BY DEF Awaited
  <2>1. /\ Trace!Ids(buffer) \cap asked = {}
        /\ ToRead \subseteq Trace!Stored \cup Trace!Ids(held["runner"])
            \cup Trace!Ids(held["loop"])
    BY <1>2 DEF Quiet, Awaited
  <2>2. ToRead' = ToRead /\ ToRead \subseteq asked
    BY <1>1 DEF ToRead
  <2> QED BY <1>1, <1>2, <1>3, <2>1, <2>2 DEF Awaited
<1> QED BY <1>1, <1>2, <1>4 DEF Quiet

\* The runner's flush, in calm: all it asks for is stored or in somebody's hands.
LEMMA QuietFlushThenRead ==
  ASSUME Books, Quiet, Trace!FlushThenRead
  PROVE  Quiet'
<1>1. /\ at["runner"] = "idle" /\ asked' = Trace!Known \ forgone /\ missedRead' = missedRead
      /\ UNCHANGED <<seqOf, dropped, nextId, Trace!disk, forgone>>
  BY DEF Trace!FlushThenRead
<1>2. ToRead' \subseteq Trace!Known \ (dropped \cup forgone) /\ held["runner"] = <<>>
  BY <1>1, Flushers DEF ToRead, Books, Carried
<1>3. Trace!Known \ (dropped \cup forgone) \subseteq Trace!Ids(buffer)
        \cup Trace!Ids(held["loop"]) \cup Trace!Stored
  <2>1. Trace!Known \ (dropped \cup forgone) \subseteq Trace!Unwritten \cup {r.id : r \in db}
    BY DEF Books, Trace!EventsAccounted
  <2>2. {r.id : r \in db} \subseteq Trace!Stored
    BY DEF Trace!Stored
  <2>3. Trace!Unwritten \subseteq Trace!Ids(buffer) \cup Trace!Ids(held["loop"])
    BY <1>2, Emptied DEF Trace!Unwritten, Trace!Flusher
  <2> QED BY <2>1, <2>2, <2>3
\* A request of the loop that waits came before the runner's.
<1>4. ASSUME NEW e \in Trace!Writer \X Kinds, asks' = Append(asks, e), e[1] = "runner",
        at["loop"] = "insert"
      PROVE  LoopFirst(asks')
  <2>1. /\ asks \in Seq(Trace!Writer \X Kinds) /\ \A i \in DOMAIN asks : at[asks[i][1]] \in Kinds
    BY DEF Books, Typed, Asked
  <2>2. PICK j \in DOMAIN asks : asks[j] = <<"loop", "insert">>
    BY <1>4, Flushers DEF Books, Asked, Kinds
  <2>3. \A i \in DOMAIN asks : asks[i][1] # "runner"
    BY <2>1, <1>1 DEF Kinds
  <2>4. LoopFirst(asks)
    BY <2>2, <2>3 DEF LoopFirst
  <2> QED BY <1>4, <2>1, <2>4, LoopFirstAppend
<1>5. CASE buffer # <<>>
  <2>1. /\ held' = [held EXCEPT !["runner"] = buffer] /\ buffer' = <<>>
        /\ at' = [at EXCEPT !["runner"] = "insert"]
            /\ asks' = Append(asks, <<"runner", "insert">>)
    BY <1>5 DEF Trace!FlushThenRead, Trace!Take
  <2>2. /\ InOrder' /\ Trace!Stored' = Trace!Stored /\ Trace!Ids(buffer') = {}
        /\ \A g \in Trace!Flusher : held'[g] = (IF g = "runner" THEN buffer ELSE held[g])
                              /\ at'[g] = (IF g = "runner" THEN "insert" ELSE at[g])
    BY <1>1, <2>1, QuietTake, Flushers
  <2>3. held'["runner"] = buffer /\ held'["loop"] = held["loop"] /\ at'["loop"] = at["loop"]
    BY <2>2, Flushers
  <2>4. at'["loop"] = "insert" => LoopFirst(asks')
    BY <1>4, <2>1, <2>3, Flushers DEF Kinds
  <2>5. Awaited'
    BY <1>2, <1>3, <2>2, <2>3, <2>4 DEF Awaited
  <2> QED BY <1>1, <2>2, <2>5 DEF Quiet
<1>6. CASE buffer = <<>>
  <2>1. /\ asks' = Append(asks, <<"runner", "read">>) /\ UNCHANGED <<buffer, held>>
        /\ at' = [at EXCEPT !["runner"] = "read"]
    BY <1>6 DEF Trace!FlushThenRead
  <2>2. \A g \in Trace!Flusher : at'[g] = (IF g = "runner" THEN "read" ELSE at[g])
    BY <2>1, Flushers DEF Books, Typed
  <2>3. Trace!Stored' = Trace!Stored /\ Trace!Known' = Trace!Known /\ Trace!Ids(buffer') = {}
          /\ at'["loop"] = at["loop"]
    BY <1>1, <1>6, <2>1, <2>2, Emptied, Flushers DEF Trace!disk, Trace!Stored, Trace!Known
  <2>4. InOrder'
    <3>1. \A g \in Trace!Flusher : at'[g] # "failed" /\ (at'[g] = "insert" => at[g] = "insert")
      BY <2>2 DEF Quiet, InOrder
    <3>2. UNCHANGED <<seqOf, nextId, buffer, held, tx, db>>
            /\ Trace!Ids(buffer') = Trace!Ids(buffer)
      BY <1>1, <2>1 DEF Trace!disk
    <3> QED BY <3>1, <3>2, <2>3 DEF Quiet, InOrder
  <2>5. at'["loop"] = "insert" => LoopFirst(asks')
    BY <1>4, <2>1, <2>3, Flushers DEF Kinds
  <2>6. Awaited'
    BY <1>2, <1>3, <1>6, <2>1, <2>3, <2>5, Emptied DEF Awaited
  <2> QED BY <1>1, <2>4, <2>6 DEF Quiet
<1> QED BY <1>5, <1>6

\* Saving the run's row, in calm.
LEMMA QuietUpsertRow ==
  ASSUME Books, Quiet, Trace!UpsertRow
  PROVE  Quiet'
<1>1. /\ at' = [at EXCEPT !["row"] = "commit"] /\ asks' = Append(asks, <<"row", "commit">>)
      /\ UNCHANGED <<Trace!mem, Trace!disk, held, forgone, asked, missedRead>>
  BY DEF Trace!UpsertRow
<1>2. \A g \in Trace!Flusher : at'[g] = at[g]
  BY <1>1, Flushers DEF Books, Typed
<1>3. LoopFirst(asks) => LoopFirst(asks')
  BY <1>1, Flushers, LoopFirstAppend DEF Books, Typed, Kinds
<1>4. InOrder' /\ Awaited'
  <2>1. \A f \in Trace!Flusher : at'[f] # "failed" /\ (at'[f] = "insert" => at[f] = "insert")
    BY <1>2 DEF Quiet, InOrder
  <2>2. at'["runner"] = at["runner"] /\ tx' \cup db' = tx \cup db
    BY <1>1, <1>2, Flushers DEF Trace!disk
  <2> QED BY <1>1, <1>3, <2>1, <2>2, QuietStill
<1> QED BY <1>1, <1>4 DEF Quiet

\* The row's commit, in calm.
LEMMA QuietRowSaved ==
  ASSUME Books, Quiet, Trace!RowSaved
  PROVE  Quiet'
<1>1. /\ at' = [at EXCEPT !["row"] = "idle"] /\ asks' = asks
      /\ UNCHANGED <<Trace!mem, Trace!disk, held, forgone, asked, missedRead>>
  BY DEF Trace!RowSaved, Trace!Goes
<1>2. \A g \in Trace!Flusher : at'[g] = at[g]
  BY <1>1, Flushers DEF Books, Typed
<1>3. InOrder' /\ Awaited'
  <2>1. \A f \in Trace!Flusher : at'[f] # "failed" /\ (at'[f] = "insert" => at[f] = "insert")
    BY <1>2 DEF Quiet, InOrder
  <2>2. at'["runner"] = at["runner"] /\ tx' \cup db' = tx \cup db
    BY <1>1, <1>2, Flushers DEF Trace!disk
  <2> QED BY <1>1, <2>1, <2>2, QuietStill
<1> QED BY <1>1, <1>3 DEF Quiet

\* A request for a commit, in calm.
LEMMA QuietAskCommit ==
  ASSUME Books, Quiet, NEW f \in Trace!Flusher, Trace!AskCommit(f)
  PROVE  Quiet'
<1>1. /\ at[f] = "inserted" /\ at' = [at EXCEPT ![f] = "commit"]
      /\ asks' = Append(asks, <<f, "commit">>)
      /\ UNCHANGED <<Trace!mem, Trace!disk, held, forgone, asked, missedRead>>
  BY DEF Trace!AskCommit, Trace!Goes
<1>2. \A g \in Trace!Flusher : at'[g] = IF g = f THEN "commit" ELSE at[g]
  BY <1>1, Flushers DEF Books, Typed
<1>3. LoopFirst(asks) => LoopFirst(asks')
  BY <1>1, Flushers, LoopFirstAppend DEF Books, Typed, Kinds
<1>4. InOrder' /\ Awaited'
  <2>1. \A g \in Trace!Flusher : at'[g] # "failed" /\ (at'[g] = "insert" => at[g] = "insert")
    BY <1>2 DEF Quiet, InOrder
  <2>2. at'["runner"] # "idle" => at["runner"] # "idle"
    BY <1>1, <1>2, Flushers
  <2>3. tx' \cup db' = tx \cup db
    BY <1>1 DEF Trace!disk
  <2> QED BY <1>1, <1>3, <2>1, <2>2, <2>3, QuietStill
<1> QED BY <1>1, <1>4 DEF Quiet

\* A commit that succeeds, in calm: what was stored is stored.
LEMMA QuietCommit ==
  ASSUME Books, Quiet, NEW w \in Trace!Writer, Trace!Commit(w), failures' = failures
  PROVE  Quiet'
<1>1. /\ Trace!Asks(w, "commit") /\ UNCHANGED <<Trace!mem, held, forgone, asked, missedRead>>
      /\ db' = db \cup tx /\ tx' = {} /\ at' = [at EXCEPT ![w] = "done"]
  BY DEF Trace!Commit, Trace!Goes, Books, Typed
<1>2. at[w] = "commit"
  BY <1>1, AskDone DEF Books, Kinds
<1>3. \A g \in Trace!Flusher : at'[g] = IF g = w THEN "done" ELSE at[g]
  BY <1>1, Flushers DEF Books, Typed
<1>4. LoopFirst(asks) => LoopFirst(asks')
  <2>1. asks # <<>> /\ Head(asks) = <<w, "commit">> /\ asks' = Tail(asks)
          /\ asks \in Seq(Trace!Writer \X Kinds)
    BY <1>1 DEF Trace!Asks, Books, Typed
  <2> QED BY <2>1, LoopFirstTail
<1>5. InOrder' /\ Awaited'
  <2>1. \A g \in Trace!Flusher : at'[g] # "failed" /\ (at'[g] = "insert" => at[g] = "insert")
    BY <1>3 DEF Quiet, InOrder
  <2>2. at'["runner"] # "idle" => at["runner"] # "idle"
    BY <1>2, <1>3, Flushers
  <2>3. tx' \cup db' = tx \cup db
    BY <1>1
  <2> QED BY <1>1, <1>4, <2>1, <2>2, <2>3, QuietStill
<1> QED BY <1>1, <1>5 DEF Quiet

\* An insert, in calm: the rows are new to the table, so that all of them are stored.
LEMMA QuietInsert ==
  ASSUME Books, Quiet, NEW f \in Trace!Flusher, Trace!Insert(f)
  PROVE  Quiet'
<1>1. /\ Trace!Asks(f, "insert") /\ UNCHANGED <<Trace!mem, db, held, forgone, asked, missedRead>>
      /\ held[f] \in Seq(Row) /\ tx \subseteq Row /\ db \subseteq Row
  BY DEF Trace!Insert, Books, Typed
<1>2. at[f] = "insert"
  BY <1>1, Flushers DEF Trace!Asks, Books, Typed, Asked
<1>3. /\ Ordered(held[f]) /\ Numbered(held[f]) /\ Trace!Ids(held[f]) \subseteq Trace!Known
      /\ Trace!Ids(held[f]) \cap Trace!Stored = {} /\ \A r \in tx \cup db : r.seq = r.id
      /\ \A g \in Trace!Flusher \ {f} : Trace!Ids(held[f]) \cap Trace!Ids(held[g]) = {}
      /\ \A m \in Trace!Ids(buffer) : \A n \in Trace!Ids(held[f]) : n < m
  BY <1>2 DEF Quiet, InOrder
\* Nothing stands in the way of the insert.
<1>4. \A i \in DOMAIN held[f] : Trace!Fits(held[f], i)
  <2> SUFFICES ASSUME NEW i \in DOMAIN held[f] PROVE Trace!Fits(held[f], i)
    OBVIOUS
  <2>1. held[f][i].seq = held[f][i].id /\ held[f][i].id \notin Trace!Stored
    BY <1>3 DEF Numbered, Trace!Ids
  <2>2. held[f][i].seq \notin Trace!Seqs(tx \cup db)
    BY <2>1, <1>3 DEF Trace!Seqs, Trace!Stored
  <2>3. \A j \in 1..(i - 1) : held[f][j].seq # held[f][i].seq
    <3> TAKE j \in 1..(i - 1)
    <3>1. j \in DOMAIN held[f] /\ j < i /\ held[f][j] \in Row /\ held[f][i] \in Row
      BY <1>1
    <3>2. held[f][j].id < held[f][i].id /\ held[f][j].seq = held[f][j].id
      BY <3>1, <1>3 DEF Ordered, Numbered
    <3>3. held[f][j].id \in Nat /\ held[f][i].id \in Nat
      BY <3>1 DEF Row
    <3> QED BY <3>2, <3>3, <2>1
  <2> QED BY <2>2, <2>3 DEF Trace!Fits
<1>5. /\ at' = [at EXCEPT ![f] = "inserted"] /\ tx' = tx \cup {held[f][i] : i \in DOMAIN held[f]}
  BY <1>4, InsertFacts
<1>6. \A g \in Trace!Flusher : at'[g] = IF g = f THEN "inserted" ELSE at[g]
  BY <1>5, Flushers DEF Books, Typed
<1>7. Trace!Stored' = Trace!Stored \cup Trace!Ids(held[f])
  <2>1. tx' \cup db' = (tx \cup db) \cup {held[f][i] : i \in DOMAIN held[f]}
    BY <1>1, <1>5
  <2> QED BY <2>1 DEF Trace!Stored, Trace!Ids
<1>8. /\ seqOf' = seqOf /\ nextId' = nextId /\ buffer' = buffer /\ Trace!Known' = Trace!Known
          /\ held' = held
      /\ ToRead' = ToRead /\ asked' = asked
  BY <1>1 DEF Trace!mem, Trace!Known, ToRead
<1>9. InOrder'
  <2>1. \A r \in tx' \cup db' : r.seq = r.id
    BY <1>1, <1>3, <1>5 DEF Numbered
  <2>2. \A m \in Trace!Ids(buffer) : \A n \in Trace!Stored' : n < m
    BY <1>3, <1>7 DEF Quiet, InOrder
  <2>3. \A g \in Trace!Flusher : at'[g] # "failed" /\ (at'[g] = "insert" => g # f
          /\ at[g] = "insert")
    BY <1>6 DEF Quiet, InOrder
  <2>4. \A g \in Trace!Flusher : at'[g] = "insert" => Trace!Ids(held[g]) \cap Trace!Stored' = {}
    <3> SUFFICES ASSUME NEW g \in Trace!Flusher, at'[g] = "insert"
          PROVE Trace!Ids(held[g]) \cap Trace!Stored' = {}
      OBVIOUS
    <3>1. g # f /\ at[g] = "insert"
      BY <2>3
    <3>2. Trace!Ids(held[g]) \cap Trace!Stored = {}
            /\ Trace!Ids(held[f]) \cap Trace!Ids(held[g]) = {}
      BY <3>1, <1>3 DEF Quiet, InOrder
    <3> QED BY <3>2, <1>7
  <2>5. Trace!Stored' \cup Trace!Ids(buffer) \subseteq Trace!Known
    BY <1>3, <1>7 DEF Quiet, InOrder
  <2> QED BY <1>8, <2>1, <2>2, <2>3, <2>4, <2>5 DEF Quiet, InOrder
<1>10. Awaited'
  <2> SUFFICES ASSUME at'["runner"] # "idle" PROVE Awaited'
    BY DEF Awaited
  <2>1. at["runner"] # "idle"
    BY <1>2, <1>6, Flushers
  <2>2. at'["loop"] = "insert" => f = "runner" /\ at["loop"] = "insert"
    BY <1>6, Flushers DEF Trace!Flusher
  <2>3. f = "runner" => ~LoopFirst(asks)
    <3> SUFFICES ASSUME f = "runner", LoopFirst(asks) PROVE FALSE
      OBVIOUS
    <3>1. asks \in Seq(Trace!Writer \X Kinds) /\ asks # <<>>
            /\ Head(asks) = <<"runner", "insert">>
      BY <1>1 DEF Trace!Asks, Books, Typed
    <3> QED BY <3>1, LoopFirstTail
  <2>4. at'["loop"] = "insert" => ToRead \cap Trace!Ids(held["loop"]) = {}
    BY <2>1, <2>2, <2>3 DEF Quiet, Awaited
  <2> QED BY <2>1, <2>4, <1>7, <1>8 DEF Quiet, Awaited
<1> QED BY <1>1, <1>9, <1>10 DEF Quiet

\* A flush that is done, in calm: its rows are stored.
LEMMA QuietFlushed ==
  ASSUME Books, Quiet, NEW f \in Trace!Flusher, Trace!Flushed(f)
  PROVE  Quiet'
<1>1. /\ at[f] = "done" /\ Trace!After(f) /\ held' = [held EXCEPT ![f] = <<>>]
      /\ UNCHANGED <<Trace!mem, Trace!disk, forgone, asked, missedRead>>
  BY DEF Trace!Flushed
<1>2. \A g \in Trace!Flusher : at'[g] = IF g = f THEN (IF f = "runner" THEN "read"
        ELSE "idle") ELSE at[g]
  BY <1>1, AskAfter
<1>3. \A g \in Trace!Flusher : held'[g] = IF g = f THEN <<>> ELSE held[g]
  BY <1>1 DEF Books, Typed
<1>4. \A g \in Trace!Flusher : Trace!Ids(held'[g]) \subseteq Trace!Ids(held[g])
        /\ Ordered(held'[g]) /\ Numbered(held'[g])
  BY <1>3, Emptied, OrderedEmpty DEF Quiet, InOrder
<1>5. Trace!Ids(held[f]) \subseteq Trace!Stored
  BY <1>1 DEF Books, Carried, Trace!Ids, Trace!Stored
<1>6. /\ Trace!Stored' = Trace!Stored /\ seqOf' = seqOf /\ nextId' = nextId
          /\ buffer' = buffer /\ Trace!Known' = Trace!Known
      /\ ToRead' = ToRead /\ asked' = asked /\ tx' = tx /\ db' = db
  BY <1>1 DEF Trace!mem, Trace!disk, Trace!Stored, Trace!Known, ToRead
<1>7. InOrder'
  <2>1. \A g \in Trace!Flusher : at'[g] # "failed" /\ (at'[g] = "insert" => at[g] = "insert")
    BY <1>2 DEF Quiet, InOrder
  <2>2. \A g \in Trace!Flusher : \A h \in Trace!Flusher \ {g} :
          Trace!Ids(held[g]) \cap Trace!Ids(held[h]) = {}
            => Trace!Ids(held'[g]) \cap Trace!Ids(held'[h]) = {}
    BY <1>4
  <2> QED BY <1>4, <1>6, <2>1, <2>2 DEF Quiet, InOrder
<1>8. Awaited'
  <2> SUFFICES ASSUME at'["runner"] # "idle" PROVE Awaited'
    BY DEF Awaited
  <2>1. at["runner"] # "idle"
    BY <1>1, <1>2, Flushers
  <2>2. ToRead \subseteq Trace!Stored \cup Trace!Ids(held'["runner"])
          \cup Trace!Ids(held'["loop"])
    <3>1. ToRead \subseteq Trace!Stored \cup Trace!Ids(held["runner"])
            \cup Trace!Ids(held["loop"])
      BY <2>1 DEF Quiet, Awaited
    <3>2. \A g \in Trace!Flusher : Trace!Ids(held[g]) \subseteq Trace!Stored
            \cup Trace!Ids(held'[g])
      BY <1>3, <1>5
    <3> QED BY <3>1, <3>2, Flushers
  <2>3. at'["loop"] = "insert" => f = "runner" /\ at["loop"] = "insert"
    BY <1>1, <1>2, Flushers DEF Trace!Flusher
  <2>4. f = "runner" => (LoopFirst(asks) => LoopFirst(asks')) /\ held'["loop"] = held["loop"]
    <3> SUFFICES ASSUME f = "runner"
                 PROVE  (LoopFirst(asks) => LoopFirst(asks')) /\ held'["loop"] = held["loop"]
      OBVIOUS
    <3>1. asks \in Seq(Trace!Writer \X Kinds) /\ asks' = Append(asks, <<"runner", "read">>)
          /\ <<"runner", "read">> \in Trace!Writer \X Kinds
      BY <1>1, Flushers DEF Trace!After, Books, Typed, Kinds
    <3> QED BY <3>1, <1>3, Flushers, LoopFirstAppend
  <2> QED BY <2>1, <2>2, <2>3, <2>4, <1>6 DEF Quiet, Awaited
<1> QED BY <1>1, <1>7, <1>8 DEF Quiet

\* The runner's read, in calm: the requests before it are carried out, and all it
\* asked for is stored.
LEMMA QuietRead ==
  ASSUME Books, Quiet, Trace!Read
  PROVE  Quiet'
<1>1. /\ Trace!Asks("runner", "read") /\ at' = [at EXCEPT !["runner"] = "idle"]
      /\ missedRead' = ~(ToRead \subseteq Trace!Stored)
          /\ UNCHANGED <<Trace!mem, Trace!disk, held, forgone, asked>>
  BY DEF Trace!Read, Trace!Goes, ToRead
<1>2. at["runner"] = "read" /\ Trace!Ids(held["runner"]) = {}
  BY <1>1, Flushers, Emptied DEF Trace!Asks, Books, Typed, Asked, Carried
<1>3. \A g \in Trace!Flusher : at'[g] = IF g = "runner" THEN "idle" ELSE at[g]
  BY <1>1, Flushers DEF Books, Typed
<1>4. ~LoopFirst(asks)
  <2> SUFFICES ASSUME LoopFirst(asks) PROVE FALSE
    OBVIOUS
  <2>1. asks \in Seq(Trace!Writer \X Kinds) /\ asks # <<>> /\ Head(asks) = <<"runner", "read">>
    BY <1>1 DEF Trace!Asks, Books, Typed
  <2> QED BY <2>1, LoopFirstTail
<1>5. ToRead \subseteq Trace!Stored
  <2>1. ToRead \subseteq Trace!Stored \cup Trace!Ids(held["loop"])
    BY <1>2 DEF Quiet, Awaited
  <2>2. CASE at["loop"] = "insert"
    BY <2>1, <2>2, <1>2, <1>4 DEF Quiet, Awaited
  <2>3. CASE at["loop"] \in {"idle", "read"}
    BY <2>1, <2>3, Flushers, Emptied DEF Books, Carried
  <2>4. CASE at["loop"] \in {"inserted", "commit", "done"}
    <3>1. Trace!Ids(held["loop"]) \subseteq Trace!Stored
      BY <2>4, Flushers DEF Books, Carried, Trace!Ids, Trace!Stored
    <3> QED BY <2>1, <3>1
  <2>5. at["loop"] # "failed" /\ at["loop"] \in Places
    BY Flushers DEF Quiet, InOrder, Books, Typed
  <2> QED BY <2>2, <2>3, <2>4, <2>5 DEF Places
<1>6. InOrder' /\ Awaited'
  <2>1. \A g \in Trace!Flusher : at'[g] # "failed" /\ (at'[g] = "insert" => at[g] = "insert")
    BY <1>3 DEF Quiet, InOrder
  <2>2. at'["runner"] = "idle" /\ tx' \cup db' = tx \cup db
    BY <1>1, <1>3, Flushers DEF Trace!disk
  <2> QED BY <1>1, <2>1, <2>2, QuietStill
<1> QED BY <1>1, <1>5, <1>6 DEF Quiet

\* close, in calm.
LEMMA QuietClose ==
  ASSUME Books, Quiet, Trace!Close
  PROVE  Quiet'
<1>1. /\ \A w \in Trace!Writer \ {"loop"} : at[w] = "idle"
      /\ held' = [held EXCEPT !["loop"] = <<>>] /\ buffer' = <<>> /\ tx' = {}
      /\ at' = [at EXCEPT !["loop"] = "idle"]
      /\ UNCHANGED <<seqOf, dropped, nextId, db, asked, missedRead>>
  BY DEF Trace!Close, Trace!Goes
<1>2. \A f \in Trace!Flusher : at'[f] = "idle" /\ held'[f] = <<>>
  BY <1>1, Flushers DEF Books, Typed, Carried, Trace!Flusher, Trace!Writer
<1>3. Trace!Stored' \subseteq Trace!Stored /\ Trace!Known' = Trace!Known
        /\ Trace!Ids(buffer') = {}
  BY <1>1, Emptied DEF Trace!Stored, Trace!Known
<1>4. InOrder'
  <2>1. \A f \in Trace!Flusher : /\ at'[f] = "idle" /\ Trace!Ids(held'[f]) = {}
                           /\ Ordered(held'[f]) /\ Numbered(held'[f])
    BY <1>2, Emptied, OrderedEmpty
  <2> QED BY <1>1, <1>3, <2>1, OrderedEmpty DEF Quiet, InOrder
<1>5. Awaited'
  BY <1>2, Flushers DEF Awaited
<1> QED BY <1>1, <1>4, <1>5 DEF Quiet

\* No step loses an event.
LEMMA BooksNext == Books /\ Trace!Next => Books'
BY BooksRecord, BooksFlushLoop, BooksFlushThenRead, BooksUpsertRow, BooksRead, BooksRowSaved,
   BooksClose, BooksRestart, BooksInsert, BooksAskCommit, BooksFlushed, BooksPutBack, BooksCommit
   DEF Trace!Next

\* No step in calm disturbs the order.
LEMMA QuietNext ==
  ASSUME Books, Calm => Quiet, Trace!Next, Calm'
  PROVE  Quiet'
<1>0. failures \in Nat /\ restarts \in Nat /\ failures' = 0 /\ restarts' = 0
  BY DEF Books, Typed, Calm
<1>1. ASSUME failures' = failures, restarts' = restarts PROVE Quiet
  BY <1>0, <1>1 DEF Calm
<1>2. CASE Trace!Record
  BY <1>1, <1>2, QuietRecord DEF Trace!Record
<1>3. CASE Trace!FlushLoop
  BY <1>1, <1>3, QuietFlushLoop DEF Trace!FlushLoop
<1>4. CASE Trace!FlushThenRead
  BY <1>1, <1>4, QuietFlushThenRead DEF Trace!FlushThenRead
<1>5. CASE Trace!UpsertRow
  BY <1>1, <1>5, QuietUpsertRow DEF Trace!UpsertRow
<1>6. CASE Trace!Read
  BY <1>1, <1>6, QuietRead DEF Trace!Read
<1>7. CASE Trace!RowSaved
  BY <1>1, <1>7, QuietRowSaved DEF Trace!RowSaved
<1>8. CASE Trace!Close
  BY <1>1, <1>8, QuietClose DEF Trace!Close
<1>9. CASE Trace!Restart
  BY <1>0, <1>9 DEF Trace!Restart
<1>10. ASSUME NEW f \in Trace!Flusher, Trace!Insert(f) PROVE Quiet'
  BY <1>1, <1>10, QuietInsert DEF Trace!Insert
<1>11. ASSUME NEW f \in Trace!Flusher, Trace!AskCommit(f) PROVE Quiet'
  BY <1>1, <1>11, QuietAskCommit DEF Trace!AskCommit
<1>12. ASSUME NEW f \in Trace!Flusher, Trace!Flushed(f) PROVE Quiet'
  BY <1>1, <1>12, QuietFlushed DEF Trace!Flushed
<1>13. ASSUME NEW f \in Trace!Flusher, Trace!PutBack(f) PROVE Quiet'
  BY <1>1, <1>13 DEF Trace!PutBack, Quiet, InOrder
<1>14. ASSUME NEW w \in Trace!Writer, Trace!Commit(w) PROVE Quiet'
  <2>1. failures' = failures \/ failures' = failures + 1
    BY <1>14 DEF Trace!Commit
  <2>2. failures' = failures /\ restarts' = restarts
    BY <1>0, <1>14, <2>1 DEF Trace!Commit
  <2> QED BY <1>1, <1>14, <2>2, QuietCommit
<1> QED BY <1>2, <1>3, <1>4, <1>5, <1>6, <1>7, <1>8, <1>9, <1>10, <1>11, <1>12, <1>13,
   <1>14 DEF Trace!Next

\* Every step of the trace store keeps its invariant.
LEMMA StoreNext == StoreInv /\ (Trace!Next \/ UNCHANGED Trace!vars) => StoreInv'
<1> SUFFICES ASSUME StoreInv, Trace!Next \/ UNCHANGED Trace!vars PROVE StoreInv'
  OBVIOUS
<1>1. CASE Trace!Next
  BY <1>1, BooksNext, QuietNext DEF StoreInv
<1>2. CASE UNCHANGED Trace!vars
  <2>1. UNCHANGED <<seqOf, buffer, dropped, nextId, tx, db, held, asks, at, forgone, asked,
                    missedRead, failures, restarts>>
    BY <1>2 DEF Trace!vars, Trace!mem, Trace!disk
  <2>2. Books'
    <3>1. Trace!Known' = Trace!Known /\ Trace!Unwritten' = Trace!Unwritten
      BY <2>1 DEF Trace!Known, Trace!Unwritten
    <3>2. Typed' /\ Asked' /\ Carried'
      BY <2>1, <3>1 DEF StoreInv, Books, Typed, Asked, Carried
    <3>3. Trace!EventsAccounted'
      BY <2>1, <3>1 DEF StoreInv, Books, Trace!EventsAccounted
    <3> QED BY <3>2, <3>3 DEF Books
  <2>3. (Calm => Quiet)'
    BY <2>1 DEF StoreInv, Calm, Quiet, InOrder, Awaited, ToRead, Trace!Stored, Trace!Known
  <2> QED BY <2>2, <2>3 DEF StoreInv
<1> QED BY <1>1, <1>2

\* The invariant says what the run checks.
LEMMA StoreKept == StoreInv => Trace!EventsAccounted /\ Trace!FlushThenReadSees
BY DEF StoreInv, Books, Quiet, Calm, Trace!FlushThenReadSees

\* The invariant of the trace store, where it is the component that runs.
TraceInv == Chosen("trace") => StoreInv

\* The trace store never leaves its invariant.
LEMMA TraceInvHolds == Spec => []TraceInv
<1>1. Init => TraceInv
  BY BooksInit DEF Init, TraceInv
<1>2. TraceInv /\ [Next]_vars => TraceInv'
  <2> SUFFICES ASSUME TraceInv, [Next]_vars, Chosen("trace")' PROVE StoreInv'
    BY DEF TraceInv
  <2>1. Chosen("trace") /\ StoreInv
    BY DEF TraceInv, Chosen, Next, vars
  <2>2. Trace!Next \/ UNCHANGED Trace!vars
    <3>1. CASE Next
      BY <2>1, <3>1 DEF Next, Chosen
    <3>2. CASE UNCHANGED vars
      BY <3>2 DEF vars, TraceVars, Trace!vars, Trace!mem, Trace!disk
    <3> QED BY <3>1, <3>2
  <2> QED BY <2>1, <2>2, StoreNext
<1> QED BY <1>1, <1>2, PTL DEF Spec

\* No trace event is lost between buffer, flushers, transaction and table, whatever
\* commits fail and whenever the process ends; and in calm a run reads back all that
\* it recorded (evaluation/trace_store.py, _flush and get_trace).
THEOREM EventsKeptHolds == Spec => []EventsKept
<1>1. TraceInv => EventsKept
  BY StoreKept DEF TraceInv, EventsKept
<1> QED BY <1>1, TraceInvHolds, PTL

-------------------------------------------------------------------------------
(* An evaluation run. *)

\* Places of a runner that has begun and whose feed has not ended.
AtWork == {"begin", "query", "save", "reported", "final", "finalwrite", "failing"}

\* Where the runner may be.
RunPlaces == {"start", "queued", "mark", "ended", "dead"} \cup AtWork

\* What the row of a run may be.
Rows == [st : {"none", "running"} \cup Run!Terminal, n : Nat, rich : BOOLEAN, arch : BOOLEAN,
         fresh : BOOLEAN]

\* The shape of every variable of the run that the argument uses.
RunTyped ==
    /\ home \in Run!Home /\ pc \in RunPlaces /\ done \in Nat
    /\ outcome \in {"", "failed", "interrupted"}
    /\ erow \in Rows /\ kept \in [{"runner", "rec", "beat"} -> Rows]
    /\ hb \in {"off", "sleep", "read"} /\ rec \in {"idle", "picked", "seen", "publish"}

\* A runner on its way out knows why.
Decided == pc \in {"final", "finalwrite", "failing", "mark"} => outcome # ""

\* The row is made before all else; a reconciliation and a heartbeat that are about
\* to write have read a running row.
HaveRead ==
    /\ pc = "start" <=> erow.st = "none"
    /\ pc = "start" => rec = "idle"
    /\ rec = "seen" => kept["rec"].st = "running"
    /\ hb = "read" => kept["beat"].st = "running"

\* A row that says done has all its queries and metrics, and its runner can only
\* leave it.
Reported == erow.st = "done" =>
    /\ erow.n = Queries /\ erow.rich /\ pc \in {"reported", "final", "failing", "ended", "dead"}
    /\ pc \in {"final", "failing"} => outcome = "interrupted"

\* The server reconciles no run of its own before it has died: while the run goes on
\* its feed says so, and afterwards its row has ended.
Own == home = "server" =>
    /\ pc \in {"start", "queued"} \cup AtWork => ~feed.done
    /\ pc \in AtWork => feed.publishing
    /\ pc = "queued" => erow.fresh
    /\ pc \in {"reported", "failing", "mark", "ended"} => Run!Settled(erow)
    /\ rec # "idle" => pc = "dead"
    /\ rec \in {"picked", "seen"} => erow.st # "done"

\* The inductive invariant of an evaluation run.
RunInv == RunTyped /\ Decided /\ HaveRead /\ Reported /\ Own

\* The fields of a row that is written.
LEMMA RowFields ==
  ASSUME NEW s \in {"running"} \cup Run!Terminal, NEW n \in Nat, NEW rich \in BOOLEAN
  PROVE  Run!Row(s, n, rich) \in Rows /\ Run!Row(s, n, rich).st = s
    /\ Run!Row(s, n, rich).n = n /\ Run!Row(s, n, rich).fresh /\ Run!Row(s, n, rich).rich = rich
BY DEF Run!Row, Rows

\* No row at all.
LEMMA NoRowFields == Run!NoRow \in Rows /\ Run!NoRow.st = "none"
BY DEF Run!NoRow, Rows

\* What is read once is forgotten.
LEMMA Forgotten ==
  ASSUME RunTyped, NEW f \in {"runner", "rec", "beat"}, Run!Forget(f)
  PROVE  /\ kept' \in [{"runner", "rec", "beat"} -> Rows]
         /\ \A g \in {"runner", "rec", "beat"} : g # f => kept'[g] = kept[g]
BY NoRowFields DEF Run!Forget, RunTyped

\* An event that is no end leaves the feed of the server's run open.
LEMMA Announced ==
  ASSUME NEW e \in {"run_started", "aggregate"}, Run!RunnerPublishes(e)
  PROVE  home = "server" => feed'.publishing /\ (~feed.done => ~feed'.done)
<1> SUFFICES ASSUME home = "server", Run!Publish(e)
             PROVE feed'.publishing /\ (~feed.done => ~feed'.done)
  BY DEF Run!RunnerPublishes
<1>1. e \notin Run!Ends
  BY DEF Run!Ends
<1> DEFINE ev == Run!Last(Append(feed.ev, e))
<1>2. feed' = [ev |-> ev, publishing |-> TRUE, done |-> feed.done \/ e \in Run!Ends]
  BY DEF Run!Publish
<1> HIDE DEF ev
<1>3. feed'.publishing = TRUE /\ feed'.done = (feed.done \/ e \in Run!Ends)
  BY <1>2
<1> QED BY <1>1, <1>3

\* A run starts in the invariant.
LEMMA RunInvInit == Run!Init => RunInv
<1> SUFFICES ASSUME Run!Init PROVE RunInv
  OBVIOUS
<1>1. /\ home \in Run!Home /\ pc = "start" /\ done = 0 /\ outcome = "" /\ erow = Run!NoRow
      /\ hb = "off" /\ rec = "idle" /\ kept = [f \in {"runner", "rec", "beat"} |-> Run!NoRow]
      /\ feed = [ev |-> <<>>, publishing |-> FALSE, done |-> FALSE]
  BY DEF Run!Init
<1>2. RunTyped
  BY <1>1, NoRowFields DEF RunTyped, RunPlaces
<1>3. feed.done = FALSE
  BY <1>1
<1> QED BY <1>1, <1>2, <1>3, NoRowFields DEF RunInv, Decided, HaveRead, Reported, Own, AtWork

\* The row is made before the run is begun.
LEMMA RunEnsureRow == RunInv /\ Run!EnsureRow => RunInv'
<1> SUFFICES ASSUME RunInv, Run!EnsureRow PROVE RunInv'
  OBVIOUS
<1>1. /\ pc = "start" /\ pc' = "queued" /\ UNCHANGED <<home, done, outcome, hb, rec, kept, feed>>
      /\ erow' = Run!Row("running", 0, FALSE)
  BY DEF Run!EnsureRow, Run!Goto, Run!live
<1>2. erow' \in Rows /\ erow'.st = "running" /\ erow'.fresh
  BY <1>1, RowFields
<1> QED BY <1>1, <1>2 DEF RunInv, RunTyped, Decided, HaveRead, Reported, Own, RunPlaces, AtWork

\* Announcing the start changes no row.
LEMMA RunRunStarted == RunInv /\ Run!RunStarted => RunInv'
<1> SUFFICES ASSUME RunInv, Run!RunStarted PROVE RunInv'
  OBVIOUS
<1>1. /\ pc = "queued" /\ pc' = "begin" /\ UNCHANGED <<home, done, outcome, erow, hb, rec, kept>>
      /\ Run!RunnerPublishes("run_started")
  BY DEF Run!RunStarted, Run!Goto
<1>2. home = "server" => feed'.publishing /\ (~feed.done => ~feed'.done)
  BY <1>1, Announced
<1> QED BY <1>1, <1>2 DEF RunInv, RunTyped, Decided, HaveRead, Reported, Own, RunPlaces, AtWork

\* The first save of progress starts the heartbeat.
LEMMA RunBegun == RunInv /\ Run!Begun => RunInv'
<1> SUFFICES ASSUME RunInv, Run!Begun PROVE RunInv'
  OBVIOUS
<1>1. /\ pc = "begin" /\ pc' = "query" /\ hb' = "sleep"
      /\ UNCHANGED <<home, done, outcome, rec, kept, feed>> /\ erow' = Run!Row("running", done, FALSE)
  BY DEF Run!Begun, Run!Goto, Run!Progress, Run!live
<1>2. erow' \in Rows /\ erow'.st = "running" /\ erow'.fresh
  BY <1>1, RowFields DEF RunInv, RunTyped
<1> QED BY <1>1, <1>2 DEF RunInv, RunTyped, Decided, HaveRead, Reported, Own, RunPlaces, AtWork

\* A query ends: the row is not written yet.
LEMMA RunQueryDone == RunInv /\ Run!QueryDone => RunInv'
<1> SUFFICES ASSUME RunInv, Run!QueryDone PROVE RunInv'
  OBVIOUS
<1>1. /\ pc = "query" /\ pc' = "save" /\ done' = done + 1
      /\ UNCHANGED <<home, outcome, erow, hb, rec, kept>> /\ Run!RunnerPublishes("aggregate")
  BY DEF Run!QueryDone, Run!Goto
<1>2. home = "server" => feed'.publishing /\ (~feed.done => ~feed'.done)
  BY <1>1, Announced
<1>3. done' \in Nat
  <2>1. done \in Nat
    BY DEF RunInv, RunTyped
  <2> QED BY <1>1, <2>1
<1> QED BY <1>1, <1>2, <1>3 DEF RunInv, RunTyped, Decided, HaveRead, Reported, Own, RunPlaces,
   AtWork

\* Progress is saved while the runner still has queries.
LEMMA RunSaveProgress == RunInv /\ Run!SaveProgress => RunInv'
<1> SUFFICES ASSUME RunInv, Run!SaveProgress PROVE RunInv'
  OBVIOUS
<1>1. /\ pc = "save" /\ pc' = "query" /\ UNCHANGED <<home, done, outcome, hb, rec, kept, feed>>
      /\ erow' = Run!Row("running", done, TRUE)
  BY DEF Run!SaveProgress, Run!Goto, Run!Progress, Run!live
<1>2. erow' \in Rows /\ erow'.st = "running" /\ erow'.fresh
  BY <1>1, RowFields DEF RunInv, RunTyped
<1> QED BY <1>1, <1>2 DEF RunInv, RunTyped, Decided, HaveRead, Reported, Own, RunPlaces, AtWork

\* The report is written once all queries are done.
LEMMA RunReport == RunInv /\ Run!Report => RunInv'
<1> SUFFICES ASSUME RunInv, Run!Report PROVE RunInv'
  OBVIOUS
<1>1. /\ pc = "query" /\ pc' = "reported" /\ done = Queries
      /\ UNCHANGED <<home, done, outcome, hb, rec, kept, feed>> /\ erow' = Run!Row("done", done, TRUE)
  BY DEF Run!Report, Run!Goto, Run!live
<1>2. erow' \in Rows /\ erow'.st = "done" /\ erow'.n = Queries /\ erow'.rich
  <2>1. done \in Nat /\ "done" \in {"running"} \cup Run!Terminal
    BY DEF RunInv, RunTyped, Run!Terminal
  <2>2. /\ erow' \in Rows /\ erow'.st = "done" /\ erow'.n = done /\ erow'.rich = TRUE
    BY <1>1, <2>1, RowFields
  <2> QED BY <1>1, <2>2
<1>3. Run!Settled(erow')
  BY <1>2 DEF Run!Settled, Run!Terminal
<1> QED BY <1>1, <1>2, <1>3 DEF RunInv, RunTyped, Decided, HaveRead, Reported, Own, RunPlaces,
   AtWork

\* The end is announced after the report.
LEMMA RunRunFinished == RunInv /\ Run!RunFinished => RunInv'
<1> SUFFICES ASSUME RunInv, Run!RunFinished PROVE RunInv'
  OBVIOUS
<1>1. /\ pc = "reported" /\ pc' = "ended" /\ hb' = "off"
      /\ UNCHANGED <<home, done, outcome, erow, rec, kept>>
  BY DEF Run!RunFinished, Run!Goto
<1> QED BY <1>1 DEF RunInv, RunTyped, Decided, HaveRead, Reported, Own, RunPlaces, AtWork

\* finalize_run_row reads the row, and leaves it when it has ended.
LEMMA RunFinalRead == RunInv /\ Run!FinalRead => RunInv'
<1> SUFFICES ASSUME RunInv, Run!FinalRead PROVE RunInv'
  OBVIOUS
<1>1. /\ pc = "final" /\ UNCHANGED <<home, done, outcome, erow, hb, rec, feed>>
      /\ IF Run!Settled(erow) THEN pc' = "failing" /\ UNCHANGED kept
         ELSE pc' = "finalwrite" /\ kept' = [kept EXCEPT !["runner"] = erow]
  BY DEF Run!FinalRead, Run!Goto, Run!live
<1>2. /\ kept' \in [{"runner", "rec", "beat"} -> Rows]
      /\ kept'["rec"] = kept["rec"] /\ kept'["beat"] = kept["beat"]
  BY <1>1 DEF RunInv, RunTyped
<1>3. erow.st = "done" => pc' = "failing"
  BY <1>1 DEF Run!Settled, Run!Terminal
<1>4. pc' \in {"failing", "finalwrite"} /\ (pc' = "failing" => Run!Settled(erow))
  BY <1>1
<1> QED BY <1>1, <1>2, <1>3, <1>4 DEF RunInv, RunTyped, Decided, HaveRead, Reported, Own,
   RunPlaces, AtWork

\* finalize_run_row replaces a row that had not ended.
LEMMA RunFinalWrite == RunInv /\ Run!FinalWrite => RunInv'
<1> SUFFICES ASSUME RunInv, Run!FinalWrite PROVE RunInv'
  OBVIOUS
<1>1. /\ pc = "finalwrite" /\ pc' = "failing" /\ erow' = [kept["runner"] EXCEPT !.st = outcome]
      /\ UNCHANGED <<home, done, outcome, hb, rec, feed>> /\ Run!Forget("runner")
  BY DEF Run!FinalWrite, Run!Goto, Run!live
<1>2. erow' \in Rows /\ erow'.st = outcome /\ outcome \in {"failed", "interrupted"}
  BY <1>1 DEF RunInv, RunTyped, Decided, Rows, Run!Terminal
<1>3. /\ kept' \in [{"runner", "rec", "beat"} -> Rows]
      /\ kept'["rec"] = kept["rec"] /\ kept'["beat"] = kept["beat"]
  BY <1>1, Forgotten DEF RunInv
<1>4. Run!Settled(erow')
  BY <1>2 DEF Run!Settled, Run!Terminal
<1> QED BY <1>1, <1>2, <1>3, <1>4 DEF RunInv, RunTyped, Decided, HaveRead, Reported, Own,
   RunPlaces, AtWork

\* The failure is announced after the row is final.
LEMMA RunRunFailed == RunInv /\ Run!RunFailed => RunInv'
<1> SUFFICES ASSUME RunInv, Run!RunFailed PROVE RunInv'
  OBVIOUS
<1>1. /\ pc = "failing" /\ pc' \in {"mark", "ended"} /\ hb' = "off"
      /\ (pc' = "mark" => outcome = "failed")
      /\ UNCHANGED <<home, done, outcome, erow, rec, kept>>
  BY DEF Run!RunFailed, Run!Goto
<1> QED BY <1>1 DEF RunInv, RunTyped, Decided, HaveRead, Reported, Own, RunPlaces, AtWork

\* The router's _background overwrites the row of a run that raised before its report.
LEMMA RunMarkRunFailed == RunInv /\ Run!MarkRunFailed => RunInv'
<1> SUFFICES ASSUME RunInv, Run!MarkRunFailed PROVE RunInv'
  OBVIOUS
<1>1. /\ pc = "mark" /\ pc' = "ended" /\ UNCHANGED <<home, done, outcome, hb, rec, kept>>
      /\ erow' = Run!Row("failed", 0, FALSE)
  BY DEF Run!MarkRunFailed, Run!Goto
<1>2. erow' \in Rows /\ erow'.st = "failed" /\ Run!Settled(erow')
  <2>1. "failed" \in {"running"} \cup Run!Terminal
    BY DEF Run!Terminal
  <2>2. erow' \in Rows /\ erow'.st = "failed"
    BY <1>1, <2>1, RowFields
  <2> QED BY <2>2 DEF Run!Terminal, Run!Settled
<1> QED BY <1>1, <1>2 DEF RunInv, RunTyped, Decided, HaveRead, Reported, Own, RunPlaces, AtWork

\* The process dies, and with the server the reconciliation under way.
LEMMA RunCrash == RunInv /\ Run!Crash => RunInv'
<1> SUFFICES ASSUME RunInv, Run!Crash PROVE RunInv'
  OBVIOUS
<1>1. /\ pc \notin {"start", "ended"} /\ pc' = "dead" /\ hb' = "off"
      /\ UNCHANGED <<home, done, outcome, erow>>
      /\ rec' = IF home = "server" THEN "idle" ELSE rec
      /\ kept' = [f \in DOMAIN kept |->
                    IF home = "server" \/ f # "rec" THEN Run!NoRow ELSE kept[f]]
  BY DEF Run!Crash, Run!Goto, Run!Alive
<1>2. /\ kept' \in [{"runner", "rec", "beat"} -> Rows]
      /\ rec' = "seen" => rec = "seen" /\ kept'["rec"] = kept["rec"]
  BY <1>1, NoRowFields DEF RunInv, RunTyped
<1>3. rec' \in {"idle", rec} /\ (home = "server" => rec' = "idle")
  BY <1>1
<1> QED BY <1>1, <1>2, <1>3 DEF RunInv, RunTyped, Decided, HaveRead, Reported, Own, RunPlaces,
   AtWork

\* The heartbeat reads a running row, or meets an error and ends.
LEMMA RunBeat == RunInv /\ Run!Beat => RunInv'
<1> SUFFICES ASSUME RunInv, Run!Beat PROVE RunInv'
  OBVIOUS
<1>1. /\ hb = "sleep" /\ UNCHANGED <<home, pc, done, outcome, erow, rec, feed>>
      /\ \/ /\ erow.st = "running" /\ hb' = "read"
            /\ kept' = [kept EXCEPT !["beat"] = Run!Metadata(erow)]
         \/ hb' \in {"off", "sleep"} /\ UNCHANGED kept
  BY DEF Run!Beat, Run!run, Run!live
<1>2. Run!Metadata(erow) \in Rows /\ Run!Metadata(erow).st = erow.st
  BY DEF Run!Metadata, Run!NoRow, Rows, RunInv, RunTyped
<1>3. /\ kept' \in [{"runner", "rec", "beat"} -> Rows] /\ kept'["rec"] = kept["rec"]
      /\ hb' = "read" => kept'["beat"].st = "running"
  BY <1>1, <1>2 DEF RunInv, RunTyped
<1>4. hb' \in {"off", "sleep", "read"}
  BY <1>1
<1> QED BY <1>1, <1>3, <1>4 DEF RunInv, RunTyped, Decided, HaveRead, Reported, Own

\* The heartbeat writes the metadata that it read, whatever the row is by now.
LEMMA RunBeatWrite == RunInv /\ Run!BeatWrite => RunInv'
<1> SUFFICES ASSUME RunInv, Run!BeatWrite PROVE RunInv'
  OBVIOUS
<1>1. /\ hb = "read" /\ hb' \in {"off", "sleep"} /\ Run!Forget("beat")
      /\ erow' \in {erow, [erow EXCEPT !.arch = kept["beat"].arch, !.fresh = TRUE]}
      /\ UNCHANGED <<home, pc, done, outcome, rec, feed>>
  BY DEF Run!BeatWrite, Run!run, Run!live
<1>2. /\ erow' \in Rows /\ erow'.st = erow.st /\ erow'.n = erow.n /\ erow'.rich = erow.rich
      /\ erow.fresh => erow'.fresh
  BY <1>1 DEF RunInv, RunTyped, Rows
<1>3. /\ kept' \in [{"runner", "rec", "beat"} -> Rows] /\ kept'["rec"] = kept["rec"]
  BY <1>1, Forgotten DEF RunInv
<1>4. Run!Settled(erow) <=> Run!Settled(erow')
  BY <1>2 DEF Run!Settled
<1>5. RunTyped' /\ Decided'
  BY <1>1, <1>2, <1>3 DEF RunInv, RunTyped, Decided
<1>6. HaveRead' /\ Reported'
  BY <1>1, <1>2, <1>3 DEF RunInv, HaveRead, Reported
<1>7. Own'
  BY <1>1, <1>2, <1>4 DEF RunInv, Own
<1> QED BY <1>5, <1>6, <1>7 DEF RunInv

\* A row becomes stale.
LEMMA RunLapse == RunInv /\ Run!Lapse => RunInv'
<1> SUFFICES ASSUME RunInv, Run!Lapse PROVE RunInv'
  OBVIOUS
<1>1. /\ erow.st = "running" /\ erow' = [erow EXCEPT !.fresh = FALSE]
      /\ ~(home = "server" /\ pc = "queued")
      /\ UNCHANGED <<home, pc, done, outcome, hb, rec, kept, feed>>
  BY DEF Run!Lapse, Run!run, Run!live
<1>2. erow' \in Rows /\ erow'.st = "running" /\ ~Run!Settled(erow)
  BY <1>1 DEF RunInv, RunTyped, Rows, Run!Settled, Run!Terminal
<1> QED BY <1>1, <1>2 DEF RunInv, RunTyped, Decided, HaveRead, Reported, Own

\* A reconciliation picks stale rows only, and none of a run that its own server
\* still runs.
LEMMA RunPick == RunInv /\ Run!Pick => RunInv'
<1> SUFFICES ASSUME RunInv, Run!Pick PROVE RunInv'
  OBVIOUS
<1>1. /\ erow.st = "running" /\ ~erow.fresh /\ rec' = "picked"
      /\ ~(feed.publishing /\ ~feed.done)
      /\ UNCHANGED <<home, pc, done, outcome, erow, hb, kept, feed>>
  BY DEF Run!Pick, Run!run, Run!live, Run!IsRunning
<1>2. ~Run!Settled(erow)
  BY <1>1 DEF Run!Settled, Run!Terminal
<1>3. pc # "start"
  BY <1>1 DEF RunInv, HaveRead
<1>4. home = "server" => pc = "dead"
  BY <1>1, <1>2, <1>3 DEF RunInv, RunTyped, Own, RunPlaces, AtWork
<1> QED BY <1>1, <1>3, <1>4 DEF RunInv, RunTyped, Decided, HaveRead, Reported, Own

\* A reconciliation reads the row again.
LEMMA RunRecRead == RunInv /\ Run!RecRead => RunInv'
<1> SUFFICES ASSUME RunInv, Run!RecRead PROVE RunInv'
  OBVIOUS
<1>1. /\ rec = "picked" /\ UNCHANGED <<home, pc, done, outcome, erow, hb, feed>>
      /\ IF Run!Settled(erow) THEN rec' = "publish" /\ UNCHANGED kept
         ELSE rec' = "seen" /\ kept' = [kept EXCEPT !["rec"] = erow]
  BY DEF Run!RecRead, Run!run, Run!live
<1>2. pc # "start" /\ erow.st # "none"
  BY <1>1 DEF RunInv, HaveRead
<1>3. /\ kept' \in [{"runner", "rec", "beat"} -> Rows] /\ kept'["beat"] = kept["beat"]
      /\ rec' = "seen" => kept'["rec"] = erow /\ ~Run!Settled(erow)
      /\ rec' \in {"publish", "seen"}
  BY <1>1 DEF RunInv, RunTyped
<1>4. ~Run!Settled(erow) => erow.st = "running"
  BY <1>2 DEF RunInv, RunTyped, Rows, Run!Settled
<1> QED BY <1>1, <1>2, <1>3, <1>4 DEF RunInv, RunTyped, Decided, HaveRead, Reported, Own

\* A reconciliation interrupts the row that it has read.
LEMMA RunRecWrite == RunInv /\ Run!RecWrite => RunInv'
<1> SUFFICES ASSUME RunInv, Run!RecWrite PROVE RunInv'
  OBVIOUS
<1>1. /\ rec = "seen" /\ rec' = "publish" /\ Run!Forget("rec")
      /\ erow' = [kept["rec"] EXCEPT !.st = "interrupted"]
      /\ UNCHANGED <<home, pc, done, outcome, hb, feed>>
  BY DEF Run!RecWrite, Run!run, Run!live
<1>2. erow' \in Rows /\ erow'.st = "interrupted"
  BY <1>1 DEF RunInv, RunTyped, Rows, Run!Terminal
<1>3. /\ kept' \in [{"runner", "rec", "beat"} -> Rows] /\ kept'["beat"] = kept["beat"]
  BY <1>1, Forgotten DEF RunInv
<1>4. pc # "start" /\ (home = "server" => pc = "dead")
  BY <1>1 DEF RunInv, HaveRead, Own
<1> QED BY <1>1, <1>2, <1>3, <1>4 DEF RunInv, RunTyped, Decided, HaveRead, Reported, Own, AtWork

\* Its announcement changes no row.
LEMMA RunRecPublish == RunInv /\ Run!RecPublish => RunInv'
<1> SUFFICES ASSUME RunInv, Run!RecPublish PROVE RunInv'
  OBVIOUS
<1>1. /\ rec = "publish" /\ rec' = "idle"
      /\ UNCHANGED <<home, pc, done, outcome, erow, hb, kept>>
  BY DEF Run!RecPublish, Run!run
<1>2. home = "server" => pc = "dead"
  BY <1>1 DEF RunInv, Own
<1>3. RunTyped' /\ Decided'
  BY <1>1 DEF RunInv, RunTyped, Decided
<1>4. HaveRead' /\ Reported'
  BY <1>1 DEF RunInv, HaveRead, Reported
<1>5. Own'
  BY <1>1, <1>2 DEF RunInv, Own, AtWork
<1> QED BY <1>3, <1>4, <1>5 DEF RunInv

\* A client subscribes, or is told something: no row changes.
LEMMA RunClient == RunInv /\ (Run!Subscribe \/ Run!Client) => RunInv'
<1> SUFFICES ASSUME RunInv, Run!Subscribe \/ Run!Client PROVE RunInv'
  OBVIOUS
<1>1. UNCHANGED <<home, pc, done, outcome, erow, hb, rec, kept, feed>>
  BY DEF Run!Subscribe, Run!Client, Run!Look, Run!Told, Run!Idle, Run!run
<1>2. RunTyped'
  BY <1>1 DEF RunInv, RunTyped
<1>3. Decided' /\ HaveRead' /\ Reported'
  BY <1>1 DEF RunInv, Decided, HaveRead, Reported
<1>4. Own'
  BY <1>1 DEF RunInv, Own
<1> QED BY <1>2, <1>3, <1>4 DEF RunInv

\* An exception or a cancellation sends the runner to its end.
LEMMA RunBreaks ==
  ASSUME RunInv, NEW why \in {"failed", "interrupted"}, Run!Breaks(why)
  PROVE  RunInv'
<1>1. /\ pc' = "final" /\ outcome' = why /\ UNCHANGED <<home, done, erow, hb, rec, kept, feed>>
      /\ pc \in {"begin", "query", "save"} \/ (why = "interrupted" /\ pc = "reported")
  BY DEF Run!Breaks, Run!Goto, Run!live
<1>2. erow.st = "done" => why = "interrupted"
  BY <1>1 DEF RunInv, Reported
<1> QED BY <1>1, <1>2 DEF RunInv, RunTyped, Decided, HaveRead, Reported, Own, RunPlaces, AtWork

\* Every step of a run keeps the invariant.
LEMMA RunNext == RunInv /\ (Run!Next \/ UNCHANGED Run!rvars) => RunInv'
<1>1. RunInv /\ UNCHANGED Run!rvars => RunInv'
  BY DEF Run!rvars, Run!run, Run!live, RunInv, RunTyped, Decided, HaveRead, Reported, Own
<1> QED BY <1>1, RunEnsureRow, RunRunStarted, RunBegun, RunQueryDone, RunSaveProgress, RunReport,
     RunRunFinished, RunFinalRead, RunFinalWrite, RunRunFailed, RunMarkRunFailed, RunBreaks,
     RunCrash, RunBeat, RunBeatWrite, RunLapse, RunPick, RunRecRead, RunRecWrite, RunRecPublish,
     RunClient DEF Run!Next, Run!Runner, Run!Reader

\* A row that says done keeps saying so, but for a reconciliation that had read it
\* before.
LEMMA RunKept == RunInv /\ (Run!Next \/ UNCHANGED Run!rvars) => Run!ReportKept
<1> SUFFICES ASSUME RunInv, Run!Next \/ UNCHANGED Run!rvars, erow.st = "done"
             PROVE  Run!ReportKept
  BY DEF Run!ReportKept
<1>1. /\ pc \in {"reported", "final", "failing", "ended", "dead"} /\ erow \in Rows
      /\ (pc = "failing" => outcome = "interrupted") /\ erow.n = Queries /\ erow.rich
  BY DEF RunInv, Reported, RunTyped
<1>2. ~Run!MarkRunFailed /\ ~Run!FinalWrite /\ ~Run!Begun /\ ~Run!SaveProgress /\ ~Run!EnsureRow
      /\ ~Run!Lapse /\ ~Run!Report
  BY <1>1 DEF Run!MarkRunFailed, Run!FinalWrite, Run!Begun, Run!SaveProgress,
     Run!EnsureRow, Run!Lapse, Run!Report
<1>3. CASE Run!BeatWrite
  <2>1. hb = "read" /\ kept["beat"].st = "running"
    BY <1>3 DEF Run!BeatWrite, RunInv, HaveRead
  <2>2. erow' \in {erow, [erow EXCEPT !.arch = kept["beat"].arch, !.fresh = TRUE]}
    BY <1>3 DEF Run!BeatWrite
  <2>3. erow'.st = "done" /\ erow'.n = Queries /\ erow'.rich
    BY <1>1, <2>2 DEF Rows
  <2> QED BY <2>1, <2>3 DEF Run!ReportKept
<1>4. CASE Run!RecWrite
  <2>1. rec = "seen" /\ erow' = [kept["rec"] EXCEPT !.st = "interrupted"]
    BY <1>4 DEF Run!RecWrite
  <2>2. kept["rec"].st = "running" /\ home = "cli"
    BY <2>1 DEF RunInv, RunTyped, HaveRead, Own, Run!Home
  <2> QED BY <2>1, <2>2 DEF Run!ReportKept, Run!Overtaken
<1>5. CASE Run!Next /\ ~Run!BeatWrite /\ ~Run!RecWrite
  <2>1. erow' = erow
    BY <1>2, <1>5 DEF Run!Next, Run!Runner, Run!Reader, Run!Client, Run!RunStarted,
       Run!QueryDone, Run!RunFinished, Run!FinalRead,
       Run!RunFailed, Run!Breaks, Run!Crash, Run!Beat, Run!Pick, Run!RecRead, Run!RecPublish,
       Run!Subscribe, Run!Look, Run!Told, Run!Idle
  <2> QED BY <1>1, <2>1 DEF Run!ReportKept
<1>6. CASE UNCHANGED Run!rvars
  <2>1. erow' = erow
    BY <1>6 DEF Run!rvars
  <2> QED BY <1>1, <2>1 DEF Run!ReportKept
<1> QED BY <1>3, <1>4, <1>5, <1>6

\* A step of the composition is one of the run's or leaves its variables.
LEMMA RunSteps == [Next]_vars => Run!Next \/ UNCHANGED Run!rvars
<1>1. UNCHANGED RunVars => UNCHANGED Run!rvars
  BY DEF RunVars, Run!rvars, Run!run, Run!live
<1>2. CASE Next
  BY <1>1, <1>2 DEF Next, RunVars
<1>3. CASE UNCHANGED vars
  BY <1>1, <1>3 DEF vars
<1> QED BY <1>2, <1>3

\* A run never leaves its invariant.
LEMMA RunInvHolds == Spec => []RunInv
<1>1. Init => RunInv
  BY RunInvInit DEF Init
<1>2. RunInv /\ [Next]_vars => RunInv'
  BY RunSteps, RunNext
<1> QED BY <1>1, <1>2, PTL DEF Spec

\* The report of an evaluation run, once in its row, is not taken back by a late
\* cancellation, nor by a reconciliation or a heartbeat that reads it; one that had
\* read the row before puts back the metadata, or interrupts the run of another
\* process that had no heartbeat for stale_run_after_s (evaluation/runner.py).
THEOREM ReportStaysHolds == Spec => ReportStays
<1>1. RunInv /\ [Next]_vars => [Run!ReportKept]_vars
  BY RunSteps, RunKept
<1> QED BY <1>1, RunInvHolds, PTL DEF Spec, ReportStays

-------------------------------------------------------------------------------
(* Experiments. *)

\* The records of a study.
Record == [exp : Exp, st : Exps!Ended, metrics : Exp \cup {0}]

\* The shape of every variable of the experiments that the argument uses.
ExpsTyped ==
    /\ state \in [Exp -> [st : {"none", "running", "done", "failed"}, metrics : Exp \cup {0}]]
    /\ job \in [Exp -> {"none", "starting", "live", "ok", "error"}]
    /\ watch \subseteq Exp /\ starting \in Nat /\ project \in Exp \cup {0}
    /\ study \in Seq(Record)

\* What the processes, the watchers and the state files say of one another.
Staged == \A e \in Exp :
    /\ (state[e].st = "none" => job[e] = "none")
    /\ (job[e] = "starting" => state[e].st = "running")
    /\ (e \in watch => job[e] \in {"live", "ok", "error"} /\ state[e].st = "running")
    /\ (state[e].st = "done" => job[e] = "ok")

\* The experiments between the check and their process.
Startings == {e \in Exp : job[e] = "starting"}

\* The counter is exact, and what is watched or starting fits the limit.
Counted ==
    /\ IsFiniteSet(watch) /\ IsFiniteSet(Startings)
    /\ starting = Cardinality(Startings) /\ Cardinality(watch) + starting <= MaxRunning

\* A study has one record of an experiment, which agrees with its state file.
Studied ==
    /\ \A i, j \in DOMAIN study : study[i].exp = study[j].exp => i = j
    /\ \A i \in DOMAIN study : /\ state[study[i].exp].st = study[i].st
                               /\ state[study[i].exp].metrics = study[i].metrics

\* The inductive invariant of the experiments.
ExpsInv == ExpsTyped /\ Staged /\ Counted /\ Studied

\* The instance counts as this module does.
LEMMA SameCount == \A S : Exps!Cardinality(S) = Cardinality(S)
BY DEF Exps!Cardinality, Cardinality

\* A project starts in the invariant.
LEMMA ExpsInit == Exps!Init => ExpsInv
<1> SUFFICES ASSUME Exps!Init PROVE ExpsInv
  OBVIOUS
<1>1. ExpsTyped
  BY DEF Exps!Init, ExpsTyped, Record
<1>2. Staged /\ Studied
  BY DEF Exps!Init, Staged, Studied
<1>3. Startings = {} /\ watch = {} /\ starting = 0
  BY DEF Exps!Init, Startings
<1>4. Counted
  BY <1>3, FS_EmptySet, Instances DEF Instances, Counted, Exps!ExperimentsAssumption
<1> QED BY <1>1, <1>2, <1>4 DEF ExpsInv

\* A step after which the study is as it was and no experiment in it has moved.
LEMMA StudyStays ==
  ASSUME ExpsInv, study' = study, NEW e \in Exp, state[e].st \in {"none", "running"},
         \A f \in Exp \ {e} : state'[f] = state[f]
  PROVE  Studied'
<1>1. \A i \in DOMAIN study : study[i] \in Record
  BY DEF ExpsInv, ExpsTyped
<1>2. \A i \in DOMAIN study : study[i].exp \in Exp \ {e}
  BY <1>1 DEF ExpsInv, Studied, Record, Exps!Ended
<1> QED BY <1>2 DEF ExpsInv, Studied

\* run_experiment takes the place that the check found free.
LEMMA ExpsRun == ASSUME ExpsInv, NEW e \in Exp, Exps!RunExperiment(e) PROVE ExpsInv'
<1>1. /\ state[e].st = "none" /\ starting + Cardinality(watch) < MaxRunning
      /\ state' = [state EXCEPT ![e].st = "running"] /\ starting' = starting + 1
      /\ job' = [job EXCEPT ![e] = "starting"] /\ UNCHANGED <<watch, project, study>>
  BY SameCount DEF Exps!RunExperiment, Exps!Active
<1>2. /\ state \in [Exp -> [st : {"none", "running", "done", "failed"}, metrics : Exp \cup {0}]]
      /\ job \in [Exp -> {"none", "starting", "live", "ok", "error"}]
      /\ starting \in Nat /\ job[e] = "none" /\ e \notin watch
  BY <1>1 DEF ExpsInv, ExpsTyped, Staged
<1>3. /\ \A f \in Exp : job'[f] = IF f = e THEN "starting" ELSE job[f]
      /\ \A f \in Exp \ {e} : state'[f] = state[f]
      /\ state'[e].st = "running"
  BY <1>1, <1>2
<1>4. ExpsTyped'
  BY <1>1, <1>2 DEF ExpsInv, ExpsTyped
<1>5. Staged'
  BY <1>1, <1>2, <1>3 DEF ExpsInv, Staged
<1>6. Counted'
  <2>1. Startings' = Startings \cup {e} /\ e \notin Startings
    BY <1>2, <1>3 DEF Startings
  <2>2. IsFiniteSet(Startings') /\ Cardinality(Startings') = Cardinality(Startings) + 1
    BY <2>1, FS_AddElement DEF ExpsInv, Counted
  <2>3. Cardinality(watch) \in Nat /\ MaxRunning \in Nat
    BY FS_CardinalityType, Instances DEF Instances, ExpsInv, Counted, Exps!ExperimentsAssumption
  <2> QED BY <1>1, <1>2, <2>2, <2>3 DEF ExpsInv, Counted
<1>7. Studied'
  BY <1>1, <1>3, StudyStays
<1> QED BY <1>4, <1>5, <1>6, <1>7 DEF ExpsInv

\* The process that starts hands its place to its watcher, or gives it up.
LEMMA ExpsSpawned == ASSUME ExpsInv, NEW e \in Exp, Exps!Spawned(e) PROVE ExpsInv'
<1>1. /\ job[e] = "starting" /\ starting' = starting - 1 /\ UNCHANGED <<project, study>>
      /\ \/ job' = [job EXCEPT ![e] = "live"] /\ watch' = watch \cup {e} /\ state' = state
         \/ /\ job' = [job EXCEPT ![e] = "error"] /\ watch' = watch
            /\ state' = [state EXCEPT ![e].st = "failed"]
  BY DEF Exps!Spawned
<1>2. /\ state \in [Exp -> [st : {"none", "running", "done", "failed"}, metrics : Exp \cup {0}]]
      /\ job \in [Exp -> {"none", "starting", "live", "ok", "error"}]
      /\ starting \in Nat /\ state[e].st = "running" /\ e \notin watch
  BY <1>1 DEF ExpsInv, ExpsTyped, Staged
<1>3. /\ \A f \in Exp \ {e} : job'[f] = job[f] /\ state'[f] = state[f]
      /\ job'[e] \in {"live", "error"} /\ state'[e].st \in {"running", "failed"}
      /\ e \in watch' => job'[e] = "live" /\ state'[e].st = "running"
      /\ watch' \subseteq watch \cup {e}
  BY <1>1, <1>2
<1>4. e \in Startings /\ Startings' = Startings \ {e}
  BY <1>1, <1>2, <1>3 DEF Startings
<1>5. /\ IsFiniteSet(Startings') /\ Cardinality(Startings') = Cardinality(Startings) - 1
      /\ Cardinality(Startings) \in Nat
  BY <1>4, FS_RemoveElement, FS_CardinalityType DEF ExpsInv, Counted
<1>6. /\ IsFiniteSet(watch') /\ Cardinality(watch') <= Cardinality(watch) + 1
      /\ Cardinality(watch) \in Nat /\ Cardinality(watch') \in Nat
  <2>1. watch' = watch \/ watch' = watch \cup {e}
    BY <1>1
  <2>2. Cardinality(watch) \in Nat
    BY FS_CardinalityType DEF ExpsInv, Counted
  <2>3. IsFiniteSet(watch) /\ e \notin watch
    BY <1>2 DEF ExpsInv, Counted
  <2>4. /\ IsFiniteSet(watch \cup {e})
        /\ Cardinality(watch \cup {e}) = Cardinality(watch) + 1
    BY <2>3, FS_AddElement
  <2> QED BY <2>1, <2>2, <2>3, <2>4
<1>7. Counted'
  <2>1. MaxRunning \in Nat
    BY Instances DEF Instances, Exps!ExperimentsAssumption
  <2> QED BY <1>1, <1>5, <1>6, <2>1 DEF ExpsInv, Counted
<1>8. starting - 1 \in Nat
  <2>1. Cardinality(Startings') \in Nat
    BY <1>5, FS_CardinalityType
  <2> QED BY <1>5, <2>1 DEF Counted, ExpsInv
<1>9. ExpsTyped'
  BY <1>1, <1>2, <1>8 DEF ExpsInv, ExpsTyped
<1>10. Staged'
  BY <1>1, <1>2, <1>3 DEF ExpsInv, Staged
<1>11. Studied'
  BY <1>1, <1>2, <1>3, StudyStays
<1> QED BY <1>7, <1>9, <1>10, <1>11 DEF ExpsInv

\* Metrics that a command writes are only in the directory.
LEMMA ExpsWrites == ASSUME ExpsInv, NEW e \in Exp, Exps!WritesMetrics(e) PROVE ExpsInv'
<1>1. project' = e /\ UNCHANGED <<state, job, watch, starting, study>>
  BY DEF Exps!WritesMetrics
<1> QED BY <1>1 DEF ExpsInv, ExpsTyped, Staged, Counted, Studied, Startings

\* A command ends before its watcher has said so.
LEMMA ExpsExits == ASSUME ExpsInv, NEW e \in Exp, Exps!Exits(e) PROVE ExpsInv'
<1>1. PICK rc \in {"ok", "error"} : job' = [job EXCEPT ![e] = rc]
  BY DEF Exps!Exits
<1>2. job[e] = "live" /\ UNCHANGED <<state, watch, starting, project, study>>
  BY DEF Exps!Exits
<1>3. /\ job \in [Exp -> {"none", "starting", "live", "ok", "error"}]
      /\ state[e].st # "done" /\ state[e].st # "none"
  BY <1>2 DEF ExpsInv, ExpsTyped, Staged
<1>4. \A f \in Exp : job'[f] = IF f = e THEN rc ELSE job[f]
  BY <1>1, <1>3
<1>5. Startings' = Startings
  BY <1>2, <1>4 DEF Startings
<1>6. ExpsTyped' /\ Counted' /\ Studied'
  BY <1>1, <1>2, <1>3, <1>5 DEF ExpsInv, ExpsTyped, Counted, Studied
<1>7. Staged'
  BY <1>2, <1>3, <1>4 DEF ExpsInv, Staged
<1> QED BY <1>6, <1>7 DEF ExpsInv

\* The records of a study after one more: the last ones, in their order.
LEMMA ArchiveFits ==
  ASSUME NEW S, NEW past \in Seq(S), NEW r \in S
  PROVE  /\ Exps!Archive(past, r) \in Seq(S)
         /\ \E k \in Nat : \A i \in DOMAIN Exps!Archive(past, r) :
               /\ i \in Nat
               /\ i + k \in DOMAIN past \cup {Len(past) + 1}
               /\ Exps!Archive(past, r)[i] = IF i + k = Len(past) + 1 THEN r ELSE past[i + k]
<1> DEFINE all == Append(past, r)
<1>1. /\ all \in Seq(S) /\ Len(all) = Len(past) + 1 /\ all # <<>>
      /\ \A i \in 1..(Len(past) + 1) :
            all[i] = IF i = Len(past) + 1 THEN r ELSE past[i]
  <2>1. all \in Seq(S) /\ Len(all) = Len(past) + 1
    OBVIOUS
  <2>2. all[Len(past) + 1] = r /\ \A i \in 1..Len(past) : all[i] = past[i]
    OBVIOUS
  <2>3. all # <<>>
    <3>1. Len(past) + 1 # 0
      OBVIOUS
    <3> HIDE DEF all
    <3> QED BY <2>1, <3>1
  <2>4. \A i \in 1..(Len(past) + 1) : i = Len(past) + 1 \/ i \in 1..Len(past)
    OBVIOUS
  <2> HIDE DEF all
  <2> QED BY <2>1, <2>2, <2>3, <2>4
<1>2. Exps!Archive(past, r) = IF Len(all) > StudyMax THEN Tail(all) ELSE all
  BY DEF Exps!Archive
<1> HIDE DEF all
<1>3. /\ Tail(all) \in Seq(S) /\ Len(Tail(all)) = Len(past)
      /\ \A i \in 1..Len(past) : Tail(all)[i] = all[i + 1]
  BY <1>1
<1>4. CASE Len(all) > StudyMax
  <2>1. \A i \in DOMAIN Tail(all) :
           /\ i \in Nat /\ i + 1 \in DOMAIN past \cup {Len(past) + 1}
           /\ Tail(all)[i] = IF i + 1 = Len(past) + 1 THEN r ELSE past[i + 1]
    BY <1>1, <1>3
  <2> QED BY <1>2, <1>3, <1>4, <2>1
<1>5. CASE ~(Len(all) > StudyMax)
  <2>1. \A i \in DOMAIN all :
           /\ i \in Nat /\ i + 0 \in DOMAIN past \cup {Len(past) + 1}
           /\ all[i] = IF i + 0 = Len(past) + 1 THEN r ELSE past[i + 0]
    BY <1>1
  <2> QED BY <1>1, <1>2, <1>5, <2>1
<1> QED BY <1>4, <1>5

\* The watcher writes state file and study from the same outcome, once: its
\* experiment was running, so that no record of it was there.
LEMMA ExpsWatched == ASSUME ExpsInv, NEW e \in Exp, Exps!Watched(e) PROVE ExpsInv'
<1> DEFINE r == [exp |-> e, st |-> Exps!Outcome(e), metrics |-> Exps!Archived(e)]
<1>1. /\ e \in watch /\ job[e] \in {"ok", "error"} /\ watch' = watch \ {e}
      /\ state' = [state EXCEPT ![e] = [st |-> Exps!Outcome(e), metrics |-> Exps!Archived(e)]]
      /\ study' = Exps!Archive(study, r) /\ UNCHANGED <<job, starting, project>>
  BY DEF Exps!Watched
<1>2. /\ state \in [Exp -> [st : {"none", "running", "done", "failed"}, metrics : Exp \cup {0}]]
      /\ study \in Seq(Record) /\ project \in Exp \cup {0}
  BY DEF ExpsInv, ExpsTyped
<1>3. Exps!Outcome(e) \in Exps!Ended /\ Exps!Archived(e) \in Exp \cup {0}
        /\ (Exps!Outcome(e) = "done" => job[e] = "ok")
  BY <1>2 DEF Exps!Outcome, Exps!Archived, Exps!Ended
<1>4. r \in Record /\ r.exp = e /\ r.st = Exps!Outcome(e) /\ r.metrics = Exps!Archived(e)
  BY <1>3 DEF Record
<1> HIDE DEF r
<1>5. /\ state' \in [Exp -> [st : {"none", "running", "done", "failed"}, metrics : Exp \cup {0}]]
      /\ state'[e].st = Exps!Outcome(e) /\ state'[e].metrics = Exps!Archived(e)
      /\ \A f \in Exp \ {e} : state'[f] = state[f]
  BY <1>1, <1>2, <1>3 DEF Exps!Ended
<1>6. study' \in Seq(Record)
  BY <1>1, <1>2, <1>4, ArchiveFits
<1>7. ExpsTyped'
  BY <1>1, <1>5, <1>6 DEF ExpsInv, ExpsTyped
<1>8. Staged'
  BY <1>1, <1>3, <1>5 DEF ExpsInv, Staged, Exps!Ended
<1>9. Counted'
  <2>1. Startings' = Startings
    BY <1>1 DEF Startings
  <2>2. IsFiniteSet(watch') /\ Cardinality(watch') = Cardinality(watch) - 1
        /\ Cardinality(watch) \in Nat
    BY <1>1, FS_RemoveElement, FS_CardinalityType DEF ExpsInv, Counted
  <2>3. starting \in Nat /\ MaxRunning \in Nat
    BY Instances DEF Instances, ExpsInv, ExpsTyped, Exps!ExperimentsAssumption
  <2> QED BY <1>1, <2>1, <2>2, <2>3 DEF ExpsInv, Counted
<1>10. \A i \in DOMAIN study : study[i] \in Record /\ study[i].exp \in Exp \ {e}
  <2>1. \A i \in DOMAIN study : study[i] \in Record
    BY <1>2
  <2>2. state[e].st = "running"
    BY <1>1 DEF ExpsInv, Staged
  <2> QED BY <2>1, <2>2 DEF ExpsInv, Studied, Record, Exps!Ended
<1>11. Studied'
  <2>1. PICK k \in Nat : \A i \in DOMAIN study' :
               /\ i \in Nat
               /\ i + k \in DOMAIN study \cup {Len(study) + 1}
               /\ study'[i] = IF i + k = Len(study) + 1 THEN r ELSE study[i + k]
    <3>1. \E k \in Nat : \A i \in DOMAIN Exps!Archive(study, r) :
             /\ i \in Nat
             /\ i + k \in DOMAIN study \cup {Len(study) + 1}
             /\ Exps!Archive(study, r)[i] = IF i + k = Len(study) + 1 THEN r ELSE study[i + k]
      BY <1>2, <1>4, ArchiveFits
    <3>2. study' = Exps!Archive(study, r)
      BY <1>1
    <3> QED BY <3>1, <3>2, Zenon
  <2>2. \A i \in DOMAIN study' : /\ state'[study'[i].exp].st = study'[i].st
                                 /\ state'[study'[i].exp].metrics = study'[i].metrics
    <3> TAKE i \in DOMAIN study'
    <3>1. CASE i + k = Len(study) + 1
      BY <2>1, <3>1, <1>4, <1>5
    <3>2. CASE i + k # Len(study) + 1
      <4>1. i + k \in DOMAIN study /\ study'[i] = study[i + k]
        BY <2>1, <3>2
      <4> QED BY <4>1, <1>5, <1>10 DEF ExpsInv, Studied
    <3> QED BY <3>1, <3>2
  <2>3. \A i, j \in DOMAIN study' : study'[i].exp = study'[j].exp => i = j
    <3> SUFFICES ASSUME NEW i \in DOMAIN study', NEW j \in DOMAIN study',
                        study'[i].exp = study'[j].exp
                 PROVE  i + k = j + k
      BY <2>1
    <3>1. CASE i + k = Len(study) + 1
      BY <2>1, <3>1, <1>4, <1>10
    <3>2. CASE i + k # Len(study) + 1
      <4>1. i + k \in DOMAIN study /\ study'[i] = study[i + k] /\ study[i + k].exp # e
        BY <2>1, <3>2, <1>10
      <4>2. j + k # Len(study) + 1
        BY <2>1, <4>1, <1>4
      <4>3. j + k \in DOMAIN study /\ study'[j] = study[j + k]
        BY <2>1, <4>2
      <4> QED BY <4>1, <4>3 DEF ExpsInv, Studied
    <3> QED BY <3>1, <3>2
  <2> QED BY <2>2, <2>3 DEF Studied
<1> QED BY <1>7, <1>8, <1>9, <1>11 DEF ExpsInv

\* A restart forgets all watchers, and what was starting has failed.
LEMMA ExpsRestart == ASSUME ExpsInv, Exps!Restart PROVE ExpsInv'
<1>1. PICK killed \in SUBSET {e \in Exp : job[e] \in {"starting", "live"}} :
         job' = [e \in Exp |-> IF e \in killed \/ job[e] = "starting" THEN "error" ELSE job[e]]
  BY DEF Exps!Restart
<1>2. watch' = {} /\ starting' = 0 /\ UNCHANGED <<state, project, study>>
  BY DEF Exps!Restart
<1>3. job \in [Exp -> {"none", "starting", "live", "ok", "error"}]
  BY DEF ExpsInv, ExpsTyped
<1>4. \A e \in Exp : job'[e] = IF e \in killed \/ job[e] = "starting" THEN "error" ELSE job[e]
  BY <1>1
<1>5. job' \in [Exp -> {"none", "starting", "live", "ok", "error"}]
  BY <1>1, <1>3
<1>6. ExpsTyped' /\ Studied'
  BY <1>2, <1>5 DEF ExpsInv, ExpsTyped, Studied
<1>7. Staged'
  BY <1>1, <1>2, <1>4 DEF ExpsInv, Staged
<1>8. Startings' = {}
  BY <1>3, <1>4 DEF Startings
<1>9. Counted'
  BY <1>2, <1>8, FS_EmptySet, Instances DEF Instances, Counted, Exps!ExperimentsAssumption
<1> QED BY <1>6, <1>7, <1>9 DEF ExpsInv

\* Every step of the experiments keeps the invariant.
LEMMA ExpsNext == ExpsInv /\ (Exps!Next \/ UNCHANGED Exps!xvars) => ExpsInv'
<1> SUFFICES ASSUME ExpsInv, Exps!Next \/ UNCHANGED Exps!xvars PROVE ExpsInv'
  OBVIOUS
<1>1. ASSUME UNCHANGED <<state, job, watch, starting, project, study>> PROVE ExpsInv'
  BY <1>1 DEF ExpsInv, ExpsTyped, Staged, Counted, Studied, Startings
<1>2. CASE Exps!Noted \/ Exps!Bind \/ UNCHANGED Exps!xvars
  BY <1>1, <1>2 DEF Exps!Noted, Exps!Bind, Exps!xvars
<1> QED BY <1>2, ExpsRun, ExpsSpawned, ExpsWrites, ExpsExits, ExpsWatched,
   ExpsRestart DEF Exps!Next

\* The invariant says what the run checks.
LEMMA ExpsKept == ExpsInv => Exps!RunningBounded /\ Exps!RecordsAgree
<1> SUFFICES ASSUME ExpsInv PROVE Exps!RunningBounded /\ Exps!RecordsAgree
  OBVIOUS
<1>1. Exps!RunningBounded
  <2>1. Exps!Watchable = watch \cup Startings /\ watch \cap Startings = {}
    BY DEF ExpsInv, ExpsTyped, Staged, Exps!Watchable, Startings
  <2>2. Cardinality(Exps!Watchable) = Cardinality(watch) + Cardinality(Startings)
    <3>1. Cardinality(watch) \in Nat /\ Cardinality(Startings) \in Nat
      BY FS_CardinalityType DEF ExpsInv, Counted
    <3>2. Cardinality(watch \cup Startings) =
             Cardinality(watch) + Cardinality(Startings) - Cardinality(watch \cap Startings)
      BY FS_Union DEF ExpsInv, Counted
    <3>3. Cardinality(watch \cap Startings) = 0
      BY <2>1, FS_EmptySet
    <3> QED BY <2>1, <3>1, <3>2, <3>3
  <2> QED BY <2>2, SameCount DEF Exps!RunningBounded, ExpsInv, Counted, Startings
<1>2. Exps!RecordsAgree
  <2>1. \A named \in SUBSET Exp : Exps!Verdict(named) = "satisfied"
          => \A e \in named : job[e] = "ok"
    BY DEF Exps!Verdict, ExpsInv, Staged
  <2> QED BY <2>1 DEF Exps!RecordsAgree, ExpsInv, Studied
<1> QED BY <1>1, <1>2

\* A step of the composition is one of the experiments' or leaves their variables.
LEMMA ExpsSteps == [Next]_vars => Exps!Next \/ UNCHANGED Exps!xvars
<1>1. UNCHANGED ExpsVars => UNCHANGED Exps!xvars
  BY DEF ExpsVars, Exps!xvars
<1>2. CASE Next
  BY <1>1, <1>2 DEF Next, ExpsVars
<1>3. CASE UNCHANGED vars
  BY <1>1, <1>3 DEF vars
<1> QED BY <1>2, <1>3

\* The experiments never leave their invariant.
LEMMA ExpsInvHolds == Spec => []ExpsInv
<1>1. Init => ExpsInv
  BY ExpsInit DEF Init
<1>2. ExpsInv /\ [Next]_vars => ExpsInv'
  BY ExpsSteps, ExpsNext
<1> QED BY <1>1, <1>2, PTL DEF Spec

-------------------------------------------------------------------------------
(* Documents. *)

\* The shape of every variable of the document that the argument uses.
WritingTyped ==
    /\ doc.outline \in Seq(Write!Section)
        /\ doc \in [outline : Seq(Write!Section), st : {"writing", "done"}]
    /\ texts \in [Id -> Nat] /\ writes \in Nat /\ plan \in Write!Names
        /\ mark \in [DOMAIN plan -> {"wait", "run", "done", "failed"}]

\* The inductive invariant of a document.
WritingInv == WritingTyped /\ Write!DoneHasText /\ Write!MarkdownCurrent

\* The outline of given names is one of ids, all pending.
LEMMA SlugFits == /\ \A s \in Write!Names : Write!Pending(s) \in Seq(Write!Section)
                  /\ \A s \in Write!Names : \A i \in DOMAIN Write!Pending(s) :
                         Write!Pending(s)[i].st = "pending"
                  /\ \A s \in Write!Names : \A i \in DOMAIN s : Slug[s[i]] \in Id
<1> SUFFICES ASSUME NEW s \in Write!Names
             PROVE  /\ Write!Pending(s) \in Seq(Write!Section)
                        /\ \A i \in DOMAIN Write!Pending(s) : Write!Pending(s)[i].st = "pending"
                    /\ \A i \in DOMAIN s : Slug[s[i]] \in Id
  OBVIOUS
<1>1. PICK n \in 1..MaxPlan : s \in [1..n -> Name]
  BY DEF Write!Names
<1>2. \A i \in 1..n : Slug[s[i]] \in Id
  BY <1>1, Instances DEF Instances, Write!WritingAssumption
<1>3. n \in Nat
  BY Instances DEF Instances, Write!WritingAssumption
<1>4. Write!Pending(s) = [i \in 1..n |-> [id |-> Slug[s[i]], st |-> "pending"]]
  BY <1>1 DEF Write!Pending
<1>5. Write!Pending(s) \in [1..n -> Write!Section]
  BY <1>2, <1>4 DEF Write!Section
<1>6. Write!Pending(s) \in Seq(Write!Section)
  BY <1>3, <1>5
<1> QED BY <1>1, <1>2, <1>4, <1>6

\* Marking a section changes that section only.
LEMMA MarkedFits ==
  ASSUME NEW outline \in Seq(Write!Section), NEW s \in Id
  PROVE  /\ Write!Marked(outline, s) \in Seq(Write!Section)
             /\ DOMAIN Write!Marked(outline, s) = DOMAIN outline
         /\ \A i \in DOMAIN outline :
               /\ Write!Marked(outline, s)[i].id = outline[i].id
               /\ (outline[i].id = s => Write!Marked(outline, s)[i].st = "done")
               /\ (outline[i].id # s => Write!Marked(outline, s)[i] = outline[i])
<1>1. /\ outline \in [1..Len(outline) -> Write!Section] /\ Len(outline) \in Nat
      /\ DOMAIN outline = 1..Len(outline)
  OBVIOUS
<1>2. \A i \in DOMAIN outline : outline[i] \in Write!Section
        /\ [id |-> s, st |-> "done"] \in Write!Section
  BY <1>1 DEF Write!Section
<1>3. /\ DOMAIN Write!Marked(outline, s) = DOMAIN outline
      /\ \A i \in DOMAIN outline : Write!Marked(outline, s)[i] =
           IF outline[i].id = s THEN [id |-> s, st |-> "done"] ELSE outline[i]
  BY DEF Write!Marked
<1>4. Write!Marked(outline, s) \in [1..Len(outline) -> Write!Section]
  BY <1>1, <1>2 DEF Write!Marked
<1>5. Write!Marked(outline, s) \in Seq(Write!Section)
  BY <1>1, <1>4
<1> QED BY <1>3, <1>5

\* The sections of an outline have ids.
LEMMA OutlineIds == \A s \in Seq(Write!Section) : \A i \in DOMAIN s : s[i] \in Write!Section
  /\ s[i].id \in Id
<1>1. \A s \in Seq(Write!Section) : \A i \in DOMAIN s : s[i] \in Write!Section
  OBVIOUS
<1> QED BY <1>1 DEF Write!Section

\* A document starts in the invariant.
LEMMA WritingInit == Write!Init => WritingInv
<1> SUFFICES ASSUME Write!Init PROVE WritingInv
  OBVIOUS
<1>1. /\ doc.outline = Write!Pending(plan) /\ doc.st = "writing" /\ texts = [s \in Id |-> 0]
      /\ mark = [i \in DOMAIN plan |-> "wait"] /\ plan \in Write!Names /\ md = <<>> /\ writes = 0
      /\ torn = {}
      /\ doc = [outline |-> Write!Pending(plan), st |-> "writing"]
  BY DEF Write!Init
<1>2. WritingTyped
  BY <1>1, SlugFits DEF WritingTyped
<1>3. Write!DoneHasText
  BY <1>1, SlugFits DEF Write!DoneHasText
<1>4. md = Write!Assemble(doc.outline, texts, torn)
  <2>0. doc.outline \in Seq(Write!Section)
          /\ \A i \in DOMAIN doc.outline : texts[doc.outline[i].id] = 0
    <3>1. doc.outline \in Seq(Write!Section)
      BY <1>2 DEF WritingTyped
    <3>2. \A i \in DOMAIN doc.outline : doc.outline[i].id \in Id
      BY <3>1, OutlineIds
    <3> QED BY <3>1, <3>2, <1>1
  <2>1. {j \in DOMAIN doc.outline : texts[doc.outline[j].id] # 0 \/ doc.outline[j].id \in torn} = {}
    BY <2>0, <1>1
  <2>2. Write!Assemble(doc.outline, texts, torn) = <<>>
    BY <2>1 DEF Write!Assemble
  <2> QED BY <2>2, <1>1
<1> QED BY <1>2, <1>3, <1>4 DEF WritingInv, Write!MarkdownCurrent

\* doc_write_section, whether all its writes happen or it stops within one of
\* them: the text comes first, then the mark, then the Markdown.
LEMMA WritingSection ==
  ASSUME WritingInv, NEW s \in Id, NEW upTo \in 0..3, Write!WriteSection(s, upTo), mark' = mark
  PROVE  WritingInv'
<1> DEFINE marked == Write!Marked(doc.outline, s)
<1>1. /\ writes' = writes + 1 /\ plan' = plan
      /\ texts' = IF upTo = 0 THEN texts ELSE [texts EXCEPT ![s] = writes + 1]
      /\ doc' = IF upTo < 2 THEN doc
                ELSE [outline |-> marked, st |-> IF Write!AllDone(marked) THEN "done" ELSE doc.st]
      /\ \E i \in DOMAIN doc.outline : doc.outline[i].id = s
  BY DEF Write!WriteSection, Write!Text
<1>2. /\ doc.outline \in Seq(Write!Section)
          /\ doc \in [outline : Seq(Write!Section), st : {"writing", "done"}]
      /\ texts \in [Id -> Nat] /\ writes \in Nat
      /\ plan \in Write!Names /\ mark \in [DOMAIN plan -> {"wait", "run", "done", "failed"}]
  BY DEF WritingInv, WritingTyped
<1>3. /\ marked \in Seq(Write!Section) /\ DOMAIN marked = DOMAIN doc.outline
      /\ \A i \in DOMAIN marked :
            /\ marked[i].id = doc.outline[i].id
            /\ (doc.outline[i].id = s => marked[i].st = "done")
            /\ (doc.outline[i].id # s => marked[i] = doc.outline[i])
  BY <1>2, MarkedFits
<1> HIDE DEF marked
<1>4. /\ doc' \in [outline : Seq(Write!Section), st : {"writing", "done"}]
      /\ doc'.outline = (IF upTo < 2 THEN doc.outline ELSE marked)
      /\ doc'.st = (IF upTo < 2 THEN doc.st ELSE IF Write!AllDone(marked) THEN "done" ELSE doc.st)
  BY <1>1, <1>2, <1>3
<1>5. /\ texts' \in [Id -> Nat] /\ (upTo # 0 => texts'[s] # 0) /\ writes' \in Nat
      /\ \A t \in Id : texts[t] # 0 => texts'[t] # 0
  <2>1. writes + 1 \in Nat /\ writes + 1 # 0
    BY <1>2
  <2> QED BY <1>1, <1>2, <2>1
<1>6. WritingTyped'
  BY <1>1, <1>2, <1>4, <1>5 DEF WritingTyped
<1>7. Write!DoneHasText'
  <2>1. \A i \in DOMAIN doc.outline : doc.outline[i].id \in Id /\ marked[i].id \in Id
    BY <1>2, <1>3, OutlineIds
  <2>2. \A i \in DOMAIN doc.outline : doc.outline[i].st = "done" => texts'[doc.outline[i].id] # 0
    BY <1>5, <2>1 DEF WritingInv, Write!DoneHasText
  <2>3. upTo # 0 => \A i \in DOMAIN marked : marked[i].st = "done" => texts'[marked[i].id] # 0
    <3> SUFFICES ASSUME upTo # 0, NEW i \in DOMAIN marked, marked[i].st = "done"
          PROVE texts'[marked[i].id] # 0
      OBVIOUS
    <3>1. i \in DOMAIN doc.outline /\ marked[i].id = doc.outline[i].id
      BY <1>3
    <3>2. CASE doc.outline[i].id = s
      BY <3>1, <3>2, <1>5
    <3>3. CASE doc.outline[i].id # s
      BY <3>1, <3>3, <1>3, <2>2
    <3> QED BY <3>2, <3>3
  <2>4. \A i \in DOMAIN doc'.outline : doc'.outline[i].st = "done"
          => texts'[doc'.outline[i].id] # 0
    <3>1. CASE upTo < 2
      BY <3>1, <1>4, <2>2
    <3>2. CASE ~(upTo < 2)
      BY <3>2, <1>4, <2>3
    <3> QED BY <3>1, <3>2
  <2>5. doc.st = "done" => doc.outline # <<>> /\ Write!AllDone(doc.outline)
    BY DEF WritingInv, Write!DoneHasText, Write!Verdict
  <2>6. Write!AllDone(doc.outline) => Write!AllDone(marked)
    <3> SUFFICES ASSUME Write!AllDone(doc.outline), NEW i \in DOMAIN marked
          PROVE marked[i].st = "done"
      BY DEF Write!AllDone
    <3>1. i \in DOMAIN doc.outline /\ doc.outline[i].st = "done"
      BY <1>3 DEF Write!AllDone
    <3>2. CASE doc.outline[i].id = s
      BY <3>1, <3>2, <1>3
    <3>3. CASE doc.outline[i].id # s
      BY <3>1, <3>3, <1>3
    <3> QED BY <3>2, <3>3
  <2>7. marked # <<>>
    BY <1>1, <1>3
  <2>8. doc'.st = "done" => doc'.outline # <<>> /\ Write!AllDone(doc'.outline)
    <3>1. CASE upTo < 2
      BY <3>1, <1>4, <2>5
    <3>2. CASE ~(upTo < 2)
      BY <3>2, <1>4, <2>5, <2>6, <2>7
    <3> QED BY <3>1, <3>2
  <2>9. \A i \in DOMAIN plan : mark[i] = "done" => texts'[Slug[plan[i]]] # 0
    BY <1>2, <1>5, SlugFits DEF WritingInv, Write!DoneHasText
  <2> QED BY <1>1, <2>4, <2>8, <2>9 DEF Write!DoneHasText, Write!Verdict, Write!AllDone
<1>8. Write!MarkdownCurrent'
  <2>1. CASE upTo < 3
    <3>1. cut'
      BY <2>1 DEF Write!WriteSection, Write!Stopped
    <3> QED BY <3>1 DEF Write!MarkdownCurrent
  <2>2. CASE upTo = 3
    <3>1. md' = Write!Assemble(marked, texts', torn')
      BY <2>2 DEF Write!WriteSection, Write!MarkdownWritten, marked
    <3>2. doc'.outline = marked
      BY <2>2, <1>4
    <3> QED BY <3>1, <3>2 DEF Write!MarkdownCurrent
  <2> QED BY <2>1, <2>2
<1> QED BY <1>6, <1>7, <1>8 DEF WritingInv

\* A step that only moves the plan on.
LEMMA WritingMark ==
  ASSUME WritingInv, NEW i \in DOMAIN plan, NEW m \in {"run", "done", "failed"},
         mark' = [mark EXCEPT ![i] = m], UNCHANGED <<plan, doc, texts, torn, md, cut, writes>>,
         m = "done" => texts[Slug[plan[i]]] # 0
  PROVE  WritingInv'
<1>1. WritingTyped'
  <2>1. mark' \in [DOMAIN plan -> {"wait", "run", "done", "failed"}]
    BY DEF WritingInv, WritingTyped
  <2> QED BY <2>1 DEF WritingInv, WritingTyped
<1>2. \A j \in DOMAIN plan : mark'[j] = IF j = i THEN m ELSE mark[j]
  BY DEF WritingInv, WritingTyped
<1>3. Write!DoneHasText'
  BY <1>2 DEF WritingInv, Write!DoneHasText, Write!Verdict, Write!AllDone
<1>4. Write!MarkdownCurrent'
  BY DEF WritingInv, Write!MarkdownCurrent
<1> QED BY <1>1, <1>3, <1>4 DEF WritingInv

\* doc_set_outline: nothing is done, and the Markdown is assembled anew or left.
LEMMA WritingOutline ==
  ASSUME WritingInv, NEW names \in {<<>>} \cup Write!Names, NEW upTo \in 1..2,
         Write!SetOutline(names, upTo)
  PROVE  WritingInv'
<1> DEFINE outline == IF names = <<>> THEN doc.outline ELSE Write!Pending(names)
<1>1. /\ writes' = writes + 1 /\ doc' = [outline |-> outline, st |-> "writing"]
      /\ UNCHANGED <<plan, texts, torn, mark>>
      /\ upTo = 2 => md' = Write!Assemble(outline, texts, torn)
      /\ upTo # 2 => cut'
  <2>1. upTo # 2 => cut'
    <3>1. upTo # 2 => upTo < 2
      OBVIOUS
    <3>2. upTo < 2 => cut'
      BY DEF Write!SetOutline, Write!Stopped
    <3> QED BY <3>1, <3>2
  <2>2. /\ writes' = writes + 1 /\ doc' = [outline |-> outline, st |-> "writing"]
        /\ UNCHANGED <<plan, texts, torn, mark>>
        /\ Write!MarkdownWritten(upTo = 2, Write!Assemble(outline, texts, torn))
    BY DEF Write!SetOutline
  <2>3. upTo = 2 => md' = Write!Assemble(outline, texts, torn)
    BY <2>2 DEF Write!MarkdownWritten
  <2> QED BY <2>1, <2>2, <2>3
<1>2. outline \in Seq(Write!Section)
  BY SlugFits DEF WritingInv, WritingTyped
<1>3. \A i \in DOMAIN outline : outline[i].st = "done" => texts[outline[i].id] # 0
  BY SlugFits DEF WritingInv, Write!DoneHasText
<1> HIDE DEF outline
<1>4. doc'.outline = outline /\ doc'.st = "writing" /\ writes' \in Nat
      /\ doc' \in [outline : Seq(Write!Section), st : {"writing", "done"}]
  BY <1>1, <1>2 DEF WritingInv, WritingTyped
<1>5. WritingTyped'
  BY <1>1, <1>2, <1>4 DEF WritingInv, WritingTyped
<1>6. Write!DoneHasText'
  BY <1>1, <1>3, <1>4 DEF WritingInv, Write!DoneHasText
<1>7. Write!MarkdownCurrent'
  <2>1. CASE upTo = 2
    BY <1>1, <1>4, <2>1 DEF Write!MarkdownCurrent
  <2>2. CASE upTo # 2
    BY <1>1, <2>2 DEF Write!MarkdownCurrent
  <2> QED BY <2>1, <2>2
<1> QED BY <1>5, <1>6, <1>7 DEF WritingInv

\* Every step of a document keeps the invariant.
LEMMA WritingNext == WritingInv /\ (Write!Next \/ UNCHANGED Write!wvars) => WritingInv'
<1> SUFFICES ASSUME WritingInv, Write!Next \/ UNCHANGED Write!wvars PROVE WritingInv'
  OBVIOUS
<1>1. ASSUME NEW i \in DOMAIN plan, Write!StartCreator(i) PROVE WritingInv'
  <2>1. mark' = [mark EXCEPT ![i] = "run"] /\ UNCHANGED <<plan, doc, texts, torn, md, cut, writes>>
    BY <1>1 DEF Write!StartCreator
  <2> QED BY <2>1, WritingMark
<1>2. ASSUME NEW i \in DOMAIN plan, Write!CreatorReturns(i) PROVE WritingInv'
  <2> DEFINE m == IF Write!SectionWritten(Slug[plan[i]]) THEN "done" ELSE "failed"
  <2>1. mark' = [mark EXCEPT ![i] = m] /\ UNCHANGED <<plan, doc, texts, torn, md, cut, writes>>
    BY <1>2 DEF Write!CreatorReturns
  <2>2. m = "done" => texts[Slug[plan[i]]] # 0
    BY DEF Write!SectionWritten, WritingInv, Write!DoneHasText
  <2>3. m \in {"run", "done", "failed"}
    OBVIOUS
  <2> HIDE DEF m
  <2> QED BY <2>1, <2>2, <2>3, WritingMark
<1>3. ASSUME NEW i \in DOMAIN plan, NEW s \in Id, NEW upTo \in 0..3, Write!CreatorWrites(i, s,
        upTo)
      PROVE  WritingInv'
  BY <1>3, WritingSection DEF Write!CreatorWrites
<1>4. ASSUME NEW s \in Id, NEW upTo \in 0..3, Write!UserWrites(s, upTo) PROVE WritingInv'
  BY <1>4, WritingSection DEF Write!UserWrites
<1>5. CASE UNCHANGED Write!wvars
  <2>1. UNCHANGED <<plan, doc, texts, torn, md, cut, mark, writes>>
    BY <1>5 DEF Write!wvars
  <2> QED BY <2>1 DEF WritingInv, WritingTyped, Write!DoneHasText, Write!MarkdownCurrent,
     Write!Verdict, Write!AllDone
<1> QED BY <1>1, <1>2, <1>3, <1>4, <1>5, WritingOutline DEF Write!Next

\* A step of the composition is one of the document's or leaves its variables.
LEMMA WriteSteps == [Next]_vars => Write!Next \/ UNCHANGED Write!wvars
<1>1. UNCHANGED WriteVars => UNCHANGED Write!wvars
  BY DEF WriteVars, Write!wvars
<1>2. CASE Next
  BY <1>1, <1>2 DEF Next, WriteVars
<1>3. CASE UNCHANGED vars
  BY <1>1, <1>3 DEF vars
<1> QED BY <1>2, <1>3

\* A document never leaves its invariant.
LEMMA WritingInvHolds == Spec => []WritingInv
<1>1. Init => WritingInv
  BY WritingInit DEF Init
<1>2. WritingInv /\ [Next]_vars => WritingInv'
  BY WriteSteps, WritingNext
<1> QED BY <1>1, <1>2, PTL DEF Spec

\* Experiments stay within their limit, and study, records and verdicts agree with
\* the processes that ran (agent/domains/coding.py); a chapter is marked as done
\* only after a text of it was written in full, and the Markdown is the outline's with
\* what the files hold unless the last change was cut off, through edits by the user,
\* colliding creators, writes the disk refuses and ends of the process
\* (agent/domains/creation.py).
THEOREM DomainsAgreeHolds == Spec => []DomainsAgree
<1>1. ExpsInv /\ WritingInv => DomainsAgree
  BY ExpsKept DEF DomainsAgree, WritingInv
<1> QED BY <1>1, ExpsInvHolds, WritingInvHolds, PTL

-------------------------------------------------------------------------------
(* The chain of models. *)

\* The shape of every variable of the gateway that the argument uses.
ModelTyped ==
    /\ fails \in [Model!Cand -> Nat] /\ streak \in [Model!Cand -> Nat]
    /\ opened \in [Model!Cand -> {Model!Closed} \cup Nat] /\ clock \in Nat
    /\ todo \subseteq Model!Cand /\ shut \subseteq Model!Cand /\ tried \subseteq Model!Cand
    /\ voice \subseteq Model!Cand /\ kind \in {"idle", "invoke", "stream", "probe"}

\* A breaker counts no more failures than there were in a row, and is open only
\* after Threshold of them.
Broken == \A c \in Model!Cand :
    /\ fails[c] <= streak[c]
    /\ opened[c] # Model!Closed => fails[c] >= Threshold
    /\ c \in shut => streak[c] >= Threshold

\* A call that runs has a candidate to ask, none that is shut, and only the one it
\* asks has spoken; each is asked, shut or has failed it.
Asking == kind # "idle" =>
    /\ todo # {} /\ todo \cap shut = {} /\ voice \subseteq {Model!Asked}
    /\ kind # "probe" => tried \cup shut \cup todo = Model!Cand
    /\ end # "failed"

\* When no call runs, at most one has spoken.
Heard == /\ \E c \in Model!Cand : voice \subseteq {c}
         /\ end = "failed" => tried \cup shut = Model!Cand

\* The inductive invariant of the chain of models.
ModelInv == ModelTyped /\ Broken /\ Asking /\ Heard

\* The candidate a call asks is one of those it has still to try.
LEMMA AskedFits == ASSUME NEW T, T \subseteq Model!Cand, T # {} PROVE Model!Min(T) \in T
<1>1. T \subseteq Nat
  BY DEF Model!Cand
<1>2. \E x \in T : \A y \in T : x <= y
  BY <1>1, LeastOf
<1> QED BY <1>2 DEF Model!Min

\* The chain starts in the invariant.
LEMMA ModelInit == Model!Init => ModelInv
<1> SUFFICES ASSUME Model!Init PROVE ModelInv
  OBVIOUS
<1>1. N \in Nat \ {0} /\ 1 \in Model!Cand
  BY Instances DEF Instances, Model!ModelGatewayAssumption, Model!Cand
<1> QED BY <1>1 DEF Model!Init, ModelInv, ModelTyped, Broken, Asking, Heard, Model!Closed

\* A call skips the models that are shut, and closes the breaker of those whose
\* time is over.
LEMMA ModelCall ==
  ASSUME ModelInv, NEW k \in {"invoke", "stream", "probe"}, Model!Call(k)
  PROVE  ModelInv'
<1> DEFINE free == Model!Cand \ shut'
<1>1. /\ shut' = {c \in Model!Cand : Model!Open(c)} /\ tried' = {} /\ voice' = {}
      /\ todo' = IF k = "probe" /\ free # {} THEN {Model!Min(free)} ELSE free
      /\ kind' = IF free = {} THEN "idle" ELSE k
      /\ end' = IF free = {} THEN "open" ELSE "none"
      /\ fails' = [c \in Model!Cand |-> IF opened[c] # Model!Closed
          /\ ~Model!Open(c) THEN 0 ELSE fails[c]]
      /\ opened' = [c \in Model!Cand |-> IF Model!Open(c) THEN opened[c] ELSE Model!Closed]
      /\ clock' = clock /\ streak' = streak
  BY DEF Model!Call, Model!Forget
<1>2. ModelTyped /\ Broken
  BY DEF ModelInv
<1>3. free # {} => Model!Min(free) \in free
  BY AskedFits
<1>4. todo' \subseteq free /\ (free # {} => todo' # {}) /\ (k # "probe" => todo' = free)
  BY <1>1, <1>3
<1>5. /\ fails' \in [Model!Cand -> Nat] /\ opened' \in [Model!Cand -> {Model!Closed} \cup Nat]
  BY <1>1, <1>2 DEF ModelTyped
<1>6. ModelTyped'
  <2>1. kind' \in {"idle", "invoke", "stream", "probe"} /\ todo' \subseteq Model!Cand
    BY <1>1, <1>4
  <2> QED BY <1>1, <1>2, <1>5, <2>1 DEF ModelTyped
<1>7. Broken'
  <2> SUFFICES ASSUME NEW c \in Model!Cand
               PROVE  /\ fails'[c] <= streak'[c]
                      /\ opened'[c] # Model!Closed => fails'[c] >= Threshold
                      /\ c \in shut' => streak'[c] >= Threshold
    BY DEF Broken, Model!Closed
  <2>1. /\ fails[c] \in Nat /\ streak[c] \in Nat /\ fails[c] <= streak[c]
        /\ (opened[c] # Model!Closed => fails[c] >= Threshold) /\ Threshold \in Nat
    BY <1>2, Instances DEF ModelTyped, Broken, Instances, Model!ModelGatewayAssumption
  <2>2. CASE Model!Open(c)
    <3>1. opened[c] # Model!Closed
      BY <2>2 DEF Model!Open
    <3>2. fails'[c] = fails[c] /\ opened'[c] = opened[c]
      BY <1>1, <2>2
    <3> QED BY <1>1, <2>1, <3>1, <3>2
  <2>3. CASE ~Model!Open(c)
    <3>1. fails'[c] \in {0, fails[c]} /\ opened'[c] = Model!Closed /\ c \notin shut'
      BY <1>1, <2>3
    <3> QED BY <1>1, <2>1, <3>1
  <2> QED BY <2>2, <2>3
<1>8. Asking'
  <2> SUFFICES ASSUME kind' # "idle"
               PROVE  /\ todo' # {} /\ todo' \cap shut' = {}
                      /\ kind' # "probe" => tried' \cup shut' \cup todo' = Model!Cand
                      /\ end' # "failed"
    BY <1>1 DEF Asking
  <2>1. free # {} /\ kind' = k
    BY <1>1
  <2> QED BY <1>1, <1>4, <2>1
<1>9. Heard'
  BY <1>1 DEF ModelInv, Heard
<1> QED BY <1>6, <1>7, <1>8, <1>9 DEF ModelInv

\* The one that is asked, while a call runs.
LEMMA AskedCand == ASSUME ModelInv, kind # "idle"
  PROVE Model!Asked \in todo /\ Model!Asked \in Model!Cand
BY AskedFits DEF ModelInv, ModelTyped, Asking, Model!Asked

\* A model answers: its breaker is closed, and only it has spoken.
LEMMA ModelSucceeds == ModelInv /\ Model!Succeeds => ModelInv'
<1> SUFFICES ASSUME ModelInv, Model!Succeeds PROVE ModelInv'
  OBVIOUS
<1> DEFINE c == Model!Asked
<1>1. /\ kind # "idle" /\ kind' = "idle" /\ todo' = {} /\ end' = "ok"
      /\ fails' = [fails EXCEPT ![c] = 0] /\ opened' = [opened EXCEPT ![c] = Model!Closed]
      /\ streak' = [streak EXCEPT ![c] = 0] /\ voice' = voice \cup {c}
      /\ UNCHANGED <<clock, shut, tried>>
  BY DEF Model!Succeeds, Model!Ends
<1>2. c \in todo /\ c \in Model!Cand
  BY <1>1, AskedCand
<1>3. c \notin shut /\ voice \subseteq {c}
  BY <1>1, <1>2 DEF ModelInv, Asking
<1> HIDE DEF c
<1>4. ModelTyped'
  BY <1>1, <1>2 DEF ModelInv, ModelTyped
<1>5. Broken'
  <2>1. \A d \in Model!Cand : d # c => /\ fails'[d] = fails[d] /\ opened'[d] = opened[d]
                                       /\ streak'[d] = streak[d]
    BY <1>1 DEF ModelInv, ModelTyped
  <2>2. fails'[c] = 0 /\ opened'[c] = Model!Closed /\ streak'[c] = 0
    BY <1>1, <1>2 DEF ModelInv, ModelTyped
  <2> QED BY <1>1, <1>3, <2>1, <2>2 DEF ModelInv, Broken, Model!Closed
<1>6. Asking' /\ Heard'
  BY <1>1, <1>2, <1>3 DEF Asking, Heard
<1> QED BY <1>4, <1>5, <1>6 DEF ModelInv

\* A model fails: its breaker counts that, and the next one is asked unless it has
\* spoken.
LEMMA ModelFails == ModelInv /\ Model!Fails => ModelInv'
<1> SUFFICES ASSUME ModelInv, Model!Fails PROVE ModelInv'
  OBVIOUS
<1> DEFINE c == Model!Asked
           f == fails[c] + 1
<1>1. /\ kind # "idle" /\ fails' = [fails EXCEPT ![c] = f]
      /\ opened' = [opened EXCEPT ![c] = IF f >= Threshold THEN clock ELSE opened[c]]
      /\ streak' = [streak EXCEPT ![c] = streak[c] + 1] /\ tried' = tried \cup {c}
      /\ UNCHANGED <<clock, shut, voice>>
  BY DEF Model!Fails
<1>2. \/ kind = "probe" /\ kind' = "idle" /\ todo' = {} /\ end' = "degraded"
      \/ kind # "probe" /\ c \in voice /\ kind' = "idle" /\ todo' = {} /\ end' = "raised"
      \/ kind # "probe" /\ c \notin voice /\ todo = {c} /\ kind' = "idle" /\ todo' = {}
        /\ end' = "failed"
      \/ kind # "probe" /\ c \notin voice /\ todo # {c} /\ todo' = todo \ {c} /\ kind' = kind
        /\ end' = end
  BY DEF Model!Fails, Model!Ends, Model!Spoke
<1>3. c \in todo /\ c \in Model!Cand
  BY <1>1, AskedCand
<1>4. c \notin shut /\ voice \subseteq {c}
  BY <1>1, <1>3 DEF ModelInv, Asking
<1> HIDE DEF c
<1>5. /\ fails[c] \in Nat /\ streak[c] \in Nat /\ clock \in Nat /\ f \in Nat /\ f <= streak[c] + 1
  BY <1>3 DEF ModelInv, ModelTyped, Broken
<1>6. ModelTyped'
  <2>1. fails' \in [Model!Cand -> Nat] /\ streak' \in [Model!Cand -> Nat]
    BY <1>1, <1>3, <1>5 DEF ModelInv, ModelTyped
  <2>2. opened' \in [Model!Cand -> {Model!Closed} \cup Nat]
    BY <1>1, <1>3, <1>5 DEF ModelInv, ModelTyped
  <2>3. todo' \subseteq todo /\ kind' \in {"idle", kind}
    BY <1>2
  <2> QED BY <1>1, <1>3, <2>1, <2>2, <2>3 DEF ModelInv, ModelTyped
<1>7. Broken'
  <2>1. \A d \in Model!Cand : d # c => /\ fails'[d] = fails[d] /\ opened'[d] = opened[d]
                                       /\ streak'[d] = streak[d]
    BY <1>1 DEF ModelInv, ModelTyped
  <2>2. /\ fails'[c] = f /\ streak'[c] = streak[c] + 1
        /\ opened'[c] = IF f >= Threshold THEN clock ELSE opened[c]
    BY <1>1, <1>3 DEF ModelInv, ModelTyped
  <2>3. opened'[c] # Model!Closed => f >= Threshold
    <3>1. opened[c] # Model!Closed => fails[c] >= Threshold
      BY <1>3 DEF ModelInv, Broken
    <3>2. Threshold \in Nat
      BY Instances DEF Instances, Model!ModelGatewayAssumption
    <3> QED BY <1>5, <2>2, <3>1, <3>2
  <2> QED BY <1>1, <1>4, <1>5, <2>1, <2>2, <2>3 DEF ModelInv, Broken, Model!Closed
<1>8. Asking' /\ Heard'
  <2>0. tried \cup shut \cup todo = Model!Cand \/ kind = "probe"
    BY <1>1 DEF ModelInv, Asking
  <2>1. CASE kind' = "idle"
    <3>0. end' = "failed" => todo = {c} /\ kind # "probe"
      BY <1>1, <1>2, <2>1
    <3>1. end' = "failed" => tried' \cup shut' = Model!Cand
      <4> HAVE end' = "failed"
      <4>1. tried \cup shut \cup {c} = Model!Cand
        BY <2>0, <3>0
      <4> QED BY <4>1, <1>1
    <3> QED BY <1>1, <1>3, <1>4, <2>1, <3>1 DEF Asking, Heard
  <2>2. CASE kind' # "idle"
    <3>1. kind # "probe" /\ c \notin voice /\ todo # {c} /\ todo' = todo \ {c} /\ kind' = kind
            /\ end' = end
      BY <1>2, <2>2
    <3>2. todo' # {} /\ todo' \cap shut' = {} /\ voice' = {} /\ end' # "failed"
      BY <1>1, <1>3, <1>4, <3>1 DEF ModelInv, Asking
    <3>3. tried' \cup shut' \cup todo' = Model!Cand
      BY <1>1, <1>3, <2>0, <3>1
    <3> QED BY <1>3, <3>2, <3>3 DEF Asking, Heard
  <2> QED BY <2>1, <2>2
<1> QED BY <1>6, <1>7, <1>8 DEF ModelInv

\* Every step of the chain keeps the invariant.
LEMMA ModelNext == ModelInv /\ (Model!Next \/ UNCHANGED Model!gvars) => ModelInv'
<1> SUFFICES ASSUME ModelInv, Model!Next \/ UNCHANGED Model!gvars PROVE ModelInv'
  OBVIOUS
<1>1. CASE Model!NewObject
  <2>1. /\ kind = "idle" /\ fails' = [c \in Model!Cand |-> 0]
            /\ opened' = [c \in Model!Cand |-> Model!Closed]
        /\ UNCHANGED <<clock, kind, todo, shut, tried, voice, end, streak>>
    BY <1>1 DEF Model!NewObject
  <2>2. ModelTyped'
    BY <2>1 DEF ModelInv, ModelTyped
  <2>3. Broken'
    BY <2>1 DEF ModelInv, ModelTyped, Broken, Model!Closed
  <2> QED BY <2>1, <2>2, <2>3 DEF ModelInv, Asking, Heard
<1>2. CASE Model!Tick
  <2>1. /\ clock' = clock + 1
        /\ UNCHANGED <<fails, opened, kind, todo, shut, tried, voice, end, streak>>
    BY <1>2 DEF Model!Tick
  <2>2. ModelTyped'
    BY <2>1 DEF ModelInv, ModelTyped, Model!Closed
  <2> QED BY <2>1, <2>2 DEF ModelInv, Broken, Asking, Heard, Model!Asked, Model!Closed
<1>3. CASE Model!Chunk
  <2>1. /\ kind = "stream" /\ voice' = voice \cup {Model!Asked}
        /\ UNCHANGED <<fails, opened, clock, kind, todo, shut, tried, end, streak>>
    BY <1>3 DEF Model!Chunk
  <2>2. Model!Asked \in Model!Cand /\ Model!Asked' = Model!Asked
    BY <2>1, AskedCand DEF Model!Asked
  <2>3. voice' \subseteq {Model!Asked}
    BY <2>1 DEF ModelInv, Asking
  <2>4. ModelTyped' /\ Broken'
    BY <2>1, <2>2 DEF ModelInv, ModelTyped, Broken, Model!Closed
  <2>5. Asking' /\ Heard'
    BY <2>1, <2>2, <2>3 DEF ModelInv, Asking, Heard
  <2> QED BY <2>4, <2>5 DEF ModelInv
<1>4. CASE Model!Raises
  <2>1. /\ kind' = "idle" /\ todo' = {} /\ end' \in {"degraded", "raised"}
        /\ UNCHANGED <<fails, opened, clock, shut, tried, voice, streak>>
    BY <1>4 DEF Model!Raises, Model!Ends
  <2> QED BY <2>1 DEF ModelInv, ModelTyped, Broken, Asking, Heard, Model!Closed
<1>5. CASE UNCHANGED Model!gvars
  <2>1. UNCHANGED <<fails, opened, clock, kind, todo, shut, tried, voice, end, streak>>
    BY <1>5 DEF Model!gvars
  <2> QED BY <2>1 DEF ModelInv, ModelTyped, Broken, Asking, Heard, Model!Asked, Model!Closed
<1> QED BY <1>1, <1>2, <1>3, <1>4, <1>5, ModelSucceeds, ModelFails, ModelCall DEF Model!Next

\* A step of the composition is one of the chain's or leaves its variables.
LEMMA ModelSteps == [Next]_vars => Model!Next \/ UNCHANGED Model!gvars
<1>1. UNCHANGED ModelVars => UNCHANGED Model!gvars
  BY DEF ModelVars, Model!gvars
<1>2. CASE Next
  BY <1>1, <1>2 DEF Next, ModelVars
<1>3. CASE UNCHANGED vars
  BY <1>1, <1>3 DEF vars
<1> QED BY <1>2, <1>3

\* The invariant says what the run checks.
LEMMA ModelKept == ModelInv => Model!NoneLeftOut /\ Model!OneVoice
<1> SUFFICES ASSUME ModelInv PROVE Model!NoneLeftOut /\ Model!OneVoice
  OBVIOUS
<1>1. Model!NoneLeftOut
  BY DEF ModelInv, ModelTyped, Broken, Heard, Model!NoneLeftOut
<1>2. PICK c \in Model!Cand : voice \subseteq {c}
  BY DEF ModelInv, Heard
<1>3. Cardinality(voice) <= 1
  <2>1. voice = {} \/ voice = {} \cup {c}
    BY <1>2
  <2> QED BY <2>1, FS_EmptySet, FS_AddElement
<1>4. Model!Cardinality(voice) = Cardinality(voice)
  BY DEF Model!Cardinality, Cardinality
<1> QED BY <1>1, <1>3, <1>4 DEF Model!OneVoice

\* The chain never leaves its invariant.
LEMMA ModelInvHolds == Spec => []ModelInv
<1>1. Init => ModelInv
  BY ModelInit DEF Init
<1>2. ModelInv /\ [Next]_vars => ModelInv'
  BY ModelSteps, ModelNext
<1> QED BY <1>1, <1>2, PTL DEF Spec

\* A call fails only when every model has failed it or its breaker was open after
\* Threshold failures in a row, and never are chunks of two models mixed in one answer
\* (agent/core/model_gateway.py).
THEOREM ModelCallsHolds == Spec => []ModelCalls
<1>1. ModelInv => ModelCalls
  BY ModelKept DEF ModelCalls
<1> QED BY <1>1, ModelInvHolds, PTL

-------------------------------------------------------------------------------
(* Memories. *)

\* A record of the file, or none.
Entry == Memory!Record \cup {Memory!None}

\* Who has a consent on record was agreed to.
MemoryInv ==
    /\ records \in [Memory!Content -> Entry] /\ Conf \subseteq 0..20
    /\ \A c \in Memory!Content : records[c].consent => c \in agreed

\* The fields of an entry.
LEMMA EntryFields ==
  ASSUME NEW r \in Entry
  PROVE  /\ r.rank \in 0..2 /\ r.conf \in 0..20 /\ r.consent \in BOOLEAN
         /\ r.st \in {"none", "active", "candidate", "conflict", "superseded"}
<1>1. CASE r \in Memory!Record
  BY <1>1 DEF Memory!Record
<1>2. CASE r = Memory!None
  <2>1. r.st = "none" /\ r.rank = 0 /\ r.conf = 0 /\ r.consent = FALSE
    BY <1>2 DEF Memory!None
  <2>2. r.rank \in 0..2 /\ r.conf \in 0..20
    BY <2>1
  <2>3. r.consent \in BOOLEAN
    BY <2>1
  <2> QED BY <2>1, <2>2, <2>3
<1> QED BY <1>1, <1>2 DEF Entry

\* upsert_record gives a content no consent that neither it nor the write has, and
\* none to any other.
LEMMA UpsertKeeps ==
  ASSUME MemoryInv, NEW c \in Memory!Content, NEW new \in Memory!Record, Memory!Upsert(c, new)
  PROVE  /\ records' \in [Memory!Content -> Entry]
         /\ \A e \in Memory!Content :
               records'[e].consent => records[e].consent \/ (e = c /\ new.consent)
<1>0. /\ records \in [Memory!Content -> Entry] /\ new \in Entry
      /\ \A e \in Memory!Content : records[e] \in Entry
  BY DEF MemoryInv, Entry
<1>1. ASSUME NEW r \in Entry, NEW s \in {"active", "candidate", "conflict", "superseded"},
        r.st # "none"
      PROVE  [r EXCEPT !.st = s] \in Entry /\ [r EXCEPT !.st = s].consent = r.consent
  BY <1>1 DEF Entry, Memory!Record, Memory!None
<1>2. CASE c \in Memory!Kept
  <2> DEFINE old == [new EXCEPT !.consent = records[c].consent,
                               !.st = IF new.st = "active" THEN "active" ELSE records[c].st]
  <2>1. records' = [records EXCEPT ![c] = old]
    BY <1>2 DEF Memory!Upsert, Memory!Rewritten
  <2>2. records[c] \in Memory!Record
    BY <1>0, <1>2 DEF Memory!Kept, Entry, Memory!None
  <2>3. old \in Entry /\ old.consent = records[c].consent
    BY <2>2 DEF Entry, Memory!Record
  <2> HIDE DEF old
  <2> QED BY <1>0, <2>1, <2>3
<1>3. CASE c \notin Memory!Kept /\ records' = [records EXCEPT ![c] = new]
  BY <1>0, <1>3
<1>4. ASSUME NEW d \in Memory!Related(c), records' = Memory!Against(c, new, d),
        c \notin Memory!Kept
      PROVE  /\ records' \in [Memory!Content -> Entry]
             /\ \A e \in Memory!Content :
                   records'[e].consent => records[e].consent \/ (e = c /\ new.consent)
  <2>1. /\ d \in Memory!Content /\ d # c /\ records[d].st # "none" /\ records[d] \in Entry
            /\ new.st # "none"
        /\ \A e \in Memory!Related(c) : records[e].st # "none" /\ records[e] \in Entry
    BY <1>0 DEF Memory!Related, Memory!Kept, Memory!Record
  <2>2. ASSUME NEW s \in {"active", "superseded"}, NEW t \in {"active", "superseded"},
               records' = [records EXCEPT ![c] = [new EXCEPT !.st = s], ![d].st = t]
        PROVE  /\ records' \in [Memory!Content -> Entry]
               /\ \A e \in Memory!Content :
                     records'[e].consent => records[e].consent \/ (e = c /\ new.consent)
    <3>1. /\ [new EXCEPT !.st = s] \in Entry /\ [new EXCEPT !.st = s].consent = new.consent
          /\ [records[d] EXCEPT !.st = t] \in Entry
          /\ [records[d] EXCEPT !.st = t].consent = records[d].consent
      BY <1>0, <1>1, <2>1
    <3>2. records' = [e \in Memory!Content |-> IF e = d THEN [records[d] EXCEPT !.st = t]
                                               ELSE IF e = c THEN [new EXCEPT !.st = s]
                                                 ELSE records[e]]
      BY <1>0, <2>1, <2>2
    <3> DEFINE rc == [new EXCEPT !.st = s]
               rd == [records[d] EXCEPT !.st = t]
    <3>3. records'[c] = rc /\ records'[d] = rd
          /\ \A e \in Memory!Content : e # c /\ e # d => records'[e] = records[e]
      <4>1. records' = [e \in Memory!Content |-> IF e = d THEN rd
                                                  ELSE IF e = c THEN rc ELSE records[e]]
        BY <3>2
      <4> HIDE DEF rc, rd
      <4> QED BY <2>1, <4>1
    <3>4. \A e \in Memory!Content : records'[e] \in Entry
      BY <1>0, <3>1, <3>3
    <3>5. records' \in [Memory!Content -> Entry]
      BY <3>2, <3>4
    <3> QED BY <2>1, <3>1, <3>3, <3>5
  <2>3. CASE Memory!Beats(new, records[d])
    <3>0. ~Memory!Beats(records[d], new)
      <4>1. /\ new.rank \in Int /\ new.conf \in Int
            /\ records[d].rank \in Int /\ records[d].conf \in Int
        BY <1>0, <2>1, EntryFields
      <4> QED BY <2>3, <4>1 DEF Memory!Beats
    <3>1. records' = [records EXCEPT ![c] = [new EXCEPT !.st = "active"], ![d].st = "superseded"]
      BY <1>4, <2>3, <3>0 DEF Memory!Against
    <3> QED BY <2>2, <3>1
  <2>4. CASE ~Memory!Beats(new, records[d]) /\ Memory!Beats(records[d], new)
    <3>1. records' = [records EXCEPT ![c] = [new EXCEPT !.st = "superseded"], ![d].st = "active"]
      BY <1>4, <2>4 DEF Memory!Against
    <3> QED BY <2>2, <3>1
  <2>5. CASE ~Memory!Beats(new, records[d]) /\ ~Memory!Beats(records[d], new)
    <3>1. records' = [e \in Memory!Content |->
                        IF e = c THEN [new EXCEPT !.st = "conflict"]
                        ELSE IF e \in Memory!Related(c) THEN [records[e] EXCEPT !.st = "conflict"]
                        ELSE records[e]]
      BY <1>4, <2>5 DEF Memory!Against
    <3>2. [new EXCEPT !.st = "conflict"] \in Entry
            /\ [new EXCEPT !.st = "conflict"].consent = new.consent
      BY <1>0, <1>1, <2>1
    <3>3. \A e \in Memory!Related(c) :
            /\ [records[e] EXCEPT !.st = "conflict"] \in Entry
            /\ [records[e] EXCEPT !.st = "conflict"].consent = records[e].consent
      BY <1>1, <2>1
    <3>4. \A e \in Memory!Content : /\ records'[e] \in Entry
                                    /\ records'[e].consent => records[e].consent \/ (e = c
                                        /\ new.consent)
      BY <1>0, <3>1, <3>2, <3>3
    <3> QED BY <3>1, <3>4
  <2> QED BY <2>3, <2>4, <2>5
<1> QED BY <1>2, <1>3, <1>4 DEF Memory!Upsert, Memory!Strongest

\* A file without memories is in the invariant.
LEMMA MemoryInit == Memory!Init => MemoryInv
<1>1. Conf \subseteq 0..20 /\ Memory!None \in Entry /\ ~Memory!None.consent
  BY Instances DEF Instances, Memory!MemoryAssumption, Entry, Memory!None
<1> QED BY <1>1 DEF Memory!Init, MemoryInv

\* A write whose consent was given keeps the invariant.
LEMMA MemoryWritten ==
  ASSUME MemoryInv, NEW c \in Memory!Content, NEW new \in Memory!Record, Memory!Upsert(c, new),
         agreed \subseteq agreed', new.consent => c \in agreed'
  PROVE  MemoryInv'
BY UpsertKeeps DEF MemoryInv

\* Every step of the memories keeps the invariant.
LEMMA MemoryNext == MemoryInv /\ (Memory!Next \/ UNCHANGED Memory!mvars) => MemoryInv'
<1> SUFFICES ASSUME MemoryInv, Memory!Next \/ UNCHANGED Memory!mvars PROVE MemoryInv'
  OBVIOUS
<1>0. Conf \subseteq 0..20 /\ records \in [Memory!Content -> Entry]
  BY DEF MemoryInv
<1>1. ASSUME NEW c \in Memory!Content, Memory!Capture(c) PROVE MemoryInv'
  <2>1. [st |-> "active", rank |-> 1, conf |-> 19, consent |-> TRUE] \in Memory!Record
    BY DEF Memory!Record
  <2> QED BY <1>1, <2>1, MemoryWritten DEF Memory!Capture
<1>2. ASSUME NEW c \in Memory!Content, NEW rank \in {0, 2}, NEW conf \in Conf,
        NEW consent \in BOOLEAN,
             Memory!Create(c, rank, conf, consent)
      PROVE  MemoryInv'
  <2>1. [st |-> "active", rank |-> rank, conf |-> conf, consent |-> consent] \in Memory!Record
    BY <1>0 DEF Memory!Record
  <2> QED BY <1>2, <2>1, MemoryWritten DEF Memory!Create
<1>3. ASSUME NEW c \in Memory!Content, NEW rank \in {0, 1}, Memory!Postmortem(c, rank)
        PROVE MemoryInv'
  <2>1. [st |-> "candidate", rank |-> rank, conf |-> 12, consent |-> FALSE] \in Memory!Record
    BY DEF Memory!Record
  <2> QED BY <1>3, <2>1, MemoryWritten DEF Memory!Postmortem
<1>4. ASSUME NEW c \in Memory!Content, Memory!Approve(c) PROVE MemoryInv'
  <2> DEFINE r == [records[c] EXCEPT !.st = "active", !.consent = TRUE,
                                     !.conf = IF records[c].conf < 14 THEN 14
                                       ELSE records[c].conf]
  <2>1. records' = [records EXCEPT ![c] = r] /\ agreed' = agreed \cup {c}
    BY <1>0, <1>4 DEF Memory!Approve
  <2>2. records[c] \in Memory!Record
    BY <1>0, <1>4 DEF Memory!Approve, Memory!Kept, Entry, Memory!None
  <2>3. r \in Entry
    <3> DEFINE n == IF records[c].conf < 14 THEN 14 ELSE records[c].conf
    <3>1. n \in 0..20
      BY <2>2 DEF Memory!Record
    <3> HIDE DEF n
    <3>2. [records[c] EXCEPT !.st = "active", !.consent = TRUE, !.conf = n] \in Memory!Record
      BY <2>2, <3>1 DEF Memory!Record
    <3> QED BY <3>2 DEF Entry, n
  <2> HIDE DEF r
  <2> QED BY <1>0, <2>1, <2>3 DEF MemoryInv
<1>5. ASSUME NEW c \in Memory!Content, Memory!Delete(c) PROVE MemoryInv'
  <2>1. records' = [records EXCEPT ![c] = Memory!None] /\ agreed' = agreed \ {c}
    BY <1>5 DEF Memory!Delete
  <2>2. Memory!None \in Entry /\ ~Memory!None.consent
    BY DEF Entry, Memory!None
  <2> QED BY <1>0, <2>1, <2>2 DEF MemoryInv
<1>6. ASSUME UNCHANGED <<records, agreed>> PROVE MemoryInv'
  BY <1>6 DEF MemoryInv
<1>7. CASE UNCHANGED Memory!mvars
  BY <1>6, <1>7 DEF Memory!mvars
<1> QED BY <1>1, <1>2, <1>3, <1>4, <1>5, <1>6, <1>7 DEF Memory!Next, Memory!UpdatePolicy

\* The invariant says what the run checks of the memories.
LEMMA MemoryKept == MemoryInv => Memory!InjectedAgreed /\ Memory!OneValue
<1> SUFFICES ASSUME MemoryInv PROVE Memory!InjectedAgreed /\ Memory!OneValue
  OBVIOUS
<1>1. Memory!InjectedAgreed
  BY DEF MemoryInv, Memory!InjectedAgreed, Memory!Injected, Memory!Resolved, Memory!Usable,
     Memory!Kept
<1>2. Memory!OneValue
  <2> SUFFICES ASSUME NEW c \in Memory!Injected, NEW d \in Memory!Injected, c # d,
                      KeyOf[c] # NoKey, KeyOf[c] = KeyOf[d]
               PROVE  FALSE
    BY DEF Memory!OneValue
  <2>1. /\ c \in Memory!Kept /\ d \in Memory!Kept /\ records[c].st = "active"
            /\ records[d].st = "active"
        /\ c \in Memory!Content /\ d \in Memory!Content
    BY DEF Memory!Injected, Memory!Resolved, Memory!Usable, Memory!Kept
  <2>2. d \in Memory!Rivals(c) /\ c \in Memory!Rivals(d)
    BY <2>1 DEF Memory!Rivals
  <2>3. /\ Memory!AtLeast(records[c], records[d]) /\ Memory!Outranks(records[c], records[d])
        /\ Memory!AtLeast(records[d], records[c]) /\ Memory!Outranks(records[d], records[c])
    BY <2>1, <2>2 DEF Memory!Injected, Memory!Resolved
  <2>4. /\ records[c].rank \in Int /\ records[d].rank \in Int
        /\ records[c].conf \in Int /\ records[d].conf \in Int
    BY <2>1, EntryFields DEF MemoryInv
  <2> QED BY <2>3, <2>4 DEF Memory!AtLeast, Memory!Outranks
<1> QED BY <1>1, <1>2

\* A step of the composition is one of the memories' or leaves their variables.
LEMMA MemorySteps == [Next]_vars => Memory!Next \/ UNCHANGED Memory!mvars
<1>1. UNCHANGED MemoryVars => UNCHANGED Memory!mvars
  BY DEF MemoryVars, Memory!mvars
<1>2. CASE Next
  BY <1>1, <1>2 DEF Next, MemoryVars
<1>3. CASE UNCHANGED vars
  BY <1>1, <1>3 DEF vars
<1> QED BY <1>2, <1>3

\* The memories never leave their invariant.
LEMMA MemoryInvHolds == Spec => []MemoryInv
<1>1. Init => MemoryInv
  BY MemoryInit DEF Init
<1>2. MemoryInv /\ [Next]_vars => MemoryInv'
  BY MemorySteps, MemoryNext
<1> QED BY <1>1, <1>2, PTL DEF Spec

\* Only memories that the user agreed to are put into a prompt, and of two that give
\* one key a value at most one is, whatever was upserted, approved and deleted
\* (agent/core/memory_store.py and context_pack.py, _resolve_memory_conflicts).
THEOREM MemoriesSound == Spec => [](Memory!InjectedAgreed /\ Memory!OneValue)
BY MemoryInvHolds, MemoryKept, PTL

-------------------------------------------------------------------------------
(* What a client is told (DialogueProofs). *)

\* A step of the composition is one of the chat stream's or leaves its variables.
LEMMA StreamSteps == [Next]_vars => Stream!Next \/ UNCHANGED Stream!vars
<1>1. UNCHANGED StreamVars => UNCHANGED Stream!vars
  BY DEF StreamVars, Stream!vars
<1>2. CASE Next
  BY <1>1, <1>2 DEF Next, StreamVars
<1>3. CASE UNCHANGED vars
  BY <1>1, <1>3 DEF vars
<1> QED BY <1>2, <1>3

\* A step of the composition is one of the task feed's or leaves its variables.
LEMMA FeedSteps == [Next]_vars => Feed!Next \/ UNCHANGED Feed!vars
<1>1. UNCHANGED FeedVars => UNCHANGED Feed!vars
  BY DEF FeedVars, Feed!vars, Feed!server, Feed!stream, Feed!page
<1>2. CASE Next
  BY <1>1, <1>2 DEF Next, FeedVars
<1>3. CASE UNCHANGED vars
  BY <1>1, <1>3 DEF vars
<1> QED BY <1>2, <1>3

\* The two streams never leave their invariant.
LEMMA ClientInvHolds == Spec => []ClientInv
<1>1. Init => ClientInv
  BY ClientInit DEF Init
<1>2. ClientInv /\ [Next]_vars => ClientInv'
  BY StreamSteps, FeedSteps, ClientNext
<1> QED BY <1>1, <1>2, PTL DEF Spec

\* Whichever component runs, the streams tell their client what there is: `done` after
\* all that a turn emitted, its own answer and its calls once, and the rows of the tasks
\* (web/api/routers/agent.py, chat_stream; web/api/routers/background.py, task_stream).
THEOREM ClientToldHolds == Spec => []ClientTold
<1>1. ClientInv => ClientTold
  BY ClientKept DEF ClientTold
<1> QED BY <1>1, ClientInvHolds, PTL

-------------------------------------------------------------------------------
(* What a prompt holds (DialogueProofs, and the memories above). *)

\* The summary is kept by every component; a conversation is there while its fit runs.
PromptInv == SummaryInv /\ (Chosen("context") => ContextInv)

\* A step of the composition is one of the summary's or leaves its variables.
LEMMA SummarySteps == [Next]_vars => Summary!Next \/ UNCHANGED Summary!svars
<1>1. UNCHANGED SummaryVars => UNCHANGED Summary!svars
  BY DEF SummaryVars, Summary!svars
<1>2. CASE Next
  BY <1>1, <1>2 DEF Next, SummaryVars
<1>3. CASE UNCHANGED vars
  BY <1>1, <1>3 DEF vars
<1> QED BY <1>2, <1>3

\* A step of the composition is one of the fit's or leaves its variables, and the
\* component that runs stays the same.
LEMMA ContextSteps == [Next]_vars => (Context!Next \/ UNCHANGED Context!fvars) /\ which' = which
<1>1. UNCHANGED ContextVars => UNCHANGED Context!fvars
  BY DEF ContextVars, Context!fvars
<1>2. CASE Next
  BY <1>1, <1>2 DEF Next, ContextVars
<1>3. CASE UNCHANGED vars
  BY <1>1, <1>3 DEF vars
<1> QED BY <1>2, <1>3

\* The summary and the fit never leave their invariant.
LEMMA PromptInvHolds == Spec => []PromptInv
<1>1. Init => PromptInv
  BY SummaryInit, ContextInit DEF Init, PromptInv
<1>2. PromptInv /\ [Next]_vars => PromptInv'
  <2> SUFFICES ASSUME PromptInv, [Next]_vars PROVE PromptInv'
    OBVIOUS
  <2>1. SummaryInv'
    BY SummarySteps, SummaryStep DEF PromptInv
  <2>2. Chosen("context")' => ContextInv'
    BY ContextSteps, ContextStep DEF PromptInv, Chosen
  <2> QED BY <2>1, <2>2 DEF PromptInv
<1> QED BY <1>1, <1>2, PTL DEF Spec

\* What a prompt holds is sound whichever component runs: only agreed memories and one
\* value of a key, a summary that lags by less than a refresh, and messages that fit the
\* window with no call parted from its results (agent/core/memory_store.py,
\* context_pack.py, agent/memory.py, core/token_budget.py).
THEOREM PromptSoundHolds == Spec => []PromptSound
<1>1. MemoryInv /\ PromptInv => PromptSound
  BY MemoryKept, SummaryKept DEF PromptInv, ContextInv, PromptSound
<1> QED BY <1>1, MemoryInvHolds, PromptInvHolds, PTL

===============================================================================
