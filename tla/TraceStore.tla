----------------------------- MODULE TraceStore -----------------------------
(***************************************************************************)
(* evaluation/trace_store.py: the events of a trace are numbered and       *)
(* buffered in memory by record(), and written to SQLite in batches by a   *)
(* background loop and by an evaluation run that wants to read them back.  *)
(* All users share one connection, which carries out what they ask in the  *)
(* order in which they ask, and one transaction, which whoever commits     *)
(* first commits for all.                                                  *)
(***************************************************************************)
EXTENDS Integers, Sequences, FiniteSets, SequencesExt

CONSTANTS BufferMax,   \* _BUFFER_MAX
          MaxEvents,   \* bound: events of the trace
          MaxFailures, \* bound: commits SQLite refuses (a lock of another process)
          MaxRestarts  \* bound: restarts of the process

TraceAssumption ==
    BufferMax \in Nat \ {0} /\ {MaxEvents, MaxFailures, MaxRestarts} \subseteq Nat

\* Who writes through the connection: _flush_loop, the flush of a run before it
\* reads, and upsert_run_row (its own row is not followed, its commit is).
Flusher == {"loop", "runner"}
Writer  == Flusher \cup {"row"}

VARIABLES
    seqOf,    \* _seq_map of the trace
    buffer,   \* _buffer: rows [id, seq], oldest first
    held,     \* rows each flusher took and has not brought home
    ops,      \* what the connection is asked to do, in order
    at,       \* where each writer is
    tx,       \* rows inserted and not committed
    db,       \* rows committed
    nextId,   \* number of events recorded so far, which also names them
    dropped,  \* events the overflow of the buffer dropped
    forgone,  \* events lost with the process or with close()
    asked,    \* events recorded before the runner's flush
    missed,   \* whether the runner's read missed one of them
    closed,   \* _closed
    failures, restarts

mem  == <<seqOf, buffer, dropped, nextId>>
disk == <<tx, db>>
vars == <<mem, disk, held, ops, at, forgone, asked, missed, closed, failures, restarts>>

Ids(rows) == {rows[i].id : i \in DOMAIN rows}
Seqs(R)   == {r.seq : r \in R}
Known     == 1..nextId
Stored    == {r.id : r \in tx \cup db}

Init ==
    /\ seqOf = 0 /\ buffer = <<>> /\ dropped = {} /\ nextId = 0
    /\ held = [f \in Flusher |-> <<>>] /\ ops = <<>> /\ at = [w \in Writer |-> "idle"]
    /\ tx = {} /\ db = {}
    /\ forgone = {} /\ asked = {} /\ missed = FALSE /\ closed = FALSE
    /\ failures = 0 /\ restarts = 0

-----------------------------------------------------------------------------
\* A full buffer is cut before the row is appended: to BufferMax, so the buffer
\* grows to one more.
Cut(rows) == IF Len(rows) > BufferMax THEN SubSeq(rows, Len(rows) - BufferMax + 1, Len(rows))
             ELSE rows

\* record(): runs to its end on the event loop; nothing once the store is closed.
Record ==
    /\ nextId < MaxEvents /\ ~closed
    /\ nextId' = nextId + 1 /\ seqOf' = seqOf + 1
    /\ buffer' = Append(Cut(buffer), [id |-> nextId + 1, seq |-> seqOf + 1])
    /\ dropped' = dropped \cup (Ids(buffer) \ Ids(Cut(buffer)))
    /\ UNCHANGED <<disk, held, ops, at, forgone, asked, missed, closed, failures, restarts>>

\* _flush takes the buffer and asks for an insert of all of it; with nothing
\* buffered it returns at once.
Take(f) == IF buffer = <<>> THEN UNCHANGED <<buffer, held, ops>>
           ELSE /\ held' = [held EXCEPT ![f] = buffer] /\ buffer' = <<>>
                /\ ops' = Append(ops, <<f, "insert">>)

FlushLoop ==
    /\ at["loop"] = "idle" /\ buffer # <<>> /\ ~closed
    /\ Take("loop") /\ at' = [at EXCEPT !["loop"] = "insert"]
    /\ UNCHANGED <<seqOf, dropped, nextId, disk, forgone, asked, missed, closed, failures, restarts>>

\* The runner flushes, then reads the trace back (get_trace).
FlushThenRead ==
    /\ at["runner"] = "idle" /\ ~closed
    /\ asked' = Known \ forgone
    /\ IF buffer = <<>>
       THEN ops' = Append(ops, <<"runner", "read">>) /\ UNCHANGED <<buffer, held>>
            /\ at' = [at EXCEPT !["runner"] = "read"]
       ELSE Take("runner") /\ at' = [at EXCEPT !["runner"] = "insert"]
    /\ UNCHANGED <<seqOf, dropped, nextId, disk, forgone, missed, closed, failures, restarts>>

\* upsert_run_row: a statement of its own, then commit.
UpsertRow ==
    /\ at["row"] = "idle" /\ ~closed /\ tx # {}
    /\ at' = [at EXCEPT !["row"] = "commit"] /\ ops' = Append(ops, <<"row", "commit">>)
    /\ UNCHANGED <<mem, disk, held, forgone, asked, missed, closed, failures, restarts>>

-----------------------------------------------------------------------------
(* The connection's thread. *)

Asks(w, k) == ops # <<>> /\ Head(ops) = <<w, k>> /\ ops' = Tail(ops)
Goes(w, a) == at' = [at EXCEPT ![w] = a]

\* executemany: UNIQUE(trace_id, seq) stops it, and what went in before stays in
\* the open transaction.
Fits(rows, i) == rows[i].seq \notin Seqs(tx \cup db)
                 /\ \A j \in 1..(i - 1) : rows[j].seq # rows[i].seq
Insert(f) ==
    /\ Asks(f, "insert")
    /\ LET rows == held[f]
           bad  == {i \in DOMAIN rows : ~Fits(rows, i)}
           upTo == IF bad = {} THEN Len(rows) ELSE (CHOOSE i \in bad : \A j \in bad : i <= j) - 1
       IN /\ tx' = tx \cup {rows[i] : i \in 1..upTo}
          /\ Goes(f, IF bad = {} THEN "inserted" ELSE "failed")
    /\ UNCHANGED <<mem, db, held, forgone, asked, missed, closed, failures, restarts>>

\* A commit that fails leaves the transaction as it is.
Commit(w) ==
    /\ Asks(w, "commit")
    /\ \/ db' = db \cup tx /\ tx' = {} /\ Goes(w, "done") /\ UNCHANGED failures
       \/ /\ failures < MaxFailures /\ failures' = failures + 1
          /\ Goes(w, "failed") /\ UNCHANGED disk
    /\ UNCHANGED <<mem, held, forgone, asked, missed, closed, restarts>>

\* A connection sees its own open transaction.
Read ==
    /\ Asks("runner", "read") /\ Goes("runner", "idle")
    /\ missed' = ~(asked \ (dropped \cup forgone) \subseteq Stored)
    /\ UNCHANGED <<mem, disk, held, forgone, asked, closed, failures, restarts>>

-----------------------------------------------------------------------------
(* The writers go on with the answer. *)

AskCommit(f) ==
    /\ at[f] = "inserted" /\ Goes(f, "commit") /\ ops' = Append(ops, <<f, "commit">>)
    /\ UNCHANGED <<mem, disk, held, forgone, asked, missed, closed, failures, restarts>>

\* The runner reads after its flush, however that ended.
After(f) == IF f = "runner" THEN Goes(f, "read") /\ ops' = Append(ops, <<f, "read">>)
            ELSE Goes(f, "idle") /\ UNCHANGED ops

Flushed(f) ==
    /\ at[f] = "done" /\ After(f) /\ held' = [held EXCEPT ![f] = <<>>]
    /\ UNCHANGED <<mem, disk, forgone, asked, missed, closed, failures, restarts>>

\* Mutant: the rows of a failed flush are not put back.
RestoredNot(f) == buffer
Restored(f) == Cut(held[f] \o buffer)

\* A failed flush puts its rows back in front of the buffer.
PutBack(f) ==
    /\ at[f] = "failed" /\ After(f)
    /\ held' = [held EXCEPT ![f] = <<>>] /\ buffer' = Restored(f)
    /\ dropped' = dropped \cup (Ids(held[f] \o buffer) \ Ids(Cut(held[f] \o buffer)))
    /\ UNCHANGED <<seqOf, nextId, disk, forgone, asked, missed, closed, failures, restarts>>

RowSaved ==
    /\ at["row"] \in {"done", "failed"} /\ Goes("row", "idle")
    /\ UNCHANGED <<mem, disk, held, ops, forgone, asked, missed, closed, failures, restarts>>

\* close(): the flush task is cancelled, wherever it is, without putting its
\* rows back; the last flush returns at once, for the store is closed.
Unwritten == Ids(buffer) \cup UNION {Ids(held[f]) : f \in Flusher}
Close ==
    /\ ~closed /\ closed' = TRUE
    /\ \A w \in Writer \ {"loop"} : at[w] = "idle"
    /\ forgone' = forgone \cup Unwritten
    /\ held' = [held EXCEPT !["loop"] = <<>>] /\ buffer' = <<>> /\ ops' = <<>>
    /\ Goes("loop", "idle") /\ tx' = {}
    /\ UNCHANGED <<seqOf, dropped, nextId, db, asked, missed, failures, restarts>>

\* The process dies; a trace that goes on under the same id counts from 1 again.
Restart ==
    /\ restarts < MaxRestarts /\ restarts' = restarts + 1
    /\ forgone' = forgone \cup Unwritten
    /\ seqOf' = 0 /\ buffer' = <<>> /\ held' = [f \in Flusher |-> <<>>] /\ ops' = <<>>
    /\ at' = [w \in Writer |-> "idle"] /\ tx' = {} /\ closed' = FALSE
    /\ asked' = {} /\ missed' = FALSE
    /\ UNCHANGED <<db, nextId, dropped, failures>>

Next ==
    \/ Record \/ FlushLoop \/ FlushThenRead \/ UpsertRow \/ Read \/ RowSaved \/ Close \/ Restart
    \/ \E f \in Flusher : Insert(f) \/ AskCommit(f) \/ Flushed(f) \/ PutBack(f)
    \/ \E w \in Writer : Commit(w)

Spec == Init /\ [][Next]_vars

TypeOK ==
    /\ seqOf \in 0..MaxEvents /\ nextId \in 0..MaxEvents
    /\ buffer \in Seq([id : Known, seq : Known])
    /\ held \in [Flusher -> Seq([id : Known, seq : Known])]
    /\ ops \in Seq(Writer \X {"insert", "commit", "read"})
    /\ at \in [Writer -> {"idle", "insert", "inserted", "commit", "done", "failed", "read"}]
    /\ tx \subseteq [id : Known, seq : Known] /\ db \subseteq [id : Known, seq : Known]
    /\ dropped \subseteq Known /\ forgone \subseteq Known /\ asked \subseteq Known
    /\ missed \in BOOLEAN /\ closed \in BOOLEAN
    /\ failures \in 0..MaxFailures /\ restarts \in 0..MaxRestarts

\* No event is lost silently: until the process ends or the store is closed, each
\* recorded event is stored, buffered, held by a flush, or was dropped by the
\* documented limit (record, _flush).
EventsAccounted ==
    Known \ (dropped \cup forgone) \subseteq Unwritten \cup {r.id : r \in db}

\* What an evaluation run reads back after its flush contains every event
\* recorded before it, although another flush may hold them at that moment
\* (flush, get_trace); unless SQLite refused a commit, or numbers clash after a
\* restart.
FlushThenReadSees == failures = 0 /\ restarts = 0 => ~missed

\* Observation, not checked by a run: a failed flush puts the rows back into the
\* buffer but leaves them in the transaction, so that what is buffered can not
\* always be inserted.
RetryCanSucceed == \A i \in DOMAIN buffer : buffer[i].seq \notin Seqs(tx \cup db)

=============================================================================
