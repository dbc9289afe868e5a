------------------------------ MODULE EvalRun -------------------------------
(***************************************************************************)
(* One batch run of the evaluation: its row in eval_runs (runner.py), the  *)
(* heartbeat that says its process lives, the reconciliation of stale rows *)
(* by whoever lists the runs, and the live feed by which a client of the   *)
(* server follows it (live.py, routers/eval.py).  The run belongs to the   *)
(* server or to a command line process that shares only the database.      *)
(***************************************************************************)
EXTENDS Integers, Sequences

CONSTANTS Queries,   \* bound: queries of the run
          QueueMax   \* _QUEUE_MAX and _MAX_BUFFER

RunAssumption == Queries \in Nat \ {0} /\ QueueMax \in Nat \ {0}

Home     == {"server", "cli"}
Terminal == {"done", "failed", "interrupted"}
Ends     == {"run_finished", "run_failed"}

VARIABLES
    home,     \* the process that runs it
    pc,       \* the runner
    done,     \* queries finished
    outcome,  \* why the runner is on its way out: "", "failed" or "interrupted"
    erow,     \* the row: status, query_count, whether it has metrics; of its metadata
              \* whether it is the report's, with the archive, and the heartbeat
    hb,       \* the heartbeat task: "off", "sleep" or "read"
    rec,      \* a reconciliation: "idle", "picked", "seen" or "publish"
    kept,     \* the row that a finalizer or the heartbeat has read
    feed,     \* the server's RunFeed: events kept, publishing, done
    sub,      \* the client's generator: "off", "loop", "wait" or "over"
    inbox,    \* its queue
    told      \* the last event it was told

run  == <<home, pc, done, outcome>>
live == <<feed, sub, inbox, told>>
rvars == <<run, erow, hb, rec, kept, live>>

NoRow == [st |-> "none", n |-> 0, rich |-> FALSE, arch |-> FALSE, fresh |-> FALSE]
Row(s, n, rich) ==
    [st |-> s, n |-> n, rich |-> rich, arch |-> s = "done", fresh |-> TRUE]

Init ==
    /\ home \in Home /\ pc = "start" /\ done = 0 /\ outcome = ""
    /\ erow = NoRow /\ hb = "off" /\ rec = "idle" /\ kept = [f \in {"runner", "rec", "beat"} |-> NoRow]
    /\ feed = [ev |-> <<>>, publishing |-> FALSE, done |-> FALSE]
    /\ sub = "off" /\ inbox = <<>> /\ told = ""

-----------------------------------------------------------------------------
(* live.publish and the queues: both drop their oldest. *)

\* Mutant: nothing is dropped.
LastAll(q) == q
Last(q) == IF Len(q) > QueueMax THEN Tail(q) ELSE q
Publish(e) ==
    /\ feed' = [ev |-> Last(Append(feed.ev, e)), publishing |-> TRUE,
                done |-> feed.done \/ e \in Ends]
    /\ inbox' = IF sub \in {"loop", "wait"} THEN Last(Append(inbox, e)) ELSE inbox
\* The bus reaches the process that publishes only.
RunnerPublishes(e) == IF home = "server" THEN Publish(e) ELSE UNCHANGED <<feed, inbox>>
IsRunning == feed.publishing /\ ~feed.done

Goto(l) == pc' = l
\* What was read is used once.
Forget(f) == kept' = [kept EXCEPT ![f] = NoRow]
Alive   == pc \notin {"start", "ended", "dead"}

-----------------------------------------------------------------------------
(* The runner. *)

\* ensure_running_row, before the caller is given the run's id.
EnsureRow ==
    /\ pc = "start" /\ Goto("queued") /\ erow' = Row("running", 0, FALSE)
    /\ UNCHANGED <<home, done, outcome, hb, rec, kept, live>>

RunStarted ==
    /\ pc = "queued" /\ Goto("begin") /\ RunnerPublishes("run_started")
    /\ UNCHANGED <<home, done, outcome, erow, hb, rec, kept, sub, told>>

\* _upsert_progress_row replaces the row; its errors are swallowed.
Progress(rich) == erow' = Row("running", done, rich)
Begun ==
    /\ pc = "begin" /\ Goto("query") /\ Progress(FALSE) /\ hb' = "sleep"
    /\ UNCHANGED <<home, done, outcome, rec, kept, live>>

\* agent_run ends or times out; _publish_progress publishes, then saves.
QueryDone ==
    /\ pc = "query" /\ done < Queries /\ done' = done + 1
    /\ Goto("save") /\ RunnerPublishes("aggregate")
    /\ UNCHANGED <<home, outcome, erow, hb, rec, kept, sub, told>>
SaveProgress ==
    /\ pc = "save" /\ Goto("query") /\ Progress(TRUE)
    /\ UNCHANGED <<home, done, outcome, hb, rec, kept, live>>

\* Judge and report, insert_eval_run, run_finished, stop_heartbeat.
Report ==
    /\ pc = "query" /\ done = Queries /\ Goto("reported")
    /\ erow' = Row("done", done, TRUE)
    /\ UNCHANGED <<home, done, outcome, hb, rec, kept, live>>
RunFinished ==
    /\ pc = "reported" /\ Goto("ended") /\ RunnerPublishes("run_finished") /\ hb' = "off"
    /\ UNCHANGED <<home, done, outcome, erow, rec, kept, sub, told>>

\* An exception, or a cancellation; once the report is in the row nothing but a
\* cancellation can come.
Breaks(why) ==
    /\ pc \in {"begin", "query", "save"} \cup (IF why = "interrupted" THEN {"reported"} ELSE {})
    /\ Goto("final") /\ outcome' = why
    /\ UNCHANGED <<home, done, erow, hb, rec, kept, live>>

\* finalize_run_row: reads the row, leaves it when it has ended, else replaces it.
Settled(r) == r.st \in Terminal
\* Mutant: whatever the row says, it is replaced.
FinalReadBlind ==
    /\ pc = "final" /\ kept' = [kept EXCEPT !["runner"] = erow] /\ Goto("finalwrite")
    /\ UNCHANGED <<home, done, outcome, erow, hb, rec, live>>
FinalRead ==
    /\ pc = "final"
    /\ IF Settled(erow) THEN Goto("failing") /\ UNCHANGED kept
       ELSE Goto("finalwrite") /\ kept' = [kept EXCEPT !["runner"] = erow]
    /\ UNCHANGED <<home, done, outcome, erow, hb, rec, live>>
FinalWrite ==
    /\ pc = "finalwrite" /\ Goto("failing")
    /\ erow' = [kept["runner"] EXCEPT !.st = outcome] /\ Forget("runner")
    /\ UNCHANGED <<home, done, outcome, hb, rec, live>>

\* run_failed is published, the heartbeat stopped; an exception reaches the
\* router's _background, which publishes again and overwrites the row.
RunFailed ==
    /\ pc = "failing" /\ RunnerPublishes("run_failed") /\ hb' = "off"
    /\ Goto(IF home = "server" /\ outcome = "failed" THEN "mark" ELSE "ended")
    /\ UNCHANGED <<home, done, outcome, erow, rec, kept, sub, told>>
MarkRunFailed ==
    /\ pc = "mark" /\ Goto("ended") /\ Publish("run_failed")
    /\ erow' = Row("failed", 0, FALSE)
    /\ UNCHANGED <<home, done, outcome, hb, rec, kept, sub, told>>

\* The process dies; with the server go its feed, its clients and a reconciliation.
Crash ==
    /\ Alive /\ Goto("dead") /\ hb' = "off"
    /\ IF home = "server"
       THEN /\ feed' = [ev |-> <<>>, publishing |-> FALSE, done |-> FALSE]
            /\ sub' = "off" /\ inbox' = <<>> /\ told' = "" /\ rec' = "idle"
       ELSE UNCHANGED <<live, rec>>
    /\ kept' = [f \in DOMAIN kept |-> IF home = "server" \/ f # "rec" THEN NoRow ELSE kept[f]]
    /\ UNCHANGED <<home, done, outcome, erow>>

-----------------------------------------------------------------------------
(* The heartbeat: a read of a row that is running, then a write of all the    *)
(* metadata that was read, whatever the row is by then.  An error ends it.    *)

Metadata(r) == [NoRow EXCEPT !.st = r.st, !.arch = r.arch]
Beat ==
    /\ hb = "sleep"
    /\ \/ erow.st = "running" /\ hb' = "read" /\ kept' = [kept EXCEPT !["beat"] = Metadata(erow)]
       \/ erow.st # "running" /\ UNCHANGED <<hb, kept>>
       \/ hb' = "off" /\ UNCHANGED kept
    /\ UNCHANGED <<run, erow, rec, live>>
BeatWrite ==
    /\ hb = "read"
    /\ \/ hb' = "sleep" /\ erow' = [erow EXCEPT !.arch = kept["beat"].arch, !.fresh = TRUE]
       \/ hb' = "off" /\ UNCHANGED erow
    /\ Forget("beat")
    /\ UNCHANGED <<run, rec, live>>

\* stale_run_after_s pass without a heartbeat: the process is gone, or busy, or its
\* heartbeat has met an error.  A run that the server is asked for starts in less.
Lapse ==
    /\ erow.fresh /\ erow.st = "running" /\ ~(home = "server" /\ pc = "queued")
    /\ erow' = [erow EXCEPT !.fresh = FALSE]
    /\ UNCHANGED <<run, hb, rec, kept, live>>

-----------------------------------------------------------------------------
(* reconcile_stale_runs, in the server: GET /runs and GET /runs/{id}. *)

Pick ==
    /\ rec = "idle" /\ erow.st = "running" /\ ~erow.fresh /\ ~IsRunning
    /\ rec' = "picked" /\ UNCHANGED <<run, erow, hb, kept, live>>
RecRead ==
    /\ rec = "picked"
    /\ IF Settled(erow) THEN rec' = "publish" /\ UNCHANGED kept
       ELSE rec' = "seen" /\ kept' = [kept EXCEPT !["rec"] = erow]
    /\ UNCHANGED <<run, erow, hb, live>>
RecWrite ==
    /\ rec = "seen" /\ rec' = "publish"
    /\ erow' = [kept["rec"] EXCEPT !.st = "interrupted"] /\ Forget("rec")
    /\ UNCHANGED <<run, hb, live>>
RecPublish ==
    /\ rec = "publish" /\ rec' = "idle" /\ Publish("run_failed")
    /\ UNCHANGED <<run, erow, hb, kept, sub, told>>

-----------------------------------------------------------------------------
(* stream_run_events. *)

\* The route wants a row; subscribe replays what the feed kept.
Subscribe ==
    /\ sub \in {"off", "over"} /\ erow # NoRow /\ sub' = "loop" /\ inbox' = feed.ev /\ told' = ""
    /\ UNCHANGED <<run, erow, hb, rec, kept, feed>>

\* With no publisher in this process the row is polled (row_event).
RowEvent(r) == IF r.st = "running" THEN "aggregate"
               ELSE IF r.st = "done" THEN "run_finished" ELSE "run_failed"
\* Mutant: an end that only the row tells is not recognised.
LookOn ==
    /\ sub = "loop" /\ sub' = "wait"
    /\ told' = IF feed.publishing THEN told ELSE RowEvent(erow)
    /\ UNCHANGED <<run, erow, hb, rec, kept, feed, inbox>>
Look ==
    /\ sub = "loop"
    /\ IF feed.publishing THEN sub' = "wait" /\ UNCHANGED told
       ELSE told' = RowEvent(erow) /\ sub' = IF RowEvent(erow) \in Ends THEN "over" ELSE "wait"
    /\ UNCHANGED <<run, erow, hb, rec, kept, feed, inbox>>
Told ==
    /\ sub = "wait" /\ inbox # <<>> /\ told' = Head(inbox) /\ inbox' = Tail(inbox)
    /\ sub' = IF Head(inbox) \in Ends THEN "over" ELSE "loop"
    /\ UNCHANGED <<run, erow, hb, rec, kept, feed>>
\* poll_s or keepalive_s pass.
Idle ==
    /\ sub = "wait" /\ inbox = <<>> /\ sub' = "loop"
    /\ UNCHANGED <<run, erow, hb, rec, kept, feed, inbox, told>>

-----------------------------------------------------------------------------
Runner == \/ EnsureRow \/ RunStarted \/ Begun \/ QueryDone \/ SaveProgress \/ Report
          \/ RunFinished \/ FinalRead \/ FinalWrite \/ RunFailed \/ MarkRunFailed
Reader == Pick \/ RecRead \/ RecWrite \/ RecPublish
Client == Look \/ Told \/ Idle
Next ==
    \/ Runner \/ Breaks("failed") \/ Breaks("interrupted") \/ Crash
    \/ Beat \/ BeatWrite \/ Lapse \/ Reader \/ Subscribe \/ Client
Spec == Init /\ [][Next]_rvars

\* Queries have a timeout, time passes, somebody lists the runs, and a client
\* that stays is served.
Fairness == /\ WF_rvars(Runner) /\ WF_rvars(Lapse) /\ WF_rvars(Reader)
            /\ WF_rvars(Look) /\ WF_rvars(Told) /\ WF_rvars(Idle)
FairSpec == Spec /\ Fairness

TypeOK ==
    /\ home \in Home /\ done \in 0..Queries /\ outcome \in {"", "failed", "interrupted"}
    /\ pc \in {"start", "queued", "begin", "query", "save", "reported", "final", "finalwrite",
               "failing", "mark", "ended", "dead"}
    /\ erow \in [st : {"none", "running"} \cup Terminal, n : 0..Queries, rich : BOOLEAN,
                 arch : BOOLEAN, fresh : BOOLEAN]
    /\ hb \in {"off", "sleep", "read"} /\ rec \in {"idle", "picked", "seen", "publish"}
    /\ feed.publishing \in BOOLEAN /\ feed.done \in BOOLEAN /\ Len(feed.ev) <= QueueMax
    /\ sub \in {"off", "loop", "wait", "over"} /\ Len(inbox) <= QueueMax

\* The row of a run that wrote its report says done, with all its queries and its
\* metrics, for good: the finalizer of a cancellation that comes after the report
\* leaves it, and so does a reconciliation that reads it.  Two writers hold what they
\* read before.  The heartbeat puts back the metadata, and nothing else.  And the
\* server's reconciliation of a run of another process that had no heartbeat for
\* stale_run_after_s interrupts it, if it had read the row just before the report;
\* a run of the server's own is never taken back (finalize_run_row,
\* reconcile_stale_runs, _touch_heartbeat).
Overtaken  == home = "cli" /\ rec = "seen" /\ kept["rec"].st = "running"
ReportKept ==
    erow.st = "done" =>
        \/ /\ erow'.st = "done" /\ erow'.n = Queries /\ erow'.rich
           /\ erow'.arch = erow.arch \/ (hb = "read" /\ kept["beat"].st = "running")
        \/ Overtaken /\ erow' = [kept["rec"] EXCEPT !.st = "interrupted"]
ReportStays == [][ReportKept]_rvars

\* run_eval: "whether it succeeds, fails or is cancelled, the row settles"; and so
\* it does after a crash, since whoever lists the runs reconciles it.
RowSettles == (pc \in {"ended", "dead"}) ~> Settled(erow)

\* A client that stays on is told how the run ended, live or from the row.
StreamSettles == (sub \in {"loop", "wait"} /\ Settled(erow)) ~> (sub \in {"off", "over"})

\* finalize_run_row: the metrics computed before a failure are kept.
PartialMetricsKept == [][erow.rich => erow'.rich]_rvars
=============================================================================
