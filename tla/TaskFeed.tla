------------------------------ MODULE TaskFeed ------------------------------
(***************************************************************************)
(* The task center: rows of background tasks (web/api/routers/__init__.py, *)
(* Redis or, once Redis has failed, this process's memory), the event bus  *)
(* that tells every change to GET /api/agent/tasks/stream, and the client  *)
(* that follows the stream, polls beside it, announces a finished task and *)
(* indexes a parsed PDF (App.tsx, state.ts).                               *)
(***************************************************************************)
EXTENDS Integers, Sequences, FiniteSets, SequencesExt

CONSTANTS Job,        \* the tasks
          Notifies,   \* those whose end is announced (notify)
          Pdf,        \* those that parse an uploaded PDF
          QueueMax,   \* maxsize of a client's queue (200)
          MaxBreaks,  \* bound: connections dropped and pages loaded again
          MayFail     \* whether Redis may fail

\* _task_list(30) gives the newest: no more tasks than that, and it gives all.
FeedAssumption ==
    /\ IsFiniteSet(Job) /\ Cardinality(Job) <= 30
    /\ Notifies \subseteq Job /\ Pdf \subseteq Job
    /\ QueueMax \in Nat \ {0} /\ MaxBreaks \in Nat
    /\ MayFail \in BOOLEAN

\* What a row says: nothing, on its way, further on its way, done or failed.
None == 0
Over == 3
Stage == None..Over

VARIABLES
    row,      \* the row of each task
    place,    \* where it is: "none", "redis" or "memory"
    redis,    \* the Redis server: "up", "down" or "back"
    trusts,   \* _redis_ok: FALSE for good after the first failure
    unsaid,   \* tasks written and not yet published
    conn,     \* the client's generator: "off", "subscribed", "telling" or "live"
    tell,     \* the snapshot it still has to send
    queue,    \* its queue q
    spilt,    \* some event of this connection fell out of a full queue
    poll,     \* the answer to a GET /tasks on its way, <<>> or <<rows>>
    heard,    \* the last status the stream said of each task
    view,     \* state.bgTasks
    sig,      \* bgLastJson
    known,    \* bgKnown
    notified, \* bgNotified
    baseline, \* lastTaskStatus: the tasks marked 'baseline'
    indexed,  \* autoIndexed
    history,  \* tasks already over in the list the page was loaded with
    dirty,    \* bgTasks changed since the effect of App.tsx ran
    breaks

server == <<row, place, redis, trusts, unsaid>>
stream == <<conn, tell, queue, spilt, heard>>
page   == <<view, sig, known, notified, baseline, indexed, history, dirty>>
vars   == <<server, stream, page, poll, breaks>>

Event(t, s) == [job |-> t, st |-> s]
Nothing     == [t \in Job |-> None]

Init ==
    /\ row = Nothing /\ place = [t \in Job |-> "none"]
    /\ redis = "up" /\ trusts = TRUE /\ unsaid = {}
    /\ conn = "off" /\ tell = <<>> /\ queue = <<>> /\ spilt = FALSE /\ heard = Nothing
    /\ poll = <<>>
    /\ view = Nothing /\ sig = Nothing /\ known = Nothing /\ notified = {}
    /\ baseline = {} /\ indexed = {} /\ history = {} /\ dirty = FALSE
    /\ breaks = 0

-----------------------------------------------------------------------------
(* The rows.  _get_redis pings first, and never tries again after a failure. *)

UsesRedis == trusts /\ redis # "down"
\* _task_get and _task_list: a row in the store that is not in use is not there.
Visible(t) == place[t] = (IF UsesRedis THEN "redis" ELSE "memory")
Rows       == [t \in Job |-> IF Visible(t) THEN row[t] ELSE None]
Asked      == trusts' = UsesRedis     \* every access of the store notices a failure

RedisFails == MayFail /\ redis = "up" /\ redis' = "down"
              /\ UNCHANGED <<row, place, trusts, unsaid, stream, page, poll, breaks>>

RedisBack  == redis = "down" /\ redis' = "back"
              /\ UNCHANGED <<row, place, trusts, unsaid, stream, page, poll, breaks>>

Create(t) ==
    /\ row[t] = None
    /\ row'   = [row EXCEPT ![t] = 1]
    /\ place' = [place EXCEPT ![t] = IF UsesRedis THEN "redis" ELSE "memory"]
    /\ unsaid' = unsaid \cup {t} /\ Asked
    /\ UNCHANGED <<redis, stream, page, poll, breaks>>

\* _task_update: after a failure of Redis the row is in neither store and the
\* update is dropped; the task itself goes on.
Update(t) ==
    /\ row[t] \in 1..2 /\ t \notin unsaid
    /\ \E s \in (row[t] + 1)..Over : row' = [row EXCEPT ![t] = s]
    /\ place' = [place EXCEPT ![t] = IF Visible(t) THEN @ ELSE "none"]
    /\ unsaid' = unsaid \cup {t} /\ Asked
    /\ UNCHANGED <<redis, stream, page, poll, breaks>>

\* _put_task_event: a full queue drops its oldest event.
Put(q, e) == IF Len(q) < QueueMax THEN Append(q, e) ELSE Append(Tail(q), e)

\* publish_task_update reads the row again; a task has one writing thread.
Listening == conn # "off"
Publish(t) ==
    /\ t \in unsaid /\ unsaid' = unsaid \ {t}
    /\ IF Listening /\ Visible(t)
       THEN /\ queue' = Put(queue, Event(t, row[t]))
            /\ spilt' = (spilt \/ Len(queue) = QueueMax)
       ELSE UNCHANGED <<queue, spilt>>
    /\ IF Listening THEN Asked ELSE UNCHANGED trusts
    /\ UNCHANGED <<row, place, redis, conn, tell, heard, page, poll, breaks>>

-----------------------------------------------------------------------------
(* The stream of one page.  task_stream subscribes, then lists the rows. *)

Connect ==
    /\ conn = "off" /\ conn' = "subscribed"
    /\ queue' = <<>> /\ tell' = <<>> /\ spilt' = FALSE /\ heard' = Nothing
    /\ UNCHANGED <<server, page, poll, breaks>>

\* _task_list(30): the rows of all tasks, since there are not more.
ListFirst ==
    /\ conn = "subscribed" /\ conn' = "telling"
    /\ tell' = SetToSeq({Event(t, Rows[t]) : t \in {u \in Job : Rows[u] # None}})
    /\ Asked
    /\ UNCHANGED <<row, place, redis, unsaid, queue, spilt, heard, page, poll, breaks>>

\* mergeTask and checkNotify.  A task is announced when its status
\* is seen to change to an end, or when it is first seen ended and is fresh.
Finished(t, s, fresh) ==
    /\ t \in Notifies /\ s = Over /\ t \notin notified
    /\ IF known[t] = None THEN fresh ELSE known[t] # s

HandleTaskEvent(e) ==
    /\ view' = [view EXCEPT ![e.job] = e.st] /\ dirty' = TRUE
    /\ heard' = [heard EXCEPT ![e.job] = e.st]
    /\ known' = [known EXCEPT ![e.job] = IF e.job \in Notifies THEN e.st ELSE @]
    /\ \E fresh \in BOOLEAN :
         notified' = notified \cup {t \in {e.job} : Finished(t, e.st, fresh)}
    /\ UNCHANGED <<sig, baseline, indexed, history>>

Tell ==
    /\ conn = "telling"
    /\ IF tell = <<>> THEN conn' = "live" /\ UNCHANGED <<tell, heard, page>>
       ELSE HandleTaskEvent(Head(tell)) /\ tell' = Tail(tell) /\ UNCHANGED conn
    /\ UNCHANGED <<server, queue, spilt, poll, breaks>>

Deliver ==
    /\ conn = "live" /\ queue # <<>>
    /\ HandleTaskEvent(Head(queue)) /\ queue' = Tail(queue)
    /\ UNCHANGED <<server, conn, tell, spilt, poll, breaks>>

\* The connection is lost: EventSource comes back and is told everything again.
Drop ==
    /\ conn # "off" /\ breaks < MaxBreaks /\ breaks' = breaks + 1
    /\ conn' = "off" /\ queue' = <<>> /\ tell' = <<>> /\ spilt' = FALSE /\ heard' = Nothing
    /\ UNCHANGED <<server, page, poll>>

-----------------------------------------------------------------------------
(* The page.  syncTasks polls every 30 seconds, whatever the stream does. *)

PollAsk ==
    /\ poll = <<>> /\ poll' = <<Rows>> /\ Asked
    /\ UNCHANGED <<row, place, redis, unsaid, stream, page, breaks>>

\* TASK_SYNC only when the list differs from the list of the last poll; it
\* never removes a task.  checkNotify sees every polled task.
Sig(rows) == rows
Merge(old, new) == [t \in Job |-> IF new[t] = None THEN old[t] ELSE new[t]]
PollAnswer ==
    /\ poll # <<>> /\ poll' = <<>>
    /\ LET rows == poll[1] IN
       /\ IF Sig(rows) # sig
          THEN sig' = Sig(rows) /\ view' = Merge(view, rows) /\ dirty' = TRUE
          ELSE UNCHANGED <<sig, view, dirty>>
       /\ \E fresh \in BOOLEAN :
            notified' = notified \cup {t \in Job : Finished(t, rows[t], fresh)}
       /\ known' = [t \in Job |-> IF t \in Notifies THEN Merge(known, rows)[t] ELSE None]
    /\ UNCHANGED <<server, stream, baseline, indexed, history, breaks>>

\* The effect on [state.bgTasks]: index a parsed PDF that ended, but let a task
\* marked 'baseline' pass - once, for the mark is overwritten.
Watch ==
    /\ dirty /\ dirty' = FALSE
    /\ LET ended == {t \in Pdf : view[t] = Over /\ t \notin indexed} IN
       /\ baseline' = baseline \ ended
       /\ indexed'  = indexed \cup (ended \ baseline)
    /\ UNCHANGED <<server, stream, view, sig, known, notified, history, poll,
                   breaks>>

\* The page is loaded again: bgTasks come from localStorage, the refs are new.
Reload ==
    /\ breaks < MaxBreaks /\ breaks' = breaks + 1
    /\ conn' = "off" /\ queue' = <<>> /\ tell' = <<>> /\ spilt' = FALSE /\ heard' = Nothing
    /\ poll' = <<>>
    /\ sig' = Nothing /\ known' = Nothing /\ notified' = {}
    /\ baseline' = {t \in Pdf : view[t] # None} /\ indexed' = {} /\ dirty' = TRUE
    /\ history' = {t \in Pdf : view[t] = Over}
    /\ UNCHANGED <<server, view>>

-----------------------------------------------------------------------------
Next ==
    \/ \E t \in Job : Create(t) \/ Update(t) \/ Publish(t)
    \/ RedisFails \/ RedisBack \/ Connect \/ ListFirst \/ Tell \/ Deliver \/ Drop
    \/ PollAsk \/ PollAnswer \/ Watch \/ Reload

Spec == Init /\ [][Next]_vars

\* Publishing threads, the browser's reconnect, the generator and the poll's
\* timer all go on; when a task moves is up to the task.
Fairness ==
    /\ \A t \in Job : WF_vars(Publish(t))
    /\ WF_vars(Connect) /\ WF_vars(ListFirst) /\ WF_vars(Tell) /\ WF_vars(Deliver)
    /\ WF_vars(PollAsk) /\ WF_vars(PollAnswer)
FairSpec == Spec /\ Fairness

\* Every variable has its type.
TypeOK ==
    /\ row \in [Job -> Stage] /\ place \in [Job -> {"none", "redis", "memory"}]
    /\ redis \in {"up", "down", "back"} /\ trusts \in BOOLEAN /\ unsaid \subseteq Job
    /\ conn \in {"off", "subscribed", "telling", "live"}
    /\ tell \in Seq([job : Job, st : Stage]) /\ queue \in Seq([job : Job, st : Stage])
    /\ Len(queue) <= QueueMax /\ spilt \in BOOLEAN
    /\ poll \in {<<>>} \cup {<<r>> : r \in [Job -> Stage]}
    /\ heard \in [Job -> Stage] /\ view \in [Job -> Stage] /\ sig \in [Job -> Stage]
    /\ known \in [Job -> Stage] /\ notified \subseteq Job
    /\ baseline \subseteq Job /\ indexed \subseteq Job /\ history \subseteq Job
    /\ dirty \in BOOLEAN /\ breaks \in 0..MaxBreaks

\* What the stream has said agrees with the rows whenever it has nothing left to
\* say: no change falls between the subscription and the list, and none is told
\* in the wrong order (task_stream, publish_task_update).
StreamCatchesUp ==
    conn = "live" /\ queue = <<>> /\ ~spilt =>
      \A t \in Job : Visible(t) /\ t \notin unsaid => heard[t] = row[t]

\* The page comes to show the end of every task that the store still knows,
\* through lost connections, stale polls and reloads, unless an event fell out of the
\* queue of its connection (syncTasks,
\* TASK_SYNC, TASK_UPDATE).
PageConverges ==
    \A t \in Job : (row[t] = Over /\ Visible(t)) ~> (view[t] = Over \/ spilt \/ ~Visible(t))

\* A task the page saw unfinished is announced when it ends, whichever of the
\* stream and the poll says so first (checkNotify).
EndIsAnnounced ==
    \A t \in Job : (row[t] = Over /\ known[t] \in 1..2)
                     ~> (t \in notified \/ known[t] = None \/ ~Visible(t))

\* App.tsx: tasks that were already done when the page was loaded are held back
\* by 'baseline' and do not start an indexing again.
HistoryNotReindexed == history \cap indexed = {}
=============================================================================
