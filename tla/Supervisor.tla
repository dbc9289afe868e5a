------------------------------ MODULE Supervisor ------------------------------
(***************************************************************************)
(* The leader/department task supervisor (agent/supervisor.py): background *)
(* worker tasks, the task record each of them keeps in the shared SQLite   *)
(* store, the lease and its heartbeat, and the supervision calls           *)
(* (dispatch, progress/list, cancel, resume, recover), run by one or more  *)
(* server processes over the same store.                                   *)
(*                                                                         *)
(* Every step ends where the code awaits.  A task record is written by     *)
(* _meta_put, which reads the record, merges some fields and writes the    *)
(* whole record back: the read and the write are two steps, and the merged *)
(* record travels in the "put" field of whoever is writing.                *)
(***************************************************************************)
EXTENDS Naturals, FiniteSets, TLC

CONSTANTS
    Task,         \* task ids (the uuid hex of dispatch)
    Proc,         \* process lifetimes: _WORKER_OWNER is fresh in each
    Worker,       \* slots for background _run_worker tasks
    Client,       \* slots for supervision calls in flight
    None,         \* no process, no task, no worker
    SingleServer, \* TRUE: processes run one after the other, never together
    Punctual,     \* TRUE: a live worker starts and renews within its lease
    StoreFaults,  \* TRUE: a store access may raise
    LateCalls     \* TRUE: turns go on calling while the supervisor shuts down

ASSUME NoneAssumption == None \notin Task \cup Proc \cup Worker \cup Client
ASSUME FlagAssumption ==
    /\ SingleServer \in BOOLEAN /\ Punctual \in BOOLEAN
    /\ StoreFaults \in BOOLEAN /\ LateCalls \in BOOLEAN

VARIABLES
    store,    \* the persisted task records
    ckpt,     \* where the LangGraph checkpoint of each thread stands
    up,       \* life of each process
    running,  \* _running: the live background task each process holds
    wk,       \* the background workers
    hb,       \* the heartbeat task of each worker
    call      \* the supervision calls in flight

vars == <<store, ckpt, up, running, wk, hb, call>>

\* Process lifetimes, worker slots and call slots are interchangeable.
Symmetry == Permutations(Proc) \cup Permutations(Worker) \cup Permutations(Client)

-------------------------------------------------------------------------------
(* Task records. *)

Status == {"none", "pending", "running", "interrupted", "done", "failed",
           "cancelled", "orphaned", "unknown"}
Active == {"pending", "running"}

Meta == [status : Status,
         owner  : Proc \cup {None},            \* lease_owner / worker_id
         lease  : {"none", "fresh", "lapsed"}, \* lease_expires_at
         recov  : BOOLEAN,                     \* recoverable
         known  : BOOLEAN]                     \* role, title, ... are there

\* What _meta_get hands to _meta_put for a missing record: {}.
NoMeta == [status |-> "none", owner |-> None, lease |-> "none",
           recov |-> FALSE, known |-> FALSE]

\* _pick names a record without a status "unknown".
Pick(m) == [m EXCEPT !.status = IF @ = "none" THEN "unknown" ELSE @]

\* A read by _meta_get: a store exception reads as a missing record.
ReadMeta(t) == {store[t]} \cup (IF StoreFaults THEN {NoMeta} ELSE {})

\* The fields each _meta_put of the code merges into what it has read.
PendingFields(p) ==
    [NoMeta EXCEPT !.status = "pending", !.owner = p, !.lease = "fresh",
                   !.recov = TRUE, !.known = TRUE]
StartFields(m, p) ==
    [m EXCEPT !.status = "running", !.owner = p, !.lease = "fresh",
              !.recov = FALSE]
HeartbeatFields(m) == Pick([m EXCEPT !.lease = "fresh"])
OrphanFields(m) ==
    [m EXCEPT !.status = "orphaned", !.owner = None, !.lease = "none",
              !.recov = TRUE]
\* Broken: the flag of the record that was read survives.
CancelFieldsKeepRecov(m) ==
    [m EXCEPT !.status = "cancelled", !.owner = None, !.lease = "none"]
CancelFields(m) ==
    [m EXCEPT !.status = "cancelled", !.owner = None, !.lease = "none",
              !.recov = FALSE]

\* The five ways _run_worker ends; "crashed" is an exception of the graph,
\* "failed" an empty or structured-error answer.
Ends == {"done", "failed", "crashed", "interrupted", "cancelled"}
EndStatus(e) == IF e = "crashed" THEN "failed" ELSE e
EndRecov(m, e) == CASE e = "interrupted"         -> TRUE
                    [] e \in {"done", "failed"}  -> FALSE
                    [] OTHER                     -> m.recov
EndFields(m, e) ==
    [m EXCEPT !.status = EndStatus(e), !.owner = None, !.lease = "none",
              !.recov = EndRecov(m, e)]

-------------------------------------------------------------------------------
(* Background workers, their heartbeats, and the calls in flight. *)

FreeWorker == [pc |-> "free", proc |-> None, task |-> None, mode |-> "first",
               end |-> "none", put |-> NoMeta]
NoBeat == [pc |-> "off", put |-> NoMeta]
NoCall == [pc |-> "idle", op |-> "poll", proc |-> None, task |-> None,
           todo |-> {}, cur |-> None, put |-> NoMeta]

WorkerState ==
    [pc   : {"free", "spawned", "startPut", "exec", "endSnap", "endPut",
             "retire"},
     proc : Proc \cup {None},
     task : Task \cup {None},
     mode : {"first", "reply", "recover"},  \* init_state, Command(resume), None
     end  : Ends \cup {"none"},
     put  : Meta]
BeatState == [pc : {"off", "sleep", "snap", "write"}, put : Meta]
CallState ==
    [pc   : {"idle", "tlock", "rlock", "mark", "markPut", "check", "get",
             "launch", "cancelSnap", "cancelPut", "cancelKill"},
     op   : {"poll", "resume", "recover", "cancel"},
     proc : Proc \cup {None},
     task : Task \cup {None},
     todo : SUBSET Task,         \* expired records of the scan, not yet marked
     cur  : Task \cup {None},    \* the record being marked
     put  : Meta]

TypeOK ==
    /\ store \in [Task -> Meta]
    /\ ckpt \in [Task -> {"none", "open", "asking", "final"}]
    /\ up \in [Proc -> {"off", "up", "stopping", "gone"}]
    /\ running \in [Proc -> [Task -> Worker \cup {None}]]
    /\ wk \in [Worker -> WorkerState]
    /\ hb \in [Worker -> BeatState]
    /\ call \in [Client -> CallState]

Init ==
    /\ store = [t \in Task |-> NoMeta]
    /\ ckpt = [t \in Task |-> "none"]
    /\ up = [p \in Proc |-> "off"]
    /\ running = [p \in Proc |-> [t \in Task |-> None]]
    /\ wk = [w \in Worker |-> FreeWorker]
    /\ hb = [w \in Worker |-> NoBeat]
    /\ call = [c \in Client |-> NoCall]

Live(w) == wk[w].pc # "free"
LiveAt(p) == {w \in Worker : Live(w) /\ wk[w].proc = p}
Busy(c) == call[c].pc # "idle"

\* A shutdown of the supervisor waits for no call and refuses none.
Serving(p) == up[p] \in {"up", "stopping"}

\* `existing is not None and not existing.done()`.  A handle to a finished
\* task and an absent one are the same to the code: running keeps live ones.
HasLocal(p, t) == running[p][t] # None

\* asyncio locks of one process: who is inside `async with`.
HoldsTransition(c) ==
    /\ call[c].op \in {"resume", "recover"}
    /\ call[c].pc \in {"rlock", "mark", "markPut", "check", "get", "launch"}
HoldsRecovery(c) == call[c].pc \in {"mark", "markPut"}

-------------------------------------------------------------------------------
(* Writes handed to the store's queue survive the cancellation of the task *)
(* that issued them, but not always: a cancellation may win the race.      *)

WorkerWrites(w) ==
    (IF wk[w].pc \in {"startPut", "endPut"} THEN {wk[w].put} ELSE {})
        \cup (IF hb[w].pc = "write" THEN {hb[w].put} ELSE {})
CallWrites(c, t) ==
    IF \/ call[c].pc = "markPut" /\ call[c].cur = t
       \/ call[c].pc = "cancelPut" /\ call[c].task = t
    THEN {call[c].put} ELSE {}

\* The records task t may be left with when workers W and calls C are cut off.
Landing(t, W, C) ==
    {store[t]} \cup (UNION {WorkerWrites(w) : w \in {v \in W : wk[v].task = t}})
               \cup (UNION {CallWrites(c, t) : c \in C})
StoreAfterCut(W, C) ==
    {s \in [Task -> UNION {Landing(t, W, C) : t \in Task}] :
        \A t \in Task : s[t] \in Landing(t, W, C)}

\* Broken: the graph run swallows the cancellation.
CancelledSwallowed(w) ==
    IF wk[w].pc = "exec" THEN [wk[w] EXCEPT !.end = "cancelled"]
    ELSE FreeWorker

\* Task.cancel() on a worker: only inside ainvoke is CancelledError handled,
\* anywhere else it ends the coroutine.
Cancelled(w) ==
    IF wk[w].pc = "exec"
    THEN [wk[w] EXCEPT !.pc = "endSnap", !.end = "cancelled"]
    ELSE FreeWorker

-------------------------------------------------------------------------------
(* Supervision calls. *)

SetCall(c, rec) == call' = [call EXCEPT ![c] = rec]
EndCall(c) == SetCall(c, NoCall)

Begin(c, p, op, t, pc) ==
    /\ ~Busy(c) /\ Serving(p) /\ (LateCalls \/ up[p] = "up")
    /\ SetCall(c, [NoCall EXCEPT !.pc = pc, !.op = op, !.proc = p, !.task = t])
    /\ UNCHANGED <<store, ckpt, up, running, wk, hb>>

\* create_task(_run_worker(...)); _running[task_id] = bg
Spawn(w, p, t, mode) ==
    /\ ~Live(w)
    /\ wk' = [wk EXCEPT ![w] = [FreeWorker EXCEPT
                 !.pc = "spawned", !.proc = p, !.task = t, !.mode = mode]]
    /\ running' = [running EXCEPT ![p][t] = w]

\* One step from the put to create_task: until dispatch returns the id, no
\* caller can name the task, and a process that dies in between leaves what
\* it leaves when it dies before the worker runs.
Dispatch(p, t, w) ==
    /\ Serving(p) /\ store[t] = NoMeta
    /\ \A c \in Client : call[c].task # t
    /\ store' = [store EXCEPT ![t] = PendingFields(p)]
    /\ Spawn(w, p, t, "first")
    /\ UNCHANGED <<ckpt, up, hb, call>>

\* progress, collect and list_tasks change the store by their lease scan only.
\* No call checks beforehand that the task exists; cancel never does.
Poll(c, p)       == Begin(c, p, "poll", None, "rlock")
Resume(c, p, t)  == Begin(c, p, "resume", t, "tlock")
Recover(c, p, t) == Begin(c, p, "recover", t, "tlock")
Cancel(c, p, t)  == Begin(c, p, "cancel", t, "cancelSnap")

\* Broken: resume and recover do not wait for each other.
EnterTransitionUnlocked(c) ==
    /\ call[c].pc = "tlock"
    /\ SetCall(c, [call[c] EXCEPT !.pc = "rlock"])
    /\ UNCHANGED <<store, ckpt, up, running, wk, hb>>

EnterTransition(c) ==
    /\ call[c].pc = "tlock"
    /\ \A d \in Client :
          call[d].proc = call[c].proc => ~HoldsTransition(d)
    /\ SetCall(c, [call[c] EXCEPT !.pc = "rlock"])
    /\ UNCHANGED <<store, ckpt, up, running, wk, hb>>

\* recover_expired_leases without force may be throttled away.
SkipScan(c) ==
    /\ call[c].pc = "rlock" /\ call[c].op = "resume"
    /\ SetCall(c, [call[c] EXCEPT !.pc = "check"])
    /\ UNCHANGED <<store, ckpt, up, running, wk, hb>>

\* Broken: a record without a local worker counts as abandoned at once.
ExpiredAtOnce(t) == store[t].status \in Active
Expired(t) == store[t].status \in Active /\ store[t].lease # "fresh"

\* Broken: the scan takes _transition_lock, which asyncio does not re-enter.
ScanUnderTransition(c) ==
    /\ call[c].pc = "rlock"
    /\ \A d \in Client : call[d].proc = call[c].proc =>
                            ~HoldsRecovery(d) /\ ~HoldsTransition(d)
    /\ SetCall(c, [call[c] EXCEPT !.pc = "mark",
                                  !.todo = {t \in Task : Expired(t)}])
    /\ UNCHANGED <<store, ckpt, up, running, wk, hb>>

\* _meta_scan under _recovery_lock; a store exception reads as no tasks.  A
\* lease that runs out between the scan and its turn in the loop counts as one
\* that ran out before the scan.
Scan(c) ==
    /\ call[c].pc = "rlock"
    /\ \A d \in Client : call[d].proc = call[c].proc => ~HoldsRecovery(d)
    /\ \E found \in {{t \in Task : Expired(t)}}
                        \cup (IF StoreFaults THEN {{}} ELSE {}) :
          SetCall(c, [call[c] EXCEPT !.pc = "mark", !.todo = found])
    /\ UNCHANGED <<store, ckpt, up, running, wk, hb>>

\* A task with a live worker in this process is passed over.
PassOver(c, t) ==
    /\ call[c].pc = "mark" /\ t \in call[c].todo
    /\ HasLocal(call[c].proc, t)
    /\ SetCall(c, [call[c] EXCEPT !.todo = @ \ {t}])
    /\ UNCHANGED <<store, ckpt, up, running, wk, hb>>

MarkRead(c, t) ==
    /\ call[c].pc = "mark" /\ t \in call[c].todo
    /\ ~HasLocal(call[c].proc, t)
    /\ \E m \in ReadMeta(t) :
          SetCall(c, [call[c] EXCEPT !.pc = "markPut", !.cur = t,
                                     !.put = OrphanFields(m)])
    /\ UNCHANGED <<store, ckpt, up, running, wk, hb>>

MarkWrite(c) ==
    /\ call[c].pc = "markPut"
    /\ store' = [store EXCEPT ![call[c].cur] = call[c].put]
    /\ SetCall(c, [call[c] EXCEPT !.pc = "mark", !.cur = None, !.put = NoMeta,
                                  !.todo = @ \ {call[c].cur}])
    /\ UNCHANGED <<ckpt, up, running, wk, hb>>

ScanDone(c) ==
    /\ call[c].pc = "mark" /\ call[c].todo = {}
    /\ IF call[c].op = "poll" THEN EndCall(c)
       ELSE SetCall(c, [call[c] EXCEPT !.pc = "check"])
    /\ UNCHANGED <<store, ckpt, up, running, wk, hb>>

\* Broken: no look at _running.
CheckLocalSkipped(c) ==
    /\ call[c].pc = "check"
    /\ SetCall(c, [call[c] EXCEPT !.pc = "get"])
    /\ UNCHANGED <<store, ckpt, up, running, wk, hb>>

\* `if existing is not None and not existing.done(): return False`
CheckLocal(c) ==
    /\ call[c].pc = "check"
    /\ IF HasLocal(call[c].proc, call[c].task) THEN EndCall(c)
       ELSE SetCall(c, [call[c] EXCEPT !.pc = "get"])
    /\ UNCHANGED <<store, ckpt, up, running, wk, hb>>

Wanted(c) == IF call[c].op = "resume" THEN "interrupted" ELSE "orphaned"

\* Broken: a reply is accepted whatever the status.
GetStatusAny(c) ==
    /\ call[c].pc = "get"
    /\ \E m \in ReadMeta(call[c].task) :
          \/ /\ call[c].op = "resume" \/ m.status = Wanted(c)
             /\ m.known
             /\ SetCall(c, [call[c] EXCEPT !.pc = "launch"])
          \/ /\ m.status # Wanted(c) \/ ~m.known
             /\ EndCall(c)
    /\ UNCHANGED <<store, ckpt, up, running, wk, hb>>

\* The status check; recover must also rebuild the graph from role.
GetStatus(c) ==
    /\ call[c].pc = "get"
    /\ \E m \in ReadMeta(call[c].task) :
          \/ /\ m.status = Wanted(c)
             /\ call[c].op = "recover" => m.known
             /\ SetCall(c, [call[c] EXCEPT !.pc = "launch"])
          \/ /\ m.status # Wanted(c) \/ ~m.known
             /\ EndCall(c)
    /\ UNCHANGED <<store, ckpt, up, running, wk, hb>>

Launch(c, w) ==
    /\ call[c].pc = "launch"
    /\ Spawn(w, call[c].proc, call[c].task,
             IF call[c].op = "resume" THEN "reply" ELSE "recover")
    /\ EndCall(c)
    /\ UNCHANGED <<store, ckpt, up, hb>>

CancelRead(c) ==
    /\ call[c].pc = "cancelSnap"
    /\ \E m \in ReadMeta(call[c].task) :
          SetCall(c, [call[c] EXCEPT !.pc = "cancelPut",
                                     !.put = CancelFields(m)])
    /\ UNCHANGED <<store, ckpt, up, running, wk, hb>>

CancelWrite(c) ==
    /\ call[c].pc = "cancelPut"
    /\ store' = [store EXCEPT ![call[c].task] = call[c].put]
    /\ SetCall(c, [call[c] EXCEPT !.pc = "cancelKill", !.put = NoMeta])
    /\ UNCHANGED <<ckpt, up, running, wk, hb>>

\* t.cancel() on the worker of this process, if it has one; _finish.
CancelKill(c) ==
    LET p == call[c].proc
        t == call[c].task
        w == running[p][t]
    IN
    /\ call[c].pc = "cancelKill"
    /\ IF w = None THEN UNCHANGED <<store, wk, hb>>
       ELSE /\ wk' = [wk EXCEPT ![w] = Cancelled(w)]
            /\ IF wk[w].pc = "exec" THEN UNCHANGED <<store, hb>>
               ELSE /\ store' \in StoreAfterCut({w}, {})
                    /\ hb' = [hb EXCEPT ![w] = NoBeat]
    /\ running' = [running EXCEPT ![p][t] = None]
    /\ EndCall(c)
    /\ UNCHANGED <<ckpt, up>>

\* A put that raises ends the call; `async with` releases its locks.
CallFault(c) ==
    /\ StoreFaults /\ call[c].pc \in {"markPut", "cancelPut"}
    /\ EndCall(c)
    /\ UNCHANGED <<store, ckpt, up, running, wk, hb>>

-------------------------------------------------------------------------------
(* _run_worker *)

SetWorker(w, rec) == wk' = [wk EXCEPT ![w] = rec]

StartRead(w) ==
    /\ wk[w].pc = "spawned"
    /\ \E m \in ReadMeta(wk[w].task) :
          SetWorker(w, [wk[w] EXCEPT !.pc = "startPut",
                                     !.put = StartFields(m, wk[w].proc)])
    /\ UNCHANGED <<store, ckpt, up, running, hb, call>>

\* The record says running; the heartbeat starts and ainvoke begins.
StartWrite(w) ==
    LET t == wk[w].task IN
    /\ wk[w].pc = "startPut"
    /\ store' = [store EXCEPT ![t] = wk[w].put]
    /\ SetWorker(w, [wk[w] EXCEPT !.pc = "exec", !.put = NoMeta])
    /\ hb' = [hb EXCEPT ![w] = [NoBeat EXCEPT !.pc = "sleep"]]
    /\ ckpt' = [ckpt EXCEPT ![t] = IF wk[w].mode = "recover" THEN @ ELSE "open"]
    /\ UNCHANGED <<up, running, call>>

\* What ainvoke can come to.  With None for input it raises on a thread that
\* has no checkpoint, asks again on one that is asking, and returns at once
\* on one that is finished.
Outcomes(w) ==
    LET at == ckpt[wk[w].task] IN
    IF wk[w].mode # "recover" \/ at = "open"
    THEN {"done", "failed", "crashed", "interrupted"}
    ELSE {"crashed"} \cup (CASE at = "asking" -> {"interrupted"}
                             [] at = "final"  -> {"done", "failed"}
                             [] OTHER         -> {})

\* How a run is taken: aget_state tells whether the graph is waiting at an
\* interrupt, and if it raises the answer so far counts as the final one.
TakenAs(e) ==
    IF e = "interrupted" /\ StoreFaults
    THEN {"interrupted", "done", "failed"} ELSE {e}

Return(w, e) ==
    LET t == wk[w].task IN
    /\ wk[w].pc = "exec" /\ e \in Outcomes(w)
    /\ \E end \in TakenAs(e) :
          SetWorker(w, [wk[w] EXCEPT !.pc = "endSnap", !.end = end])
    /\ ckpt' = [ckpt EXCEPT ![t] = CASE e = "interrupted"        -> "asking"
                                     [] e \in {"done", "failed"} -> "final"
                                     [] OTHER                    -> @]
    /\ UNCHANGED <<store, up, running, hb, call>>

EndRead(w) ==
    /\ wk[w].pc = "endSnap"
    /\ \E m \in ReadMeta(wk[w].task) :
          SetWorker(w, [wk[w] EXCEPT !.pc = "endPut",
                                     !.put = EndFields(m, wk[w].end)])
    /\ UNCHANGED <<store, ckpt, up, running, hb, call>>

EndWrite(w) ==
    /\ wk[w].pc = "endPut"
    /\ store' = [store EXCEPT ![wk[w].task] = wk[w].put]
    /\ SetWorker(w, [wk[w] EXCEPT !.pc = "retire", !.put = NoMeta])
    /\ UNCHANGED <<ckpt, up, running, hb, call>>

\* Broken: the heartbeat outlives its worker.
RetireLeavesBeat(w) ==
    /\ wk[w].pc = "retire"
    /\ running' = [running EXCEPT ![wk[w].proc][wk[w].task] =
                      IF wk[w].end # "cancelled" \/ @ = w THEN None ELSE @]
    /\ SetWorker(w, FreeWorker)
    /\ UNCHANGED <<store, ckpt, up, hb, call>>

\* _finish, or the pop of the interrupted branch, by key; a re-raised
\* cancellation pops nothing.  Then `finally`: the heartbeat is cancelled.
Retire(w) ==
    /\ wk[w].pc = "retire"
    /\ running' = [running EXCEPT ![wk[w].proc][wk[w].task] =
                      IF wk[w].end # "cancelled" \/ @ = w THEN None ELSE @]
    /\ store' \in StoreAfterCut({w}, {})
    /\ SetWorker(w, FreeWorker)
    /\ hb' = [hb EXCEPT ![w] = NoBeat]
    /\ UNCHANGED <<ckpt, up, call>>

\* A put that raises ends the worker through `finally` alone.
WorkerFault(w) ==
    /\ StoreFaults /\ wk[w].pc \in {"startPut", "endPut"}
    /\ running' = [running EXCEPT ![wk[w].proc][wk[w].task] =
                      IF @ = w THEN None ELSE @]
    /\ SetWorker(w, FreeWorker)
    /\ hb' = [hb EXCEPT ![w] = NoBeat]
    /\ UNCHANGED <<store, ckpt, up, call>>

-------------------------------------------------------------------------------
(* _heartbeat_loop *)

SetBeat(w, rec) == hb' = [hb EXCEPT ![w] = rec]

BeatCheck(w) ==
    /\ hb[w].pc = "sleep"
    /\ \E m \in ReadMeta(wk[w].task) :
          SetBeat(w, IF m.status = "running" /\ m.owner = wk[w].proc
                     THEN [hb[w] EXCEPT !.pc = "snap"] ELSE NoBeat)
    /\ UNCHANGED <<store, ckpt, up, running, wk, call>>

BeatRead(w) ==
    /\ hb[w].pc = "snap"
    /\ \E m \in ReadMeta(wk[w].task) :
          SetBeat(w, [pc |-> "write", put |-> HeartbeatFields(m)])
    /\ UNCHANGED <<store, ckpt, up, running, wk, call>>

BeatWrite(w) ==
    /\ hb[w].pc = "write"
    /\ store' = [store EXCEPT ![wk[w].task] = hb[w].put]
    /\ SetBeat(w, [NoBeat EXCEPT !.pc = "sleep"])
    /\ UNCHANGED <<ckpt, up, running, wk, call>>

BeatFault(w) ==
    /\ StoreFaults /\ hb[w].pc = "write"
    /\ SetBeat(w, NoBeat)
    /\ UNCHANGED <<store, ckpt, up, running, wk, call>>

-------------------------------------------------------------------------------
(* Processes and time. *)

Start(p) ==
    /\ up[p] = "off"
    /\ SingleServer => \A q \in Proc : up[q] \in {"off", "gone"}
    /\ up' = [up EXCEPT ![p] = "up"]
    /\ UNCHANGED <<store, ckpt, running, wk, hb, call>>

\* The end of the event loop: whatever is left in the process is cut off.
Exit(p) ==
    LET cut == {c \in Client : call[c].proc = p} IN
    /\ Serving(p)
    /\ up' = [up EXCEPT ![p] = "gone"]
    /\ store' \in StoreAfterCut(LiveAt(p), cut)
    /\ running' = [running EXCEPT ![p] = [t \in Task |-> None]]
    /\ wk' = [w \in Worker |-> IF w \in LiveAt(p) THEN FreeWorker ELSE wk[w]]
    /\ hb' = [w \in Worker |-> IF w \in LiveAt(p) THEN NoBeat ELSE hb[w]]
    /\ call' = [c \in Client |-> IF c \in cut THEN NoCall ELSE call[c]]
    /\ UNCHANGED ckpt

Crash(p) == Exit(p)

\* The handles of p that are not done() once its workers are cancelled.
StillRunning(p) ==
    [t \in Task |-> LET w == running[p][t] IN
        IF w = None THEN None
        ELSE IF Cancelled(w) = FreeWorker THEN None ELSE w]

\* shutdown_supervisor: every worker and heartbeat is cancelled, then awaited.
\* Calls in flight go on, and turns that still run may make new ones.
Shutdown(p) ==
    /\ up[p] = "up"
    /\ up' = [up EXCEPT ![p] = "stopping"]
    /\ store' \in StoreAfterCut(LiveAt(p), {})
    /\ wk' = [w \in Worker |-> IF w \in LiveAt(p) THEN Cancelled(w) ELSE wk[w]]
    /\ hb' = [w \in Worker |-> IF w \in LiveAt(p) THEN NoBeat ELSE hb[w]]
    /\ running' = [running EXCEPT ![p] = StillRunning(p)]
    /\ UNCHANGED <<ckpt, call>>

\* The cancelled workers have ended; _running is emptied and the store closed
\* on the way out.
ShutdownDone(p) ==
    /\ up[p] = "stopping"
    /\ \A w \in LiveAt(p) : wk[w].end # "cancelled"
    /\ Exit(p)

\* A worker that is about to start, or whose heartbeat is running.
Renewing(w, t) ==
    /\ wk[w].task = t
    /\ wk[w].pc \in {"spawned", "startPut"} \/ hb[w].pc # "off"

\* lease_expires_at passes.
Lapse(t) ==
    /\ store[t].lease = "fresh"
    /\ Punctual => \A w \in Worker : ~Renewing(w, t)
    /\ store' = [store EXCEPT ![t].lease = "lapsed"]
    /\ UNCHANGED <<ckpt, up, running, wk, hb, call>>

-------------------------------------------------------------------------------
BeginCall(c) == \E p \in Proc :
    \/ Poll(c, p)
    \/ \E t \in Task : \/ Resume(c, p, t)
                       \/ Recover(c, p, t)
                       \/ Cancel(c, p, t)

\* The two steps that wait for an asyncio lock, and all the others.
Acquire(c) == EnterTransition(c) \/ Scan(c)
CallStep(c) ==
    \/ SkipScan(c)
    \/ \E t \in Task : PassOver(c, t) \/ MarkRead(c, t)
    \/ MarkWrite(c)
    \/ ScanDone(c)
    \/ CheckLocal(c)
    \/ GetStatus(c)
    \/ \E w \in Worker : Launch(c, w)
    \/ CancelRead(c)
    \/ CancelWrite(c)
    \/ CancelKill(c)
    \/ CallFault(c)

\* Everything a worker does by itself, its graph run apart.
WorkerStep(w) ==
    \/ StartRead(w)
    \/ StartWrite(w)
    \/ EndRead(w)
    \/ EndWrite(w)
    \/ Retire(w)
    \/ WorkerFault(w)
GraphReturns(w) == \E e \in Ends : Return(w, e)
Beat(w) == BeatCheck(w) \/ BeatRead(w) \/ BeatWrite(w) \/ BeatFault(w)

Next ==
    \/ \E c \in Client : BeginCall(c) \/ Acquire(c) \/ CallStep(c)
    \/ \E w \in Worker : WorkerStep(w) \/ GraphReturns(w) \/ Beat(w)
    \/ \E p \in Proc, t \in Task, w \in Worker : Dispatch(p, t, w)
    \/ \E p \in Proc : Start(p) \/ Crash(p) \/ Shutdown(p) \/ ShutdownDone(p)
    \/ \E t \in Task : Lapse(t)

Spec == Init /\ [][Next]_vars

\* The event loop runs what is ready, asyncio locks are first come first
\* served, a shutdown goes on, and time passes.  No fairness for clients,
\* for crashes, or for a graph run to return.
Fairness ==
    /\ \A c \in Client : WF_vars(CallStep(c)) /\ SF_vars(Acquire(c))
    /\ \A w \in Worker : WF_vars(WorkerStep(w)) /\ WF_vars(Beat(w))
    /\ \A p \in Proc : WF_vars(ShutdownDone(p))
    /\ \A t \in Task : WF_vars(Lapse(t))

FairSpec == Spec /\ Fairness

-------------------------------------------------------------------------------
(* What the reachability of workers rests on (proved in SupervisorProofs). *)

\* Which calls reach which program points, and with what at hand.
CallShape == \A c \in Client :
    /\ Busy(c) => call[c].proc \in Proc
    /\ call[c].pc \in {"tlock", "check", "get", "launch"} =>
          call[c].op \in {"resume", "recover"}
    /\ call[c].pc \in {"rlock", "mark", "markPut"} =>
          call[c].op \in {"poll", "resume", "recover"}
    /\ \/ call[c].op \in {"resume", "recover"}
       \/ call[c].pc \in {"cancelSnap", "cancelPut", "cancelKill"}
       => call[c].task \in Task
    /\ call[c].pc = "markPut" => call[c].cur \in Task
    /\ call[c].pc \in {"markPut", "cancelPut"} => call[c].put.status # "none"

\* Workers have a process and a task, heartbeats have a worker, and a record
\* on its way to the store always has a status.
WorkerShape == \A w \in Worker :
    /\ Live(w) => wk[w].proc \in Proc /\ wk[w].task \in Task
    /\ hb[w].pc # "off" => Live(w)
    /\ wk[w].pc \in {"startPut", "endPut"} => wk[w].put.status # "none"
    /\ hb[w].pc = "write" => hb[w].put.status # "none"
    /\ wk[w].end \in Ends <=> wk[w].pc \in {"endSnap", "endPut", "retire"}

\* _transition_lock
TransitionExclusive == \A c, d \in Client :
    HoldsTransition(c) /\ HoldsTransition(d) /\ call[c].proc = call[d].proc
    => c = d

\* Between the single-flight check and create_task no worker turns up.
NoNewcomer == \A c \in Client :
    call[c].pc \in {"get", "launch"} =>
        running[call[c].proc][call[c].task] = None

\* Whoever works on a task, its record exists.
Recorded ==
    /\ \A w \in Worker : Live(w) => store[wk[w].task].status # "none"
    /\ \A c \in Client :
          call[c].pc = "launch" => store[call[c].task].status # "none"

-------------------------------------------------------------------------------
(* Properties. *)

\* A process can always reach the workers it runs: every live worker that has
\* not been cancelled is the one _running holds for its task (the handle that
\* cancel, shutdown and the single-flight check of resume and recover use).
WorkerReachable ==
    \A w \in Worker : Live(w) /\ wk[w].end # "cancelled" =>
        running[wk[w].proc][wk[w].task] = w

\* The inductive invariant.
IndInv ==
    /\ TypeOK
    /\ CallShape
    /\ WorkerShape
    /\ TransitionExclusive
    /\ NoNewcomer
    /\ Recorded
    /\ WorkerReachable

\* "Concurrent leader replies must not start two workers on one thread"
\* (agent/tests/test_supervisor.py), over all processes that share the store: one
\* graph run at a time on the checkpoint thread of a task.
OneExecutor ==
    \A v, w \in Worker :
        wk[v].pc = "exec" /\ wk[w].pc = "exec" /\ wk[v].task = wk[w].task
        => v = w

\* A leader's reply is only ever fed to a graph that is waiting at its
\* interrupt: one question, one reply.
ReplyMeetsQuestion ==
    [][\A w \in Worker :
          wk[w].pc = "startPut" /\ wk'[w].pc = "exec" /\ wk[w].mode = "reply"
          => ckpt[wk[w].task] = "asking"]_vars

\* recover_expired_leases: "A live local task or an unexpired lease is left
\* untouched."  Whatever becomes orphaned had no unexpired lease and no worker
\* executing it.
OrphaningSparesLive ==
    [][\A t \in Task :
          store[t].status # "orphaned" /\ store'[t].status = "orphaned" =>
             /\ store[t].lease # "fresh"
             /\ \A w \in Worker : wk[w].task = t => wk[w].pc # "exec"]_vars

\* The record never claims a task can be taken over when its own status says
\* it is over: recoverable goes with pending, interrupted and orphaned.
RecoverableStatus ==
    \A t \in Task : store[t].recov =>
        store[t].status \in {"pending", "interrupted", "orphaned"}

\* task_cancel: "Marks it cancelled; its checkpoint/output stays for
\* inspection."  A cancelled task stays cancelled.
CancelSticks ==
    [][\A t \in Task : store[t].status = "cancelled"
                          => store'[t].status = "cancelled"]_vars

\* No supervision call waits for ever on the locks of its process.
CallsReturn == \A c \in Client : Busy(c) ~> ~Busy(c)

\* Broken: the stored status, taken at its word.
ShownAsStored(p, t) == store[t].status
\* What _effective_status shows in process p.
Shown(p, t) ==
    IF store[t].status \in Active /\ ~HasLocal(p, t) /\ store[t].lease # "fresh"
    THEN "orphaned" ELSE store[t].status

\* A task whose worker is gone does not go on being shown as running: its
\* lease runs out for every process (nothing renews it any more), unless the
\* task is taken up or ended first.
Unattended(t) ==
    /\ store[t].status \in Active
    /\ \A w \in Worker : wk[w].task # t
DeadWorkerSurfaces ==
    \A t \in Task : Unattended(t) ~>
        (\A p \in Proc : Shown(p, t) \notin Active) \/ ~Unattended(t)

\* A cancelled worker comes to an end.
CancelledWorkerEnds ==
    \A w \in Worker : (Live(w) /\ wk[w].end = "cancelled") ~> ~Live(w)
===============================================================================
