-------------------------- MODULE SupervisorProofs --------------------------
(***************************************************************************)
(* Proofs about Supervisor, for any number of tasks, processes, workers    *)
(* and calls, with or without store faults, punctual or not.               *)
(*                                                                         *)
(* IndInv holds without a hypothesis.  OneServer needs servers that do not *)
(* overlap.  SoundInv, at the end, is what holds of every record when they *)
(* do not, leases are renewed in time and the store does not fail: its     *)
(* three hypotheses are Sound.                                             *)
(***************************************************************************)
EXTENDS Supervisor, TLAPS

\* The missing record is a record, without a status.
LEMMA NoMetaType == NoMeta \in Meta /\ NoMeta.status = "none"
  BY DEF NoMeta, Meta, Status

\* dispatch's put writes a well-formed record with a status.
LEMMA PendingType ==
    ASSUME NEW p \in Proc
    PROVE  PendingFields(p) \in Meta /\ PendingFields(p).status # "none"
  BY DEF PendingFields, NoMeta, Meta, Status

\* The worker's first put writes a well-formed record with a status.
LEMMA StartType ==
    ASSUME NEW m \in Meta, NEW p \in Proc
    PROVE  StartFields(m, p) \in Meta /\ StartFields(m, p).status # "none"
  BY DEF StartFields, Meta, Status

\* The heartbeat's put writes a well-formed record with a status.
LEMMA HeartbeatType ==
    ASSUME NEW m \in Meta
    PROVE  HeartbeatFields(m) \in Meta /\ HeartbeatFields(m).status # "none"
  BY DEF HeartbeatFields, Pick, Meta, Status

\* recover_expired_leases' put writes a well-formed record with a status.
LEMMA OrphanType ==
    ASSUME NEW m \in Meta
    PROVE  OrphanFields(m) \in Meta /\ OrphanFields(m).status # "none"
  BY DEF OrphanFields, Meta, Status

\* cancel's put writes a well-formed record with a status.
LEMMA CancelType ==
    ASSUME NEW m \in Meta
    PROVE  CancelFields(m) \in Meta /\ CancelFields(m).status # "none"
  BY DEF CancelFields, Meta, Status

\* The worker's last put writes a well-formed record with a status.
LEMMA EndType ==
    ASSUME NEW m \in Meta, NEW e \in Ends
    PROVE  EndFields(m, e) \in Meta /\ EndFields(m, e).status # "none"
  <1>1. EndRecov(m, e) \in BOOLEAN
    BY DEF EndRecov, Meta, Ends
  <1>2. EndStatus(e) \in Status \ {"none"}
    BY DEF EndStatus, Ends, Status
  <1>3. QED
    BY <1>1, <1>2 DEF EndFields, Meta

\* A shutdown ends as a crash would.
LEMMA DoneIsCrash == \A p \in Proc : ShutdownDone(p) => Crash(p)
  BY DEF ShutdownDone, Crash

\* What a read returns is a record.
LEMMA ReadType ==
    ASSUME TypeOK, NEW t \in Task
    PROVE  ReadMeta(t) \subseteq Meta
  BY NoMetaType DEF TypeOK, ReadMeta

\* Cutting workers and calls off leaves every task with the record it had or
\* with one that was on its way, so no record goes away.
LEMMA CutType ==
    ASSUME TypeOK, CallShape, WorkerShape,
           NEW W \in SUBSET Worker, NEW C \in SUBSET Client,
           NEW s \in StoreAfterCut(W, C)
    PROVE  /\ s \in [Task -> Meta]
           /\ \A t \in Task : store[t].status # "none" => s[t].status # "none"
  <1>1. ASSUME NEW w \in Worker, NEW m \in WorkerWrites(w)
        PROVE  m \in Meta /\ m.status # "none"
    BY <1>1 DEF TypeOK, WorkerShape, WorkerWrites, WorkerState, BeatState
  <1>2. ASSUME NEW c \in Client, NEW t \in Task, NEW m \in CallWrites(c, t)
        PROVE  m \in Meta /\ m.status # "none"
    BY <1>2 DEF TypeOK, CallShape, CallWrites, CallState
  <1>3. ASSUME NEW t \in Task, NEW m \in Landing(t, W, C)
        PROVE  /\ m \in Meta
               /\ store[t].status # "none" => m.status # "none"
    <2>1. CASE m = store[t]
      BY <2>1 DEF TypeOK
    <2>2. CASE \E w \in W : m \in WorkerWrites(w)
      BY <2>2, <1>1
    <2>3. CASE \E c \in C : m \in CallWrites(c, t)
      BY <2>3, <1>2
    <2>4. \/ m = store[t]
          \/ \E w \in W : m \in WorkerWrites(w)
          \/ \E c \in C : m \in CallWrites(c, t)
      BY <1>3 DEF Landing
    <2>5. QED
      BY <2>1, <2>2, <2>3, <2>4
  <1>4. s \in [Task -> UNION {Landing(t, W, C) : t \in Task}]
        /\ \A t \in Task : s[t] \in Landing(t, W, C)
    BY DEF StoreAfterCut
  <1>5. QED
    BY <1>3, <1>4

\* A call that moves on keeps all but its program point.
LEMMA CallMoves ==
    ASSUME TypeOK, NEW c \in Client, NEW to,
           SetCall(c, [call[c] EXCEPT !.pc = to])
    PROVE  /\ call'[c].pc = to
           /\ call'[c].op = call[c].op
           /\ call'[c].proc = call[c].proc
           /\ call'[c].task = call[c].task
           /\ call'[c].cur = call[c].cur
           /\ call'[c].put = call[c].put
           /\ \A d \in Client \ {c} : call'[d] = call[d]
  BY DEF SetCall, TypeOK, CallState

\* A call that ends leaves the others alone.
LEMMA CallEnds ==
    ASSUME TypeOK, NEW c \in Client, EndCall(c)
    PROVE  /\ call'[c] = NoCall
           /\ \A d \in Client \ {c} : call'[d] = call[d]
  BY DEF EndCall, SetCall, TypeOK

\* A cancellation either ends a worker or starts its clean-up.
LEMMA CancelledShape ==
    ASSUME TypeOK, NEW w \in Worker
    PROVE  \/ /\ wk[w].pc # "exec"
              /\ Cancelled(w) = FreeWorker
           \/ /\ wk[w].pc = "exec"
              /\ Cancelled(w).pc = "endSnap"
              /\ Cancelled(w).end = "cancelled"
              /\ Cancelled(w).proc = wk[w].proc
              /\ Cancelled(w).task = wk[w].task
  BY DEF Cancelled, TypeOK, WorkerState

\* A graph run that returns moves its worker to one of the ends.
LEMMA ReturnMoves ==
    ASSUME TypeOK, NEW w \in Worker, NEW e \in Ends, Return(w, e)
    PROVE  /\ wk' \in [Worker -> WorkerState]
           /\ wk[w].pc = "exec" /\ wk'[w].pc = "endSnap"
           /\ wk'[w].end \in Ends
           /\ wk'[w].proc = wk[w].proc /\ wk'[w].task = wk[w].task
           /\ \A u \in Worker \ {w} : wk'[u] = wk[u]
  <1>1. PICK end \in Ends :
           wk' = [wk EXCEPT ![w] = [wk[w] EXCEPT !.pc = "endSnap", !.end = end]]
    BY DEF Return, SetWorker, TakenAs, Ends
  <1>2. wk[w] \in WorkerState /\ wk \in [Worker -> WorkerState]
    BY DEF TypeOK
  <1>3. [wk[w] EXCEPT !.pc = "endSnap", !.end = end] \in WorkerState
    BY <1>2 DEF WorkerState
  <1>4. wk[w].pc = "exec"
    BY DEF Return
  <1>5. QED
    BY <1>1, <1>2, <1>3, <1>4 DEF WorkerState

\* The invariant holds when the first server starts on an empty store.
LEMMA InitInd == Init => IndInv
  <1> SUFFICES ASSUME Init PROVE IndInv
    OBVIOUS
  <1>1. NoMeta \in Meta
    BY DEF NoMeta, Meta, Status
  <1>2. TypeOK
    BY <1>1 DEF Init, TypeOK, FreeWorker, NoBeat, NoCall, WorkerState,
                BeatState, CallState, Ends
  <1>3. QED
    BY <1>2 DEF Init, IndInv, CallShape, WorkerShape, TransitionExclusive,
       NoNewcomer, Recorded, WorkerReachable, FreeWorker, NoBeat, NoCall,
       Live, Busy, HoldsTransition, Ends

\* Every step leaves the variables in their types.
LEMMA TypeOKStep ==
    ASSUME IndInv, [Next]_vars
    PROVE  TypeOK'
  <1> USE DEF IndInv
  <1>a. /\ call \in [Client -> CallState]
        /\ wk \in [Worker -> WorkerState]
    BY DEF TypeOK
  <1>b. /\ FreeWorker \in WorkerState
        /\ \A w \in Worker : Cancelled(w) \in WorkerState
    BY <1>a, NoMetaType DEF FreeWorker, WorkerState, Cancelled, Ends
  <1>1. ASSUME NEW c \in Client, NEW p \in Proc, Poll(c, p)
        PROVE  TypeOK'
    BY <1>1, NoMetaType DEF Poll, Begin, SetCall, EndCall, NoCall, CallState,
       TypeOK
  <1>2. ASSUME NEW c \in Client, NEW p \in Proc, NEW t \in Task, Resume(c, p, t)
        PROVE  TypeOK'
    BY <1>2, NoMetaType DEF Resume, Begin, SetCall, EndCall, NoCall,
       CallState, TypeOK
  <1>3. ASSUME NEW c \in Client, NEW p \in Proc, NEW t \in Task, Recover(c, p, t)
        PROVE  TypeOK'
    BY <1>3, NoMetaType DEF Recover, Begin, SetCall, EndCall, NoCall,
       CallState, TypeOK
  <1>4. ASSUME NEW c \in Client, NEW p \in Proc, NEW t \in Task, Cancel(c, p, t)
        PROVE  TypeOK'
    BY <1>4, NoMetaType DEF Cancel, Begin, SetCall, EndCall, NoCall,
       CallState, TypeOK
  <1>5. ASSUME NEW c \in Client, EnterTransition(c)
        PROVE  TypeOK'
    <2>1. [call[c] EXCEPT !.pc = "rlock"] \in CallState
      BY <1>5, <1>a DEF CallState
    <2>2. QED
      BY <1>5, <2>1 DEF EnterTransition, SetCall, EndCall, TypeOK
  <1>6. ASSUME NEW c \in Client, SkipScan(c)
        PROVE  TypeOK'
    <2>1. [call[c] EXCEPT !.pc = "check"] \in CallState
      BY <1>6, <1>a DEF CallState
    <2>2. QED
      BY <1>6, <2>1 DEF SkipScan, SetCall, EndCall, TypeOK
  <1>7. ASSUME NEW c \in Client, Scan(c)
        PROVE  TypeOK'
    <2>1. PICK F \in SUBSET Task :
             SetCall(c, [call[c] EXCEPT !.pc = "mark", !.todo = F])
      BY <1>7 DEF Scan
    <2>2. [call[c] EXCEPT !.pc = "mark", !.todo = F] \in CallState
      BY <1>a DEF CallState
    <2>3. QED
      BY <1>7, <2>1, <2>2 DEF Scan, SetCall, TypeOK
  <1>8. ASSUME NEW c \in Client, NEW t \in Task, PassOver(c, t)
        PROVE  TypeOK'
    <2>1. [call[c] EXCEPT !.todo = @ \ {t}] \in CallState
      BY <1>8, <1>a DEF CallState
    <2>2. QED
      BY <1>8, <2>1 DEF PassOver, SetCall, EndCall, TypeOK
  <1>9. ASSUME NEW c \in Client, NEW t \in Task, MarkRead(c, t)
        PROVE  TypeOK'
    <2>1. PICK m \in Meta :
             SetCall(c, [call[c] EXCEPT !.pc = "markPut", !.cur = t,
                                        !.put = OrphanFields(m)])
      BY <1>9, ReadType DEF MarkRead
    <2>2. [call[c] EXCEPT !.pc = "markPut", !.cur = t,
                          !.put = OrphanFields(m)] \in CallState
      BY <1>a, OrphanType DEF CallState
    <2>3. QED
      BY <1>9, <2>1, <2>2 DEF MarkRead, SetCall, TypeOK
  <1>10. ASSUME NEW c \in Client, MarkWrite(c)
         PROVE  TypeOK'
    <2>1. [call[c] EXCEPT !.pc = "mark", !.cur = None, !.put = NoMeta,
                          !.todo = @ \ {call[c].cur}] \in CallState
      BY <1>a, NoMetaType DEF CallState
    <2>2. call[c].put \in Meta
      BY <1>a DEF CallState
    <2>3. QED
      BY <1>10, <2>1, <2>2 DEF MarkWrite, SetCall, TypeOK
  <1>11. ASSUME NEW c \in Client, ScanDone(c)
         PROVE  TypeOK'
    <2>1. NoCall \in CallState
      BY NoMetaType DEF NoCall, CallState
    <2>2. [call[c] EXCEPT !.pc = "check"] \in CallState
      BY <1>a DEF CallState
    <2>3. QED
      BY <1>11, <2>1, <2>2 DEF ScanDone, SetCall, EndCall, TypeOK
  <1>12. ASSUME NEW c \in Client, CheckLocal(c)
         PROVE  TypeOK'
    <2>1. NoCall \in CallState
      BY NoMetaType DEF NoCall, CallState
    <2>2. [call[c] EXCEPT !.pc = "get"] \in CallState
      BY <1>a DEF CallState
    <2>3. QED
      BY <1>12, <2>1, <2>2 DEF CheckLocal, SetCall, EndCall, TypeOK
  <1>13. ASSUME NEW c \in Client, GetStatus(c)
         PROVE  TypeOK'
    <2>1. NoCall \in CallState
      BY NoMetaType DEF NoCall, CallState
    <2>2. [call[c] EXCEPT !.pc = "launch"] \in CallState
      BY <1>a DEF CallState
    <2>3. QED
      BY <1>13, <2>1, <2>2 DEF GetStatus, SetCall, EndCall, TypeOK
  <1>14. ASSUME NEW c \in Client, NEW w \in Worker, Launch(c, w)
         PROVE  TypeOK'
    BY <1>14, NoMetaType DEF Launch, Spawn, SetCall, EndCall, CallShape, Busy,
       CallState, NoCall, WorkerState, FreeWorker, TypeOK
  <1>15. ASSUME NEW c \in Client, CancelRead(c)
         PROVE  TypeOK'
    <2>1. call[c].task \in Task
      BY <1>15 DEF CancelRead, CallShape
    <2>2. PICK m \in Meta :
             SetCall(c, [call[c] EXCEPT !.pc = "cancelPut",
                                        !.put = CancelFields(m)])
      BY <1>15, <2>1, ReadType DEF CancelRead
    <2>3. [call[c] EXCEPT !.pc = "cancelPut",
                          !.put = CancelFields(m)] \in CallState
      BY <1>a, CancelType DEF CallState
    <2>4. QED
      BY <1>15, <2>2, <2>3 DEF CancelRead, SetCall, TypeOK
  <1>16. ASSUME NEW c \in Client, CancelWrite(c)
         PROVE  TypeOK'
    <2>1. [call[c] EXCEPT !.pc = "cancelKill", !.put = NoMeta] \in CallState
      BY <1>a, NoMetaType DEF CallState
    <2>2. call[c].put \in Meta
      BY <1>a DEF CallState
    <2>3. QED
      BY <1>16, <2>1, <2>2 DEF CancelWrite, SetCall, TypeOK
  <1>17. ASSUME NEW c \in Client, CancelKill(c)
         PROVE  TypeOK'
    <2> DEFINE w == running[call[c].proc][call[c].task]
    <2>1. NoCall \in CallState /\ NoBeat \in BeatState
      BY NoMetaType DEF NoCall, CallState, NoBeat, BeatState
    <2>2. call[c].proc \in Proc /\ call[c].task \in Task
      BY <1>17 DEF CancelKill, CallShape, Busy
    <2>3. w \in Worker \cup {None}
      BY <2>2 DEF TypeOK
    <2>4. store' \in [Task -> Meta]
      BY <1>17, <2>3, CutType DEF CancelKill, TypeOK
    <2>5. wk' \in [Worker -> WorkerState]
      BY <1>17, <1>b, <2>3 DEF CancelKill, TypeOK
    <2>6. hb' \in [Worker -> BeatState]
      BY <1>17, <2>1, <2>3 DEF CancelKill, TypeOK
    <2>7. running' \in [Proc -> [Task -> Worker \cup {None}]]
      BY <1>17, <2>2 DEF CancelKill, TypeOK
    <2>8. QED
      BY <1>17, <2>1, <2>4, <2>5, <2>6, <2>7
         DEF CancelKill, SetCall, EndCall, TypeOK
  <1>18. ASSUME NEW c \in Client, CallFault(c)
         PROVE  TypeOK'
    BY <1>18, NoMetaType DEF CallFault, SetCall, EndCall, NoCall, CallState,
       TypeOK
  <1>19. ASSUME NEW w \in Worker, StartRead(w)
         PROVE  TypeOK'
    <2>1. wk[w].task \in Task /\ wk[w].proc \in Proc
      BY <1>19 DEF StartRead, WorkerShape, Live
    <2>2. PICK m \in Meta :
             SetWorker(w, [wk[w] EXCEPT !.pc = "startPut",
                                        !.put = StartFields(m, wk[w].proc)])
      BY <1>19, <2>1, ReadType DEF StartRead
    <2>3. [wk[w] EXCEPT !.pc = "startPut",
                        !.put = StartFields(m, wk[w].proc)] \in WorkerState
      BY <1>a, <2>1, StartType DEF WorkerState
    <2>4. QED
      BY <1>19, <2>2, <2>3 DEF StartRead, SetWorker, TypeOK
  <1>20. ASSUME NEW w \in Worker, StartWrite(w)
         PROVE  TypeOK'
    <2>1. wk[w].task \in Task /\ wk[w].put \in Meta
      BY <1>20, <1>a DEF StartWrite, WorkerShape, Live, WorkerState
    <2>2. [wk[w] EXCEPT !.pc = "exec", !.put = NoMeta] \in WorkerState
      BY <1>a, NoMetaType DEF WorkerState
    <2>3. [NoBeat EXCEPT !.pc = "sleep"] \in BeatState
      BY NoMetaType DEF NoBeat, BeatState
    <2>4. QED
      BY <1>20, <2>1, <2>2, <2>3 DEF StartWrite, SetWorker, TypeOK
  <1>21. ASSUME NEW w \in Worker, NEW e \in Ends, Return(w, e)
         PROVE  TypeOK'
    <2>1. wk' \in [Worker -> WorkerState]
      BY <1>21, ReturnMoves
    <2>2. QED
      BY <1>21, <2>1 DEF Return, TypeOK
  <1>22. ASSUME NEW w \in Worker, EndRead(w)
         PROVE  TypeOK'
    <2>1. wk[w].task \in Task /\ wk[w].end \in Ends
      BY <1>22 DEF EndRead, WorkerShape, Live
    <2>2. PICK m \in Meta :
             SetWorker(w, [wk[w] EXCEPT !.pc = "endPut",
                                        !.put = EndFields(m, wk[w].end)])
      BY <1>22, <2>1, ReadType DEF EndRead
    <2>3. [wk[w] EXCEPT !.pc = "endPut",
                        !.put = EndFields(m, wk[w].end)] \in WorkerState
      BY <1>a, <2>1, EndType DEF WorkerState
    <2>4. QED
      BY <1>22, <2>2, <2>3 DEF EndRead, SetWorker, TypeOK
  <1>23. ASSUME NEW w \in Worker, EndWrite(w)
         PROVE  TypeOK'
    <2>1. wk[w].task \in Task /\ wk[w].put \in Meta
      BY <1>23, <1>a DEF EndWrite, WorkerShape, Live, WorkerState
    <2>2. [wk[w] EXCEPT !.pc = "retire", !.put = NoMeta] \in WorkerState
      BY <1>a, NoMetaType DEF WorkerState
    <2>3. QED
      BY <1>23, <2>1, <2>2 DEF EndWrite, SetWorker, TypeOK
  <1>24. ASSUME NEW w \in Worker, Retire(w)
         PROVE  TypeOK'
    <2>1. wk[w].task \in Task /\ wk[w].proc \in Proc
      BY <1>24 DEF Retire, WorkerShape, Live
    <2>2. store' \in [Task -> Meta]
      BY <1>24, CutType DEF Retire
    <2>3. NoBeat \in BeatState
      BY NoMetaType DEF NoBeat, BeatState
    <2>4. QED
      BY <1>24, <1>b, <2>1, <2>2, <2>3 DEF Retire, SetWorker, TypeOK
  <1>25. ASSUME NEW w \in Worker, WorkerFault(w)
         PROVE  TypeOK'
    <2>1. wk[w].task \in Task /\ wk[w].proc \in Proc
      BY <1>25 DEF WorkerFault, WorkerShape, Live
    <2>2. NoBeat \in BeatState
      BY NoMetaType DEF NoBeat, BeatState
    <2>3. QED
      BY <1>25, <1>b, <2>1, <2>2 DEF WorkerFault, SetWorker, TypeOK
  <1>26. ASSUME NEW w \in Worker, BeatCheck(w)
         PROVE  TypeOK'
    BY <1>26, NoMetaType DEF BeatCheck, SetBeat, NoBeat, BeatState, TypeOK
  <1>27. ASSUME NEW w \in Worker, BeatRead(w)
         PROVE  TypeOK'
    BY <1>27, ReadType, HeartbeatType DEF BeatRead, SetBeat, BeatState,
       WorkerShape, Live, TypeOK
  <1>28. ASSUME NEW w \in Worker, BeatWrite(w)
         PROVE  TypeOK'
    BY <1>28, NoMetaType DEF BeatWrite, SetBeat, NoBeat, BeatState,
       WorkerShape, Live, TypeOK
  <1>29. ASSUME NEW w \in Worker, BeatFault(w)
         PROVE  TypeOK'
    BY <1>29, NoMetaType DEF BeatFault, SetBeat, NoBeat, BeatState, TypeOK
  <1>30. ASSUME NEW p \in Proc, NEW t \in Task, NEW w \in Worker, Dispatch(p, t, w)
         PROVE  TypeOK'
    BY <1>30, NoMetaType, PendingType DEF Dispatch, Spawn, FreeWorker,
       WorkerState, TypeOK
  <1>31. ASSUME NEW p \in Proc, Start(p)
         PROVE  TypeOK'
    BY <1>31 DEF Start, TypeOK
  <1>32. ASSUME NEW p \in Proc, Crash(p)
         PROVE  TypeOK'
    BY <1>32, NoMetaType, CutType DEF Crash, Exit, LiveAt, FreeWorker,
       NoBeat, NoCall, WorkerState, BeatState, CallState, TypeOK
  <1>33. ASSUME NEW p \in Proc, Shutdown(p)
         PROVE  TypeOK'
    <2>1. NoBeat \in BeatState
      BY NoMetaType DEF NoBeat, BeatState
    <2>2. QED
      BY <1>33, <1>b, <2>1, CutType DEF Shutdown, StillRunning, LiveAt, TypeOK
  <1>34. ASSUME NEW p \in Proc, ShutdownDone(p)
         PROVE  TypeOK'
    BY <1>32, <1>34, DoneIsCrash
  <1>35. ASSUME NEW t \in Task, Lapse(t)
         PROVE  TypeOK'
    BY <1>35 DEF Lapse, Meta, TypeOK
  <1>36. CASE UNCHANGED vars
    BY <1>36 DEF vars, TypeOK
  <1>37. QED
    BY <1>1, <1>2, <1>3, <1>4, <1>5, <1>6, <1>7, <1>8, <1>9, <1>10, <1>11,
       <1>12, <1>13, <1>14, <1>15, <1>16, <1>17, <1>18, <1>19, <1>20, <1>21,
       <1>22, <1>23, <1>24, <1>25, <1>26, <1>27, <1>28, <1>29, <1>30, <1>31,
       <1>32, <1>33, <1>34, <1>35, <1>36 DEF Next, BeginCall, Acquire,
       CallStep, WorkerStep, GraphReturns, Beat, vars

\* Every step keeps the calls in shape.
LEMMA CallShapeStep ==
    ASSUME IndInv, [Next]_vars
    PROVE  CallShape'
  <1> USE DEF IndInv, TypeOK, CallState, CallShape, Busy, NoCall
  <1>1. ASSUME NEW c \in Client, NEW p \in Proc, Poll(c, p)
        PROVE  CallShape'
    BY <1>1 DEF Poll, Begin, SetCall, EndCall
  <1>2. ASSUME NEW c \in Client, NEW p \in Proc, NEW t \in Task, Resume(c, p, t)
        PROVE  CallShape'
    BY <1>2 DEF Resume, Begin, SetCall, EndCall
  <1>3. ASSUME NEW c \in Client, NEW p \in Proc, NEW t \in Task, Recover(c, p, t)
        PROVE  CallShape'
    BY <1>3 DEF Recover, Begin, SetCall, EndCall
  <1>4. ASSUME NEW c \in Client, NEW p \in Proc, NEW t \in Task, Cancel(c, p, t)
        PROVE  CallShape'
    BY <1>4 DEF Cancel, Begin, SetCall, EndCall
  <1>5. ASSUME NEW c \in Client, EnterTransition(c)
        PROVE  CallShape'
    BY <1>5 DEF EnterTransition, SetCall, EndCall
  <1>6. ASSUME NEW c \in Client, SkipScan(c)
        PROVE  CallShape'
    BY <1>6 DEF SkipScan, SetCall, EndCall
  <1>7. ASSUME NEW c \in Client, Scan(c)
        PROVE  CallShape'
    BY <1>7 DEF Scan, SetCall, EndCall
  <1>8. ASSUME NEW c \in Client, NEW t \in Task, PassOver(c, t)
        PROVE  CallShape'
    BY <1>8 DEF PassOver, SetCall, EndCall
  <1>9. ASSUME NEW c \in Client, NEW t \in Task, MarkRead(c, t)
        PROVE  CallShape'
    BY <1>9, ReadType, OrphanType DEF MarkRead, SetCall
  <1>10. ASSUME NEW c \in Client, MarkWrite(c)
         PROVE  CallShape'
    BY <1>10 DEF MarkWrite, SetCall, EndCall
  <1>11. ASSUME NEW c \in Client, ScanDone(c)
         PROVE  CallShape'
    <2>1. CASE call[c].op = "poll"
      <3>1. EndCall(c)
        BY <1>11, <2>1 DEF ScanDone
      <3>2. call'[c] = NoCall /\ \A d \in Client \ {c} : call'[d] = call[d]
        BY <3>1, CallEnds
      <3>3. QED
        BY <1>11, <3>2 DEF ScanDone
    <2>2. CASE call[c].op # "poll"
      <3>1. SetCall(c, [call[c] EXCEPT !.pc = "check"])
        BY <1>11, <2>2 DEF ScanDone
      <3>2. /\ call'[c].pc = "check"
            /\ call'[c].op = call[c].op
            /\ call'[c].proc = call[c].proc
            /\ call'[c].task = call[c].task
            /\ \A d \in Client \ {c} : call'[d] = call[d]
        BY <3>1, CallMoves
      <3>3. QED
        BY <1>11, <2>2, <3>2 DEF ScanDone
    <2>3. QED
      BY <2>1, <2>2
  <1>12. ASSUME NEW c \in Client, CheckLocal(c)
         PROVE  CallShape'
    <2>1. CASE HasLocal(call[c].proc, call[c].task)
      <3>1. EndCall(c)
        BY <1>12, <2>1 DEF CheckLocal
      <3>2. call'[c] = NoCall /\ \A d \in Client \ {c} : call'[d] = call[d]
        BY <3>1, CallEnds
      <3>3. QED
        BY <1>12, <3>2 DEF CheckLocal
    <2>2. CASE ~HasLocal(call[c].proc, call[c].task)
      <3>1. SetCall(c, [call[c] EXCEPT !.pc = "get"])
        BY <1>12, <2>2 DEF CheckLocal
      <3>2. /\ call'[c].pc = "get"
            /\ call'[c].op = call[c].op
            /\ call'[c].proc = call[c].proc
            /\ call'[c].task = call[c].task
            /\ \A d \in Client \ {c} : call'[d] = call[d]
        BY <3>1, CallMoves
      <3>3. QED
        BY <1>12, <2>2, <3>2 DEF CheckLocal, HasLocal
    <2>3. QED
      BY <2>1, <2>2
  <1>13. ASSUME NEW c \in Client, GetStatus(c)
         PROVE  CallShape'
    BY <1>13 DEF GetStatus, Wanted, SetCall, EndCall
  <1>14. ASSUME NEW c \in Client, NEW w \in Worker, Launch(c, w)
         PROVE  CallShape'
    BY <1>14 DEF Launch, Spawn, SetCall, EndCall
  <1>15. ASSUME NEW c \in Client, CancelRead(c)
         PROVE  CallShape'
    BY <1>15, ReadType, CancelType DEF CancelRead, SetCall
  <1>16. ASSUME NEW c \in Client, CancelWrite(c)
         PROVE  CallShape'
    BY <1>16 DEF CancelWrite, SetCall, EndCall
  <1>17. ASSUME NEW c \in Client, CancelKill(c)
         PROVE  CallShape'
    BY <1>17 DEF CancelKill, Cancelled, SetCall, EndCall
  <1>18. ASSUME NEW c \in Client, CallFault(c)
         PROVE  CallShape'
    BY <1>18 DEF CallFault, SetCall, EndCall
  <1>19. ASSUME NEW p \in Proc, Crash(p)
         PROVE  CallShape'
    BY <1>19 DEF Crash, Exit
  <1>20. CASE UNCHANGED call
    BY <1>20
  <1>21. QED
    BY DoneIsCrash, <1>1, <1>2, <1>3, <1>4, <1>5, <1>6, <1>7, <1>8, <1>9, <1>10, <1>11,
       <1>12, <1>13, <1>14, <1>15, <1>16, <1>17, <1>18, <1>19, <1>20 DEF Next,
       BeginCall, Acquire, CallStep, WorkerStep, GraphReturns, Beat, vars,
       StartRead, SetWorker, StartWrite, Return, EndRead, EndWrite, Retire,
       WorkerFault, BeatCheck, SetBeat, BeatRead, BeatWrite, BeatFault,
       Dispatch, Spawn, Start, Shutdown, LiveAt, Cancelled, Lapse

\* Every step keeps _transition_lock exclusive.
LEMMA TransitionExclusiveStep ==
    ASSUME IndInv, [Next]_vars
    PROVE  TransitionExclusive'
  <1> USE DEF IndInv, TypeOK, CallState, CallShape, TransitionExclusive,
          HoldsTransition, NoCall
  <1>1. ASSUME NEW c \in Client, NEW p \in Proc, Poll(c, p)
        PROVE  TransitionExclusive'
    BY <1>1 DEF Poll, Begin, SetCall, EndCall
  <1>2. ASSUME NEW c \in Client, NEW p \in Proc, NEW t \in Task, Resume(c, p, t)
        PROVE  TransitionExclusive'
    BY <1>2 DEF Resume, Begin, SetCall, EndCall
  <1>3. ASSUME NEW c \in Client, NEW p \in Proc, NEW t \in Task, Recover(c, p, t)
        PROVE  TransitionExclusive'
    BY <1>3 DEF Recover, Begin, SetCall, EndCall
  <1>4. ASSUME NEW c \in Client, NEW p \in Proc, NEW t \in Task, Cancel(c, p, t)
        PROVE  TransitionExclusive'
    BY <1>4 DEF Cancel, Begin, SetCall, EndCall
  <1>5. ASSUME NEW c \in Client, EnterTransition(c)
        PROVE  TransitionExclusive'
    BY <1>5 DEF EnterTransition, SetCall, EndCall
  <1>6. ASSUME NEW c \in Client, SkipScan(c)
        PROVE  TransitionExclusive'
    BY <1>6 DEF SkipScan, SetCall, EndCall
  <1>7. ASSUME NEW c \in Client, Scan(c)
        PROVE  TransitionExclusive'
    BY <1>7 DEF Scan, SetCall, EndCall
  <1>8. ASSUME NEW c \in Client, NEW t \in Task, PassOver(c, t)
        PROVE  TransitionExclusive'
    BY <1>8 DEF PassOver, SetCall, EndCall
  <1>9. ASSUME NEW c \in Client, NEW t \in Task, MarkRead(c, t)
        PROVE  TransitionExclusive'
    BY <1>9 DEF MarkRead, SetCall, EndCall
  <1>10. ASSUME NEW c \in Client, MarkWrite(c)
         PROVE  TransitionExclusive'
    BY <1>10 DEF MarkWrite, SetCall, EndCall
  <1>11. ASSUME NEW c \in Client, ScanDone(c)
         PROVE  TransitionExclusive'
    <2>1. CASE call[c].op = "poll"
      <3>1. EndCall(c)
        BY <1>11, <2>1 DEF ScanDone
      <3>2. call'[c] = NoCall /\ \A d \in Client \ {c} : call'[d] = call[d]
        BY <3>1, CallEnds
      <3>3. QED
        BY <1>11, <3>2 DEF ScanDone
    <2>2. CASE call[c].op # "poll"
      <3>1. SetCall(c, [call[c] EXCEPT !.pc = "check"])
        BY <1>11, <2>2 DEF ScanDone
      <3>2. /\ call'[c].pc = "check"
            /\ call'[c].op = call[c].op
            /\ call'[c].proc = call[c].proc
            /\ call'[c].task = call[c].task
            /\ \A d \in Client \ {c} : call'[d] = call[d]
        BY <3>1, CallMoves
      <3>3. QED
        BY <1>11, <2>2, <3>2 DEF ScanDone
    <2>3. QED
      BY <2>1, <2>2
  <1>12. ASSUME NEW c \in Client, CheckLocal(c)
         PROVE  TransitionExclusive'
    <2>1. CASE HasLocal(call[c].proc, call[c].task)
      <3>1. EndCall(c)
        BY <1>12, <2>1 DEF CheckLocal
      <3>2. call'[c] = NoCall /\ \A d \in Client \ {c} : call'[d] = call[d]
        BY <3>1, CallEnds
      <3>3. QED
        BY <1>12, <3>2 DEF CheckLocal
    <2>2. CASE ~HasLocal(call[c].proc, call[c].task)
      <3>1. SetCall(c, [call[c] EXCEPT !.pc = "get"])
        BY <1>12, <2>2 DEF CheckLocal
      <3>2. /\ call'[c].pc = "get"
            /\ call'[c].op = call[c].op
            /\ call'[c].proc = call[c].proc
            /\ call'[c].task = call[c].task
            /\ \A d \in Client \ {c} : call'[d] = call[d]
        BY <3>1, CallMoves
      <3>3. QED
        BY <1>12, <2>2, <3>2 DEF CheckLocal, HasLocal
    <2>3. QED
      BY <2>1, <2>2
  <1>13. ASSUME NEW c \in Client, GetStatus(c)
         PROVE  TransitionExclusive'
    BY <1>13 DEF GetStatus, Wanted, SetCall, EndCall
  <1>14. ASSUME NEW c \in Client, NEW w \in Worker, Launch(c, w)
         PROVE  TransitionExclusive'
    BY <1>14 DEF Launch, Spawn, SetCall, EndCall
  <1>15. ASSUME NEW c \in Client, CancelRead(c)
         PROVE  TransitionExclusive'
    BY <1>15 DEF CancelRead, SetCall, EndCall
  <1>16. ASSUME NEW c \in Client, CancelWrite(c)
         PROVE  TransitionExclusive'
    BY <1>16 DEF CancelWrite, SetCall, EndCall
  <1>17. ASSUME NEW c \in Client, CancelKill(c)
         PROVE  TransitionExclusive'
    BY <1>17 DEF CancelKill, Cancelled, SetCall, EndCall
  <1>18. ASSUME NEW c \in Client, CallFault(c)
         PROVE  TransitionExclusive'
    BY <1>18 DEF CallFault, SetCall, EndCall
  <1>19. ASSUME NEW p \in Proc, Crash(p)
         PROVE  TransitionExclusive'
    BY <1>19 DEF Crash, Exit
  <1>20. CASE UNCHANGED call
    BY <1>20
  <1>21. QED
    BY DoneIsCrash, <1>1, <1>2, <1>3, <1>4, <1>5, <1>6, <1>7, <1>8, <1>9, <1>10, <1>11,
       <1>12, <1>13, <1>14, <1>15, <1>16, <1>17, <1>18, <1>19, <1>20 DEF Next,
       BeginCall, Acquire, CallStep, WorkerStep, GraphReturns, Beat, vars,
       StartRead, SetWorker, StartWrite, Return, EndRead, EndWrite, Retire,
       WorkerFault, BeatCheck, SetBeat, BeatRead, BeatWrite, BeatFault,
       Dispatch, Spawn, Start, Shutdown, LiveAt, Cancelled, Lapse

\* No step brings a worker in after the single-flight check.
LEMMA NoNewcomerStep ==
    ASSUME IndInv, [Next]_vars
    PROVE  NoNewcomer'
  <1> USE DEF IndInv, TypeOK, CallState, CallShape, Busy, NoNewcomer, NoCall
  <1>1. ASSUME NEW c \in Client, NEW p \in Proc, Poll(c, p)
        PROVE  NoNewcomer'
    BY <1>1 DEF Poll, Begin, SetCall, EndCall
  <1>2. ASSUME NEW c \in Client, NEW p \in Proc, NEW t \in Task, Resume(c, p, t)
        PROVE  NoNewcomer'
    BY <1>2 DEF Resume, Begin, SetCall, EndCall
  <1>3. ASSUME NEW c \in Client, NEW p \in Proc, NEW t \in Task, Recover(c, p, t)
        PROVE  NoNewcomer'
    BY <1>3 DEF Recover, Begin, SetCall, EndCall
  <1>4. ASSUME NEW c \in Client, NEW p \in Proc, NEW t \in Task, Cancel(c, p, t)
        PROVE  NoNewcomer'
    BY <1>4 DEF Cancel, Begin, SetCall, EndCall
  <1>5. ASSUME NEW c \in Client, EnterTransition(c)
        PROVE  NoNewcomer'
    BY <1>5 DEF EnterTransition, SetCall, EndCall
  <1>6. ASSUME NEW c \in Client, SkipScan(c)
        PROVE  NoNewcomer'
    BY <1>6 DEF SkipScan, SetCall, EndCall
  <1>7. ASSUME NEW c \in Client, Scan(c)
        PROVE  NoNewcomer'
    BY <1>7 DEF Scan, SetCall, EndCall
  <1>8. ASSUME NEW c \in Client, NEW t \in Task, PassOver(c, t)
        PROVE  NoNewcomer'
    BY <1>8 DEF PassOver, SetCall, EndCall
  <1>9. ASSUME NEW c \in Client, NEW t \in Task, MarkRead(c, t)
        PROVE  NoNewcomer'
    BY <1>9 DEF MarkRead, SetCall, EndCall
  <1>10. ASSUME NEW c \in Client, MarkWrite(c)
         PROVE  NoNewcomer'
    BY <1>10 DEF MarkWrite, SetCall, EndCall
  <1>11. ASSUME NEW c \in Client, ScanDone(c)
         PROVE  NoNewcomer'
    <2>1. CASE call[c].op = "poll"
      <3>1. EndCall(c)
        BY <1>11, <2>1 DEF ScanDone
      <3>2. call'[c] = NoCall /\ \A d \in Client \ {c} : call'[d] = call[d]
        BY <3>1, CallEnds
      <3>3. QED
        BY <1>11, <3>2 DEF ScanDone
    <2>2. CASE call[c].op # "poll"
      <3>1. SetCall(c, [call[c] EXCEPT !.pc = "check"])
        BY <1>11, <2>2 DEF ScanDone
      <3>2. /\ call'[c].pc = "check"
            /\ call'[c].op = call[c].op
            /\ call'[c].proc = call[c].proc
            /\ call'[c].task = call[c].task
            /\ \A d \in Client \ {c} : call'[d] = call[d]
        BY <3>1, CallMoves
      <3>3. QED
        BY <1>11, <2>2, <3>2 DEF ScanDone
    <2>3. QED
      BY <2>1, <2>2
  <1>12. ASSUME NEW c \in Client, CheckLocal(c)
         PROVE  NoNewcomer'
    <2>1. CASE HasLocal(call[c].proc, call[c].task)
      <3>1. EndCall(c)
        BY <1>12, <2>1 DEF CheckLocal
      <3>2. call'[c] = NoCall /\ \A d \in Client \ {c} : call'[d] = call[d]
        BY <3>1, CallEnds
      <3>3. QED
        BY <1>12, <3>2 DEF CheckLocal
    <2>2. CASE ~HasLocal(call[c].proc, call[c].task)
      <3>1. SetCall(c, [call[c] EXCEPT !.pc = "get"])
        BY <1>12, <2>2 DEF CheckLocal
      <3>2. /\ call'[c].pc = "get"
            /\ call'[c].op = call[c].op
            /\ call'[c].proc = call[c].proc
            /\ call'[c].task = call[c].task
            /\ \A d \in Client \ {c} : call'[d] = call[d]
        BY <3>1, CallMoves
      <3>3. QED
        BY <1>12, <2>2, <3>2 DEF CheckLocal, HasLocal
    <2>3. QED
      BY <2>1, <2>2
  <1>13. ASSUME NEW c \in Client, GetStatus(c)
         PROVE  NoNewcomer'
    BY <1>13 DEF GetStatus, Wanted, SetCall, EndCall
  <1>14. ASSUME NEW c \in Client, NEW w \in Worker, Launch(c, w)
         PROVE  NoNewcomer'
    BY <1>14 DEF Launch, Spawn, SetCall, EndCall, TransitionExclusive,
       HoldsTransition
  <1>15. ASSUME NEW c \in Client, CancelRead(c)
         PROVE  NoNewcomer'
    BY <1>15 DEF CancelRead, SetCall, EndCall
  <1>16. ASSUME NEW c \in Client, CancelWrite(c)
         PROVE  NoNewcomer'
    BY <1>16 DEF CancelWrite, SetCall, EndCall
  <1>17. ASSUME NEW c \in Client, CancelKill(c)
         PROVE  NoNewcomer'
    BY <1>17 DEF CancelKill, Cancelled, SetCall, EndCall
  <1>18. ASSUME NEW c \in Client, CallFault(c)
         PROVE  NoNewcomer'
    BY <1>18 DEF CallFault, SetCall, EndCall
  <1>19. ASSUME NEW p \in Proc, NEW t \in Task, NEW w \in Worker, Dispatch(p, t, w)
         PROVE  NoNewcomer'
    BY <1>19 DEF Dispatch, Spawn
  <1>20. ASSUME NEW w \in Worker, Retire(w)
         PROVE  NoNewcomer'
    BY <1>20 DEF Retire, SetWorker
  <1>21. ASSUME NEW w \in Worker, WorkerFault(w)
         PROVE  NoNewcomer'
    BY <1>21 DEF WorkerFault, SetWorker
  <1>22. ASSUME NEW p \in Proc, Crash(p)
         PROVE  NoNewcomer'
    BY <1>22 DEF Crash, Exit, LiveAt
  <1>23. ASSUME NEW p \in Proc, Shutdown(p)
         PROVE  NoNewcomer'
    <2>1. \A q \in Proc, t \in Task : running[q][t] = None => running'[q][t] = None
      BY <1>23 DEF Shutdown, StillRunning
    <2>2. call' = call
      BY <1>23 DEF Shutdown
    <2>3. QED
      BY <2>1, <2>2 DEF CallShape, Busy
  <1>24. CASE UNCHANGED <<call, running>>
    BY <1>24
  <1>25. QED
    BY DoneIsCrash, <1>1, <1>2, <1>3, <1>4, <1>5, <1>6, <1>7, <1>8, <1>9, <1>10, <1>11,
       <1>12, <1>13, <1>14, <1>15, <1>16, <1>17, <1>18, <1>19, <1>20, <1>21,
       <1>22, <1>23, <1>24 DEF Next, BeginCall, Acquire, CallStep, WorkerStep,
       GraphReturns, Beat, vars, StartRead, SetWorker, StartWrite, Return,
       EndRead, EndWrite, BeatCheck, SetBeat, BeatRead, BeatWrite, BeatFault,
       Start, Lapse

\* Every step keeps workers and heartbeats in shape.
LEMMA WorkerShapeStep ==
    ASSUME IndInv, [Next]_vars
    PROVE  WorkerShape'
  <1> USE DEF IndInv, TypeOK, WorkerState, BeatState, WorkerShape, Live,
          FreeWorker, NoBeat
  <1>1. ASSUME NEW c \in Client, NEW w \in Worker, Launch(c, w)
        PROVE  WorkerShape'
    BY <1>1 DEF Launch, Spawn, CallShape, Busy, Ends
  <1>2. ASSUME NEW c \in Client, CancelKill(c)
        PROVE  WorkerShape'
    <2> DEFINE w == running[call[c].proc][call[c].task]
    <2>1. CASE w = None
      BY <1>2, <2>1 DEF CancelKill
    <2>2. CASE w # None
      <3>1. call[c].proc \in Proc /\ call[c].task \in Task
        BY <1>2 DEF CancelKill, CallShape, Busy
      <3>2. w \in Worker
        BY <2>2, <3>1
      <3>3. /\ wk' = [wk EXCEPT ![w] = Cancelled(w)]
            /\ hb' = IF wk[w].pc = "exec" THEN hb
                                          ELSE [hb EXCEPT ![w] = NoBeat]
        BY <1>2, <2>2 DEF CancelKill
      <3>4. \/ /\ wk[w].pc # "exec"
               /\ wk'[w] = FreeWorker
            \/ /\ wk[w].pc = "exec"
               /\ wk'[w].pc = "endSnap"
               /\ wk'[w].end = "cancelled"
               /\ wk'[w].proc = wk[w].proc
               /\ wk'[w].task = wk[w].task
        BY <3>2, <3>3, CancelledShape
      <3>5. \A v \in Worker \ {w} : wk'[v] = wk[v] /\ hb'[v] = hb[v]
        BY <3>2, <3>3
      <3>6. hb'[w] = IF wk[w].pc = "exec" THEN hb[w] ELSE NoBeat
        BY <3>2, <3>3
      <3> HIDE DEF w
      <3>7. ASSUME NEW v \in Worker, v # w
            PROVE  wk'[v] = wk[v] /\ hb'[v] = hb[v]
        BY <3>5, <3>7
      <3>8. CASE wk[w].pc # "exec"
        <4>1. wk'[w] = FreeWorker /\ hb'[w] = NoBeat
          BY <3>4, <3>6, <3>8
        <4>2. QED
          BY <3>2, <3>7, <4>1 DEF Ends
      <3>9. CASE wk[w].pc = "exec"
        <4>1. hb'[w] = hb[w] /\ wk'[w].pc = "endSnap"
              /\ wk'[w].end = "cancelled"
              /\ wk'[w].proc = wk[w].proc /\ wk'[w].task = wk[w].task
          BY <3>4, <3>6, <3>9
        <4>2. QED
          BY <3>2, <3>7, <3>9, <4>1 DEF Ends
      <3>10. QED
        BY <3>8, <3>9
    <2>3. QED
      BY <2>1, <2>2
  <1>3. ASSUME NEW w \in Worker, StartRead(w)
        PROVE  WorkerShape'
    BY <1>3, ReadType, StartType DEF StartRead, SetWorker
  <1>4. ASSUME NEW w \in Worker, StartWrite(w)
        PROVE  WorkerShape'
    BY <1>4 DEF StartWrite, SetWorker, Ends
  <1>5. ASSUME NEW w \in Worker, NEW e \in Ends, Return(w, e)
        PROVE  WorkerShape'
    <2>1. /\ wk[w].pc = "exec" /\ wk'[w].pc = "endSnap"
          /\ wk'[w].end \in Ends
          /\ wk'[w].proc = wk[w].proc /\ wk'[w].task = wk[w].task
          /\ \A u \in Worker \ {w} : wk'[u] = wk[u]
      BY <1>5, ReturnMoves
    <2>2. hb' = hb
      BY <1>5 DEF Return
    <2>3. QED
      BY <2>1, <2>2
  <1>6. ASSUME NEW w \in Worker, EndRead(w)
        PROVE  WorkerShape'
    BY <1>6, ReadType, EndType DEF EndRead, SetWorker
  <1>7. ASSUME NEW w \in Worker, EndWrite(w)
        PROVE  WorkerShape'
    BY <1>7 DEF EndWrite, SetWorker, Ends
  <1>8. ASSUME NEW w \in Worker, Retire(w)
        PROVE  WorkerShape'
    BY <1>8 DEF Retire, SetWorker, Ends
  <1>9. ASSUME NEW w \in Worker, WorkerFault(w)
        PROVE  WorkerShape'
    BY <1>9 DEF WorkerFault, SetWorker, Ends
  <1>10. ASSUME NEW w \in Worker, BeatCheck(w)
         PROVE  WorkerShape'
    BY <1>10 DEF BeatCheck, SetBeat
  <1>11. ASSUME NEW w \in Worker, BeatRead(w)
         PROVE  WorkerShape'
    BY <1>11, ReadType, HeartbeatType DEF BeatRead, SetBeat
  <1>12. ASSUME NEW w \in Worker, BeatWrite(w)
         PROVE  WorkerShape'
    BY <1>12 DEF BeatWrite, SetBeat
  <1>13. ASSUME NEW w \in Worker, BeatFault(w)
         PROVE  WorkerShape'
    BY <1>13 DEF BeatFault, SetBeat
  <1>14. ASSUME NEW p \in Proc, NEW t \in Task, NEW w \in Worker, Dispatch(p, t, w)
         PROVE  WorkerShape'
    BY <1>14 DEF Dispatch, Spawn, Ends
  <1>15. ASSUME NEW p \in Proc, Crash(p)
         PROVE  WorkerShape'
    BY <1>15 DEF Crash, Exit, LiveAt, Ends
  <1>16. ASSUME NEW p \in Proc, Shutdown(p)
         PROVE  WorkerShape'
    <2>1. ASSUME NEW w \in LiveAt(p)
          PROVE  /\ hb'[w] = NoBeat
                 /\ \/ wk'[w] = FreeWorker
                    \/ /\ wk'[w].pc = "endSnap"
                       /\ wk'[w].end = "cancelled"
                       /\ wk'[w].proc = wk[w].proc
                       /\ wk'[w].task = wk[w].task
      <3>1. w \in Worker /\ hb'[w] = NoBeat /\ wk'[w] = Cancelled(w)
        BY <1>16, <2>1 DEF Shutdown, LiveAt
      <3>2. QED
        BY <3>1, CancelledShape
    <2>2. \A w \in Worker \ LiveAt(p) : wk'[w] = wk[w] /\ hb'[w] = hb[w]
      BY <1>16 DEF Shutdown
    <2>3. QED
      BY <2>1, <2>2 DEF LiveAt, Ends
  <1>17. CASE UNCHANGED <<wk, hb>>
    BY <1>17
  <1>18. QED
    BY DoneIsCrash, <1>1, <1>2, <1>3, <1>4, <1>5, <1>6, <1>7, <1>8, <1>9, <1>10, <1>11,
       <1>12, <1>13, <1>14, <1>15, <1>16, <1>17 DEF Next, BeginCall, Acquire,
       CallStep, WorkerStep, GraphReturns, Beat, vars, Poll, Begin, SetCall,
       EndCall, Resume, Recover, Cancel, EnterTransition, SkipScan, Scan,
       PassOver, MarkRead, MarkWrite, ScanDone, CheckLocal, HasLocal,
       GetStatus, Wanted, CancelRead, CancelWrite, CallFault, Start, Lapse

\* No step takes a record away.
LEMMA RecordsStay ==
    ASSUME IndInv, [Next]_vars
    PROVE  \A r \in Task : store[r].status # "none"
                              => store'[r].status # "none"
  <1> USE DEF IndInv, TypeOK
  <1>1. ASSUME NEW c \in Client, MarkWrite(c)
        PROVE  \A r \in Task : store[r].status # "none"
                              => store'[r].status # "none"
    <2>1. call[c].cur \in Task /\ call[c].put.status # "none"
      BY <1>1 DEF MarkWrite, CallShape
    <2>2. QED
      BY <1>1, <2>1 DEF MarkWrite
  <1>2. ASSUME NEW c \in Client, CancelWrite(c)
        PROVE  \A r \in Task : store[r].status # "none"
                              => store'[r].status # "none"
    <2>1. call[c].task \in Task /\ call[c].put.status # "none"
      BY <1>2 DEF CancelWrite, CallShape
    <2>2. QED
      BY <1>2, <2>1 DEF CancelWrite
  <1>3. ASSUME NEW c \in Client, CancelKill(c)
        PROVE  \A r \in Task : store[r].status # "none"
                              => store'[r].status # "none"
    <2> DEFINE w == running[call[c].proc][call[c].task]
    <2>1. CASE w = None
      BY <1>3, <2>1 DEF CancelKill
    <2>2. CASE w # None
      <3>1. w \in Worker
        BY <1>3, <2>2 DEF CancelKill, CallShape, Busy
      <3>2. store' = store \/ store' \in StoreAfterCut({w}, {})
        BY <1>3, <2>2 DEF CancelKill
      <3>3. QED
        BY <3>1, <3>2, CutType
    <2>3. QED
      BY <2>1, <2>2
  <1>4. ASSUME NEW w \in Worker, StartWrite(w)
        PROVE  \A r \in Task : store[r].status # "none"
                              => store'[r].status # "none"
    <2>1. wk[w].task \in Task /\ wk[w].put.status # "none"
      BY <1>4 DEF StartWrite, WorkerShape, Live
    <2>2. QED
      BY <1>4, <2>1 DEF StartWrite
  <1>5. ASSUME NEW w \in Worker, EndWrite(w)
        PROVE  \A r \in Task : store[r].status # "none"
                              => store'[r].status # "none"
    <2>1. wk[w].task \in Task /\ wk[w].put.status # "none"
      BY <1>5 DEF EndWrite, WorkerShape, Live
    <2>2. QED
      BY <1>5, <2>1 DEF EndWrite
  <1>6. ASSUME NEW w \in Worker, Retire(w)
        PROVE  \A r \in Task : store[r].status # "none"
                              => store'[r].status # "none"
    <2>1. store' \in StoreAfterCut({w}, {})
      BY <1>6 DEF Retire
    <2>2. QED
      BY <2>1, CutType
  <1>7. ASSUME NEW w \in Worker, BeatWrite(w)
        PROVE  \A r \in Task : store[r].status # "none"
                              => store'[r].status # "none"
    <2>1. wk[w].task \in Task /\ hb[w].put.status # "none"
      BY <1>7 DEF BeatWrite, WorkerShape
    <2>2. QED
      BY <1>7, <2>1 DEF BeatWrite
  <1>8. ASSUME NEW p \in Proc, NEW t \in Task, NEW w \in Worker, Dispatch(p, t, w)
        PROVE  \A r \in Task : store[r].status # "none"
                              => store'[r].status # "none"
    BY <1>8, PendingType DEF Dispatch
  <1>9. ASSUME NEW p \in Proc, Crash(p)
        PROVE  \A r \in Task : store[r].status # "none"
                              => store'[r].status # "none"
    <2>1. LiveAt(p) \in SUBSET Worker
      BY DEF LiveAt
    <2>2. store' \in StoreAfterCut(LiveAt(p), {c \in Client : call[c].proc = p})
      BY <1>9 DEF Crash, Exit
    <2>3. QED
      BY <2>1, <2>2, CutType
  <1>10. ASSUME NEW p \in Proc, Shutdown(p)
         PROVE  \A r \in Task : store[r].status # "none"
                              => store'[r].status # "none"
    <2>1. LiveAt(p) \in SUBSET Worker
      BY DEF LiveAt
    <2>2. store' \in StoreAfterCut(LiveAt(p), {})
      BY <1>10 DEF Shutdown
    <2>3. QED
      BY <2>1, <2>2, CutType
  <1>11. ASSUME NEW t \in Task, Lapse(t)
         PROVE  \A r \in Task : store[r].status # "none"
                              => store'[r].status # "none"
    BY <1>11 DEF Lapse, Meta
  <1>12. CASE UNCHANGED store
    BY <1>12
  <1>13. QED
    BY DoneIsCrash, <1>1, <1>2, <1>3, <1>4, <1>5, <1>6, <1>7, <1>8, <1>9, <1>10, <1>11,
       <1>12 DEF Next, BeginCall, Acquire, CallStep, WorkerStep, GraphReturns,
       Beat, vars, Poll, Begin, SetCall, EndCall, Resume, Recover, Cancel,
       EnterTransition, SkipScan, Scan, PassOver, MarkRead, ScanDone,
       CheckLocal, HasLocal, GetStatus, Wanted, Launch, Spawn, CancelRead,
       CallFault, StartRead, SetWorker, Return, EndRead, WorkerFault,
       BeatCheck, SetBeat, BeatRead, BeatFault, Start

\* A worker on its task as before, or one just made.
OldOrNew(u) ==
    \/ /\ Live(u)
       /\ wk'[u].task = wk[u].task
    \/ \E c \in Client : Launch(c, u)
    \/ \E p \in Proc, t \in Task : Dispatch(p, t, u)

\* Only Launch and Dispatch make a worker.
LEMMA OldWorkers ==
    ASSUME IndInv, [Next]_vars
    PROVE  \A u \in Worker : Live(u)' => OldOrNew(u)
  <1> USE DEF IndInv, TypeOK, WorkerState, Live, FreeWorker,
              OldOrNew
  <1>1. ASSUME NEW c \in Client, NEW w \in Worker, Launch(c, w)
        PROVE  \A u \in Worker : Live(u)' => OldOrNew(u)
    BY <1>1 DEF Launch, Spawn
  <1>2. ASSUME NEW c \in Client, CancelKill(c)
        PROVE  \A u \in Worker : Live(u)' => OldOrNew(u)
    <2> DEFINE w == running[call[c].proc][call[c].task]
    <2>1. CASE w = None
      BY <1>2, <2>1 DEF CancelKill
    <2>2. CASE w # None
      <3>1. w \in Worker
        BY <1>2, <2>2 DEF CancelKill, CallShape, Busy
      <3>2. wk' = [wk EXCEPT ![w] = Cancelled(w)]
        BY <1>2, <2>2 DEF CancelKill
      <3>3. \A v \in Worker \ {w} : wk'[v] = wk[v]
        BY <3>1, <3>2
      <3>4. wk'[w].pc # "free" => /\ wk'[w].task = wk[w].task
                                 /\ wk[w].pc # "free"
        BY <3>1, <3>2, CancelledShape
      <3> HIDE DEF w
      <3>5. QED
        BY <3>1, <3>3, <3>4
    <2>3. QED
      BY <2>1, <2>2
  <1>3. ASSUME NEW w \in Worker, StartRead(w)
        PROVE  \A u \in Worker : Live(u)' => OldOrNew(u)
    BY <1>3 DEF StartRead, SetWorker
  <1>4. ASSUME NEW w \in Worker, StartWrite(w)
        PROVE  \A u \in Worker : Live(u)' => OldOrNew(u)
    BY <1>4 DEF StartWrite, SetWorker
  <1>5. ASSUME NEW w \in Worker, NEW e \in Ends, Return(w, e)
        PROVE  \A u \in Worker : Live(u)' => OldOrNew(u)
    <2>1. /\ wk[w].pc = "exec" /\ wk'[w].pc = "endSnap"
          /\ wk'[w].end \in Ends
          /\ wk'[w].proc = wk[w].proc /\ wk'[w].task = wk[w].task
          /\ \A u \in Worker \ {w} : wk'[u] = wk[u]
      BY <1>5, ReturnMoves
    <2>2. hb' = hb
      BY <1>5 DEF Return
    <2>3. QED
      BY <2>1, <2>2
  <1>6. ASSUME NEW w \in Worker, EndRead(w)
        PROVE  \A u \in Worker : Live(u)' => OldOrNew(u)
    BY <1>6 DEF EndRead, SetWorker
  <1>7. ASSUME NEW w \in Worker, EndWrite(w)
        PROVE  \A u \in Worker : Live(u)' => OldOrNew(u)
    BY <1>7 DEF EndWrite, SetWorker
  <1>8. ASSUME NEW w \in Worker, Retire(w)
        PROVE  \A u \in Worker : Live(u)' => OldOrNew(u)
    BY <1>8 DEF Retire, SetWorker
  <1>9. ASSUME NEW w \in Worker, WorkerFault(w)
        PROVE  \A u \in Worker : Live(u)' => OldOrNew(u)
    BY <1>9 DEF WorkerFault, SetWorker
  <1>10. ASSUME NEW p \in Proc, NEW t \in Task, NEW w \in Worker, Dispatch(p, t, w)
         PROVE  \A u \in Worker : Live(u)' => OldOrNew(u)
    BY <1>10 DEF Dispatch, Spawn
  <1>11. ASSUME NEW p \in Proc, Crash(p)
         PROVE  \A u \in Worker : Live(u)' => OldOrNew(u)
    BY <1>11 DEF Crash, Exit, LiveAt, Live
  <1>12. ASSUME NEW p \in Proc, Shutdown(p)
         PROVE  \A u \in Worker : Live(u)' => OldOrNew(u)
    <2>1. \A w \in Worker : wk'[w] = wk[w] \/ wk'[w] = Cancelled(w)
      BY <1>12 DEF Shutdown
    <2>2. QED
      BY <2>1, CancelledShape
  <1>13. CASE UNCHANGED wk
    BY <1>13
  <1>14. QED
    BY DoneIsCrash, <1>1, <1>2, <1>3, <1>4, <1>5, <1>6, <1>7, <1>8, <1>9, <1>10, <1>11,
       <1>12, <1>13 DEF Next, BeginCall, Acquire, CallStep, WorkerStep,
       GraphReturns, Beat, vars, Poll, Begin, SetCall, EndCall, Resume,
       Recover, Cancel, EnterTransition, SkipScan, Scan, PassOver, MarkRead,
       MarkWrite, ScanDone, CheckLocal, HasLocal, GetStatus, Wanted,
       CancelRead, CancelWrite, CallFault, BeatCheck, SetBeat, BeatRead,
       BeatWrite, BeatFault, Start, Lapse

\* Only GetStatus brings a call to the point of launching.
LEMMA OldLaunches ==
    ASSUME IndInv, [Next]_vars
    PROVE  \A d \in Client : call'[d].pc = "launch" =>
                \/ /\ call[d].pc = "launch"
                   /\ call'[d].task = call[d].task
                \/ GetStatus(d)
  <1> USE DEF IndInv, TypeOK, CallState
  <1>1. ASSUME NEW c \in Client, NEW p \in Proc, Poll(c, p)
        PROVE  \A d \in Client : call'[d].pc = "launch" =>
                \/ /\ call[d].pc = "launch"
                   /\ call'[d].task = call[d].task
                \/ GetStatus(d)
    BY <1>1 DEF Poll, Begin, SetCall, NoCall
  <1>2. ASSUME NEW c \in Client, NEW p \in Proc, NEW t \in Task, Resume(c, p, t)
        PROVE  \A d \in Client : call'[d].pc = "launch" =>
                \/ /\ call[d].pc = "launch"
                   /\ call'[d].task = call[d].task
                \/ GetStatus(d)
    BY <1>2 DEF Resume, Begin, SetCall, NoCall
  <1>3. ASSUME NEW c \in Client, NEW p \in Proc, NEW t \in Task, Recover(c, p, t)
        PROVE  \A d \in Client : call'[d].pc = "launch" =>
                \/ /\ call[d].pc = "launch"
                   /\ call'[d].task = call[d].task
                \/ GetStatus(d)
    BY <1>3 DEF Recover, Begin, SetCall, NoCall
  <1>4. ASSUME NEW c \in Client, NEW p \in Proc, NEW t \in Task, Cancel(c, p, t)
        PROVE  \A d \in Client : call'[d].pc = "launch" =>
                \/ /\ call[d].pc = "launch"
                   /\ call'[d].task = call[d].task
                \/ GetStatus(d)
    BY <1>4 DEF Cancel, Begin, SetCall, NoCall
  <1>5. ASSUME NEW c \in Client, EnterTransition(c)
        PROVE  \A d \in Client : call'[d].pc = "launch" =>
                \/ /\ call[d].pc = "launch"
                   /\ call'[d].task = call[d].task
                \/ GetStatus(d)
    BY <1>5 DEF EnterTransition, SetCall
  <1>6. ASSUME NEW c \in Client, SkipScan(c)
        PROVE  \A d \in Client : call'[d].pc = "launch" =>
                \/ /\ call[d].pc = "launch"
                   /\ call'[d].task = call[d].task
                \/ GetStatus(d)
    BY <1>6 DEF SkipScan, SetCall
  <1>7. ASSUME NEW c \in Client, Scan(c)
        PROVE  \A d \in Client : call'[d].pc = "launch" =>
                \/ /\ call[d].pc = "launch"
                   /\ call'[d].task = call[d].task
                \/ GetStatus(d)
    BY <1>7 DEF Scan, SetCall
  <1>8. ASSUME NEW c \in Client, NEW t \in Task, PassOver(c, t)
        PROVE  \A d \in Client : call'[d].pc = "launch" =>
                \/ /\ call[d].pc = "launch"
                   /\ call'[d].task = call[d].task
                \/ GetStatus(d)
    BY <1>8 DEF PassOver, SetCall
  <1>9. ASSUME NEW c \in Client, NEW t \in Task, MarkRead(c, t)
        PROVE  \A d \in Client : call'[d].pc = "launch" =>
                \/ /\ call[d].pc = "launch"
                   /\ call'[d].task = call[d].task
                \/ GetStatus(d)
    BY <1>9 DEF MarkRead, SetCall
  <1>10. ASSUME NEW c \in Client, MarkWrite(c)
         PROVE  \A d \in Client : call'[d].pc = "launch" =>
                \/ /\ call[d].pc = "launch"
                   /\ call'[d].task = call[d].task
                \/ GetStatus(d)
    BY <1>10 DEF MarkWrite, SetCall
  <1>11. ASSUME NEW c \in Client, ScanDone(c)
         PROVE  \A d \in Client : call'[d].pc = "launch" =>
                \/ /\ call[d].pc = "launch"
                   /\ call'[d].task = call[d].task
                \/ GetStatus(d)
    <2>1. \/ EndCall(c)
          \/ SetCall(c, [call[c] EXCEPT !.pc = "check"])
      BY <1>11 DEF ScanDone
    <2>2. CASE EndCall(c)
      <3>1. call'[c] = NoCall /\ \A d \in Client \ {c} : call'[d] = call[d]
        BY <2>2, CallEnds
      <3>2. QED
        BY <3>1 DEF NoCall
    <2>3. CASE SetCall(c, [call[c] EXCEPT !.pc = "check"])
      <3>1. /\ call'[c].pc = "check"
            /\ \A d \in Client \ {c} : call'[d] = call[d]
        BY <2>3, CallMoves
      <3>2. QED
        BY <3>1
    <2>4. QED
      BY <2>1, <2>2, <2>3
  <1>12. ASSUME NEW c \in Client, CheckLocal(c)
         PROVE  \A d \in Client : call'[d].pc = "launch" =>
                \/ /\ call[d].pc = "launch"
                   /\ call'[d].task = call[d].task
                \/ GetStatus(d)
    <2>1. \/ EndCall(c)
          \/ SetCall(c, [call[c] EXCEPT !.pc = "get"])
      BY <1>12 DEF CheckLocal
    <2>2. CASE EndCall(c)
      <3>1. call'[c] = NoCall /\ \A d \in Client \ {c} : call'[d] = call[d]
        BY <2>2, CallEnds
      <3>2. QED
        BY <3>1 DEF NoCall
    <2>3. CASE SetCall(c, [call[c] EXCEPT !.pc = "get"])
      <3>1. /\ call'[c].pc = "get"
            /\ \A d \in Client \ {c} : call'[d] = call[d]
        BY <2>3, CallMoves
      <3>2. QED
        BY <3>1
    <2>4. QED
      BY <2>1, <2>2, <2>3
  <1>13. ASSUME NEW c \in Client, GetStatus(c)
         PROVE  \A d \in Client : call'[d].pc = "launch" =>
                \/ /\ call[d].pc = "launch"
                   /\ call'[d].task = call[d].task
                \/ GetStatus(d)
    <2>1. ASSUME NEW d \in Client, call'[d].pc = "launch"
          PROVE  \/ /\ call[d].pc = "launch"
                    /\ call'[d].task = call[d].task
                 \/ GetStatus(d)
      <3>1. CASE d = c
        BY <1>13, <3>1
      <3>2. CASE d # c
        BY <1>13, <2>1, <3>2 DEF GetStatus, SetCall, EndCall
      <3>3. QED
        BY <3>1, <3>2
    <2>2. QED
      BY <2>1
  <1>14. ASSUME NEW c \in Client, NEW w \in Worker, Launch(c, w)
         PROVE  \A d \in Client : call'[d].pc = "launch" =>
                \/ /\ call[d].pc = "launch"
                   /\ call'[d].task = call[d].task
                \/ GetStatus(d)
    <2>1. EndCall(c)
      BY <1>14 DEF Launch
    <2>2. call'[c] = NoCall /\ \A d \in Client \ {c} : call'[d] = call[d]
      BY <2>1, CallEnds
    <2>3. QED
      BY <2>2 DEF NoCall
  <1>15. ASSUME NEW c \in Client, CancelRead(c)
         PROVE  \A d \in Client : call'[d].pc = "launch" =>
                \/ /\ call[d].pc = "launch"
                   /\ call'[d].task = call[d].task
                \/ GetStatus(d)
    BY <1>15 DEF CancelRead, SetCall
  <1>16. ASSUME NEW c \in Client, CancelWrite(c)
         PROVE  \A d \in Client : call'[d].pc = "launch" =>
                \/ /\ call[d].pc = "launch"
                   /\ call'[d].task = call[d].task
                \/ GetStatus(d)
    BY <1>16 DEF CancelWrite, SetCall
  <1>17. ASSUME NEW c \in Client, CancelKill(c)
         PROVE  \A d \in Client : call'[d].pc = "launch" =>
                \/ /\ call[d].pc = "launch"
                   /\ call'[d].task = call[d].task
                \/ GetStatus(d)
    <2>1. EndCall(c)
      BY <1>17 DEF CancelKill
    <2>2. call'[c] = NoCall /\ \A d \in Client \ {c} : call'[d] = call[d]
      BY <2>1, CallEnds
    <2>3. QED
      BY <2>2 DEF NoCall
  <1>18. ASSUME NEW c \in Client, CallFault(c)
         PROVE  \A d \in Client : call'[d].pc = "launch" =>
                \/ /\ call[d].pc = "launch"
                   /\ call'[d].task = call[d].task
                \/ GetStatus(d)
    <2>1. EndCall(c)
      BY <1>18 DEF CallFault
    <2>2. call'[c] = NoCall /\ \A d \in Client \ {c} : call'[d] = call[d]
      BY <2>1, CallEnds
    <2>3. QED
      BY <2>2 DEF NoCall
  <1>19. ASSUME NEW p \in Proc, Crash(p)
         PROVE  \A d \in Client : call'[d].pc = "launch" =>
                \/ /\ call[d].pc = "launch"
                   /\ call'[d].task = call[d].task
                \/ GetStatus(d)
    BY <1>19 DEF Crash, Exit, NoCall
  <1>20. CASE UNCHANGED call
    BY <1>20
  <1>21. QED
    BY DoneIsCrash, <1>1, <1>2, <1>3, <1>4, <1>5, <1>6, <1>7, <1>8, <1>9, <1>10, <1>11,
       <1>12, <1>13, <1>14, <1>15, <1>16, <1>17, <1>18, <1>19, <1>20 DEF Next,
       BeginCall, Acquire, CallStep, WorkerStep, GraphReturns, Beat, vars,
       StartRead, SetWorker, StartWrite, Return, EndRead, EndWrite, Retire,
       WorkerFault, BeatCheck, SetBeat, BeatRead, BeatWrite, BeatFault,
       Dispatch, Spawn, Start, Shutdown, LiveAt, Cancelled, Lapse

\* Every step keeps a record for every task somebody works on.
LEMMA RecordedStep ==
    ASSUME IndInv, [Next]_vars
    PROVE  Recorded'
  <1> USE DEF IndInv
  <1>1. ASSUME NEW w \in Worker, Live(w)'
        PROVE  store'[wk'[w].task].status # "none"
    <2>1. CASE Live(w) /\ wk'[w].task = wk[w].task
      BY <2>1, RecordsStay DEF Recorded, WorkerShape
    <2>2. ASSUME NEW c \in Client, Launch(c, w)
          PROVE  store'[wk'[w].task].status # "none"
      <3>1. /\ call[c].pc = "launch"
            /\ wk'[w].task = call[c].task
            /\ call[c].task \in Task
        BY <2>2 DEF Launch, Spawn, TypeOK, CallShape, FreeWorker
      <3>2. QED
        BY <3>1, RecordsStay DEF Recorded
    <2>3. ASSUME NEW p \in Proc, NEW t \in Task, Dispatch(p, t, w)
          PROVE  store'[wk'[w].task].status # "none"
      <3>1. wk'[w].task = t
        BY <2>3 DEF Dispatch, Spawn, TypeOK, FreeWorker
      <3>2. store'[t] = PendingFields(p)
        BY <2>3 DEF Dispatch, TypeOK
      <3>3. QED
        BY <3>1, <3>2, PendingType
    <2>4. QED
      BY <1>1, <2>1, <2>2, <2>3, OldWorkers DEF OldOrNew
  <1>2. ASSUME NEW c \in Client, call'[c].pc = "launch"
        PROVE  store'[call'[c].task].status # "none"
    <2>1. CASE call[c].pc = "launch" /\ call'[c].task = call[c].task
      BY <2>1, RecordsStay DEF Recorded, CallShape
    <2>2. CASE GetStatus(c)
      <3>1. call[c].task \in Task
        BY <2>2 DEF GetStatus, CallShape
      <3>2. PICK m \in ReadMeta(call[c].task) :
               /\ m.status = Wanted(c)
               /\ SetCall(c, [call[c] EXCEPT !.pc = "launch"])
        BY <1>2, <2>2 DEF GetStatus, EndCall, SetCall, NoCall, TypeOK
      <3>3. m = store[call[c].task]
        BY <3>2, NoMetaType DEF ReadMeta, Wanted
      <3>4. call'[c].task = call[c].task
        BY <3>2, CallMoves
      <3>5. store' = store /\ store[call[c].task].status # "none"
        BY <2>2, <3>2, <3>3 DEF GetStatus, Wanted
      <3>6. QED
        BY <3>4, <3>5
    <2>3. QED
      BY <1>2, <2>1, <2>2, OldLaunches
  <1>3. QED
    BY <1>1, <1>2 DEF Recorded

\* Every step keeps every uncancelled worker within reach of _running.
LEMMA WorkerReachableStep ==
    ASSUME IndInv, [Next]_vars
    PROVE  WorkerReachable'
  <1> USE DEF IndInv, TypeOK, WorkerState, WorkerReachable, Live, FreeWorker
  <1>1. ASSUME NEW c \in Client, NEW w \in Worker, Launch(c, w)
        PROVE  WorkerReachable'
    <2>1. /\ call[c].task \in Task /\ call[c].proc \in Proc
          /\ running[call[c].proc][call[c].task] = None
      BY <1>1 DEF Launch, CallShape, NoNewcomer, Busy
    <2>2. /\ wk'[w].proc = call[c].proc /\ wk'[w].task = call[c].task
          /\ \A u \in Worker \ {w} : wk'[u] = wk[u]
      BY <1>1 DEF Launch, Spawn
    <2>3. /\ running'[call[c].proc][call[c].task] = w
          /\ \A q \in Proc, r \in Task :
                running'[q][r] = IF q = call[c].proc /\ r = call[c].task
                                 THEN w ELSE running[q][r]
      BY <1>1, <2>1 DEF Launch, Spawn
    <2>4. ASSUME NEW u \in Worker, u # w, wk[u].pc # "free",
                 wk[u].end # "cancelled"
          PROVE  running'[wk[u].proc][wk[u].task] = u
      <3>1. /\ wk[u].proc \in Proc /\ wk[u].task \in Task
            /\ running[wk[u].proc][wk[u].task] = u
        BY <2>4 DEF WorkerShape
      <3>2. u # None
        BY NoneAssumption
      <3>3. QED
        BY <2>1, <2>3, <3>1, <3>2
    <2>5. QED
      BY <2>2, <2>3, <2>4
  <1>2. ASSUME NEW c \in Client, CancelKill(c)
        PROVE  WorkerReachable'
    <2> DEFINE p == call[c].proc
               t == call[c].task
               w == running[p][t]
    <2>1. p \in Proc /\ t \in Task /\ w \in Worker \cup {None}
      BY <1>2 DEF CancelKill, CallShape, Busy
    <2>2. \A q \in Proc, r \in Task :
             running'[q][r] = IF q = p /\ r = t THEN None ELSE running[q][r]
      BY <1>2, <2>1 DEF CancelKill
    <2>3. w # None => wk' = [wk EXCEPT ![w] = Cancelled(w)]
      BY <1>2 DEF CancelKill
    <2>4. w = None => wk' = wk
      BY <1>2 DEF CancelKill
    <2>5. w = running[p][t]
      OBVIOUS
    <2> HIDE DEF w, p, t
    <2>6. ASSUME NEW u \in Worker, wk'[u].pc # "free",
                 wk'[u].end # "cancelled"
          PROVE  running'[wk'[u].proc][wk'[u].task] = u
      <3>1. u # w
        <4>1. ASSUME u = w
              PROVE  FALSE
          <5>1. w \in Worker /\ wk'[w] = Cancelled(w)
            BY <2>3, <4>1, NoneAssumption
          <5>2. QED
            BY <2>6, <4>1, <5>1, CancelledShape
        <4>2. QED
          BY <4>1
      <3>2. wk'[u] = wk[u]
        BY <2>1, <2>3, <2>4, <3>1
      <3>3. /\ wk[u].proc \in Proc /\ wk[u].task \in Task
            /\ running[wk[u].proc][wk[u].task] = u
        BY <2>6, <3>2 DEF WorkerShape
      <3>4. QED
        BY <2>2, <2>5, <3>1, <3>2, <3>3
    <2>7. QED
      BY <2>6
  <1>3. ASSUME NEW w \in Worker, StartRead(w)
        PROVE  WorkerReachable'
    BY <1>3 DEF StartRead, SetWorker
  <1>4. ASSUME NEW w \in Worker, StartWrite(w)
        PROVE  WorkerReachable'
    BY <1>4 DEF StartWrite, SetWorker
  <1>5. ASSUME NEW w \in Worker, NEW e \in Ends, Return(w, e)
        PROVE  WorkerReachable'
    <2>1. /\ wk'[w].proc = wk[w].proc /\ wk'[w].task = wk[w].task
          /\ wk[w].pc = "exec"
          /\ \A u \in Worker \ {w} : wk'[u] = wk[u]
      BY <1>5, ReturnMoves
    <2>2. running' = running
      BY <1>5 DEF Return
    <2>3. wk[w].end # "cancelled"
      BY <2>1 DEF WorkerShape, Ends
    <2>4. QED
      BY <2>1, <2>2, <2>3
  <1>6. ASSUME NEW w \in Worker, EndRead(w)
        PROVE  WorkerReachable'
    BY <1>6 DEF EndRead, SetWorker
  <1>7. ASSUME NEW w \in Worker, EndWrite(w)
        PROVE  WorkerReachable'
    BY <1>7 DEF EndWrite, SetWorker
  <1>8. ASSUME NEW w \in Worker, Retire(w)
        PROVE  WorkerReachable'
    BY <1>8 DEF Retire, SetWorker
  <1>9. ASSUME NEW w \in Worker, WorkerFault(w)
        PROVE  WorkerReachable'
    BY <1>9 DEF WorkerFault, SetWorker
  <1>10. ASSUME NEW p \in Proc, NEW t \in Task, NEW w \in Worker, Dispatch(p, t, w)
         PROVE  WorkerReachable'
    <2>1. store[t].status = "none"
      BY <1>10 DEF Dispatch, NoMeta
    <2>2. /\ wk'[w].proc = p /\ wk'[w].task = t
          /\ \A u \in Worker \ {w} : wk'[u] = wk[u]
      BY <1>10 DEF Dispatch, Spawn
    <2>3. \A q \in Proc, r \in Task :
             running'[q][r] = IF q = p /\ r = t THEN w ELSE running[q][r]
      BY <1>10 DEF Dispatch, Spawn
    <2>4. ASSUME NEW u \in Worker, u # w, wk[u].pc # "free",
                 wk[u].end # "cancelled"
          PROVE  running'[wk[u].proc][wk[u].task] = u
      <3>1. /\ wk[u].proc \in Proc /\ wk[u].task \in Task
            /\ running[wk[u].proc][wk[u].task] = u
            /\ store[wk[u].task].status # "none"
        BY <2>4 DEF WorkerShape, Recorded
      <3>2. wk[u].task # t
        BY <2>1, <3>1
      <3>3. QED
        BY <2>3, <3>1, <3>2
    <2>5. QED
      BY <2>2, <2>3, <2>4
  <1>11. ASSUME NEW p \in Proc, Crash(p)
         PROVE  WorkerReachable'
    BY <1>11 DEF Crash, Exit, LiveAt
  <1>12. ASSUME NEW p \in Proc, Shutdown(p)
         PROVE  WorkerReachable'
    <2>1. ASSUME NEW u \in Worker, wk'[u].pc # "free",
                 wk'[u].end # "cancelled"
          PROVE  running'[wk'[u].proc][wk'[u].task] = u
      <3>1. u \notin LiveAt(p)
        BY <1>12, <2>1, CancelledShape DEF Shutdown
      <3>2. wk'[u] = wk[u]
        BY <1>12, <3>1 DEF Shutdown
      <3>3. /\ wk[u].proc \in Proc /\ wk[u].task \in Task
            /\ running[wk[u].proc][wk[u].task] = u
            /\ wk[u].proc # p
        BY <2>1, <3>1, <3>2 DEF WorkerShape, LiveAt
      <3>4. running'[wk[u].proc] = running[wk[u].proc]
        BY <1>12, <3>3 DEF Shutdown, StillRunning
      <3>5. QED
        BY <3>2, <3>3, <3>4
    <2>2. QED
      BY <2>1
  <1>13. CASE UNCHANGED <<wk, running>>
    BY <1>13
  <1>14. QED
    BY DoneIsCrash, <1>1, <1>2, <1>3, <1>4, <1>5, <1>6, <1>7, <1>8, <1>9, <1>10, <1>11,
       <1>12, <1>13 DEF Next, BeginCall, Acquire, CallStep, WorkerStep,
       GraphReturns, Beat, vars, Poll, Begin, SetCall, EndCall, Resume,
       Recover, Cancel, EnterTransition, SkipScan, Scan, PassOver, MarkRead,
       MarkWrite, ScanDone, CheckLocal, HasLocal, GetStatus, Wanted,
       CancelRead, CancelWrite, CallFault, BeatCheck, SetBeat, BeatRead,
       BeatWrite, BeatFault, Start, Lapse

\* IndInv is inductive.
LEMMA Inductive == IndInv /\ [Next]_vars => IndInv'
  BY TypeOKStep, CallShapeStep, WorkerShapeStep, TransitionExclusiveStep,
     NoNewcomerStep, RecordedStep, WorkerReachableStep DEF IndInv

\* The inductive invariant of the supervisor: what single flight rests on
\* (locks, the check before create_task, the shape of calls and workers).
THEOREM IndInvHolds == Spec => []IndInv
  <1>1. Init => IndInv
    BY InitInd
  <1>2. IndInv /\ [Next]_vars => IndInv'
    BY Inductive
  <1>3. QED
    BY <1>1, <1>2, PTL DEF Spec

\* Type correctness: every record, worker, heartbeat and call the supervisor
\* keeps stays well formed, whatever the interleaving.
THEOREM TypeCorrect == Spec => []TypeOK
  <1>1. IndInv => TypeOK
    BY DEF IndInv
  <1>2. QED
    BY <1>1, IndInvHolds, PTL

\* A process can always reach the workers it runs: cancel, shutdown and the
\* single-flight check of resume and recover all go through _running, so no
\* uncancelled worker is ever missing from it.
THEOREM Reachability == Spec => []WorkerReachable
  <1>1. IndInv => WorkerReachable
    BY DEF IndInv
  <1>2. QED
    BY <1>1, IndInvHolds, PTL

\* Within a process, two workers that have not been cancelled never share a task.
SingleFlight ==
    \A v, w \in Worker :
        /\ Live(v) /\ wk[v].end # "cancelled"
        /\ Live(w) /\ wk[w].end # "cancelled"
        /\ wk[v].proc = wk[w].proc /\ wk[v].task = wk[w].task
        => v = w

\* It follows: _running has one place for each task.
LEMMA SingleFlightHolds == Spec => []SingleFlight
  <1>1. WorkerReachable => SingleFlight
    <2> SUFFICES ASSUME WorkerReachable,
                        NEW v \in Worker, NEW w \in Worker,
                        Live(v), wk[v].end # "cancelled",
                        Live(w), wk[w].end # "cancelled",
                        wk[v].proc = wk[w].proc, wk[v].task = wk[w].task
                 PROVE  v = w
      BY DEF SingleFlight
    <2>1. /\ running[wk[v].proc][wk[v].task] = v
          /\ running[wk[w].proc][wk[w].task] = w
      BY DEF WorkerReachable
    <2>2. QED
      BY <2>1
  <1>2. QED
    BY <1>1, Reachability, PTL

-------------------------------------------------------------------------------
(* One server at a time.                                                       *)

\* Servers do not overlap, and workers and calls belong to one that runs.
OneServer ==
    /\ \A p, q \in Proc : Serving(p) /\ Serving(q) => p = q
    /\ \A w \in Worker : Live(w) => Serving(wk[w].proc)
    /\ \A c \in Client : Busy(c) => Serving(call[c].proc)

-------------------------------------------------------------------------------
(* One server at a time whose workers renew in time, over a sound store: at    *)
(* most one worker is alive on a task, and as long as it is, the record of the *)
(* task is its own.                                                            *)

Sound == SingleServer /\ Punctual /\ ~StoreFaults

AtWork == {"exec", "endSnap", "endPut", "retire"}

\* A worker that a shutdown has cancelled: its handle is still there and nothing
\* renews its lease any more (a call of cancel leaves it the other way round).
Stopping(w) ==
    /\ wk[w].end = "cancelled" /\ hb[w].pc = "off"
    /\ running[wk[w].proc][wk[w].task] = w

\* What the record of a task says while worker w is at work on it, and what w
\* has for it on its way to the store.
Own(w, m) ==
    /\ m.status # "orphaned"
    /\ m.recov => m.status = "interrupted"
    /\ m.status = "interrupted" => wk[w].pc = "retire" /\ wk[w].end = "interrupted"
    /\ m.status \in Active => m.status = "running" /\ m.owner = wk[w].proc

\* A worker that has not started finds its record as the call left it; one at
\* work renews the lease of an active record until it ends.
WorkerFine(w) ==
    LET t == wk[w].task
        m == store[t] IN
    /\ wk[w].pc \in {"spawned", "startPut"} =>
           /\ m.status \in Active => m.lease = "fresh"
           /\ wk[w].mode = "reply" => ckpt[t] = "asking"
    /\ wk[w].pc = "startPut" =>
           /\ wk[w].put.status = "running" /\ wk[w].put.owner = wk[w].proc
           /\ wk[w].put.lease = "fresh" /\ ~wk[w].put.recov
    /\ hb[w].pc # "off" => wk[w].pc \in AtWork
    /\ wk[w].pc \in AtWork =>
           /\ Own(w, m)
           /\ m.status \in Active => Stopping(w) \/ (hb[w].pc # "off" /\ m.lease = "fresh")
           /\ hb[w].pc = "write" => Own(w, hb[w].put) /\ hb[w].put.lease = "fresh"
           /\ wk[w].end = "interrupted" => ckpt[t] = "asking"
    /\ wk[w].pc = "endPut" =>
           /\ wk[w].put.status = EndStatus(wk[w].end)
           /\ wk[w].put.recov => wk[w].end = "interrupted"
           /\ wk[w].put.lease = "none"

Alone == \A v, w \in Worker : Live(v) /\ Live(w) /\ wk[v].task = wk[w].task => v = w
Unworked(t) == \A w \in Worker : Live(w) => wk[w].task # t
Given(t) == \A w \in Worker : Live(w) /\ wk[w].task = t => Stopping(w)

\* What a call is about to mark has no valid lease, and no worker but one that a
\* shutdown has cancelled; the record it has read has none, and neither has what a
\* call is about to launch, which asks when it is to be answered.
CallFine(c) ==
    /\ call[c].pc \in {"mark", "markPut"} => \A t \in call[c].todo :
           /\ store[t].status \in Active \cup {"cancelled"} /\ store[t].lease # "fresh"
           /\ Given(t)
    /\ call[c].pc = "markPut" =>
           /\ call[c].cur \in call[c].todo /\ call[c].put.status = "orphaned"
           /\ Unworked(call[c].cur)
    /\ call[c].pc = "cancelPut" =>
           /\ call[c].put.status = "cancelled" /\ ~call[c].put.recov
           /\ call[c].put.lease = "none"
    /\ call[c].pc = "launch" =>
           /\ store[call[c].task].status \in {"interrupted", "orphaned", "cancelled"}
           /\ Unworked(call[c].task)
           /\ call[c].op = "resume" => ckpt[call[c].task] = "asking"

\* One call marks at a time, and none what another is about to launch.
Marks(c, t) == call[c].pc \in {"mark", "markPut"} /\ t \in call[c].todo
Apart == \A c, d \in Client :
    /\ HoldsRecovery(c) /\ HoldsRecovery(d) => c = d
    /\ call[d].pc = "launch" => ~Marks(c, call[d].task)

\* The record of a task says interrupted only when its graph asks.
TaskFine(t) ==
    /\ store[t].recov => store[t].status \in {"pending", "interrupted", "orphaned"}
    /\ store[t].status = "interrupted" => ckpt[t] = "asking"

SoundInv ==
    /\ Alone /\ Apart
    /\ \A w \in Worker : WorkerFine(w)
    /\ \A c \in Client : CallFine(c)
    /\ \A t \in Task : TaskFine(t)

\* A call that goes on stays in its process; a new one is made where one is up.
LEMMA CallProcs ==
    ASSUME IndInv, [Next]_vars
    PROVE  \A d \in Client : Busy(d)' =>
              \/ Busy(d) /\ call'[d].proc = call[d].proc
              \/ Serving(call'[d].proc) /\ up' = up
<1> USE DEF IndInv, TypeOK, Busy
<1> DEFINE P == \A d \in Client : Busy(d)' =>
              \/ Busy(d) /\ call'[d].proc = call[d].proc
              \/ Serving(call'[d].proc) /\ up' = up
<1>1. ASSUME NEW c \in Client, BeginCall(c)
      PROVE  P
  <2>1. PICK p \in Proc, op \in {"poll", "resume", "recover", "cancel"},
            t \in Task \cup {None}, pc \in {"rlock", "tlock", "cancelSnap"} :
                Begin(c, p, op, t, pc)
    BY <1>1 DEF BeginCall, Poll, Resume, Recover, Cancel
  <2> DEFINE r == [NoCall EXCEPT !.pc = pc, !.op = op, !.proc = p, !.task = t]
  <2>2. r.proc = p /\ call' = [call EXCEPT ![c] = r] /\ Serving(p) /\ up' = up
    BY <2>1 DEF Begin, SetCall, NoCall
  <2> HIDE DEF r
  <2> QED  BY <2>2
<1>2. ASSUME NEW c \in Client, NEW r, call' = [call EXCEPT ![c] = r],
             r = NoCall \/ (Busy(c) /\ r.proc = call[c].proc)
      PROVE  P
  BY <1>2 DEF NoCall
<1>3. ASSUME NEW c \in Client, NEW pc, Busy(c), SetCall(c, [call[c] EXCEPT !.pc = pc])
      PROVE  P
  BY <1>2, <1>3 DEF SetCall, CallState
<1>4. ASSUME NEW c \in Client, EndCall(c)
      PROVE  P
  BY <1>2, <1>4 DEF SetCall, EndCall
<1>5. ASSUME NEW c \in Client, Acquire(c) \/ CallStep(c)
      PROVE  P
  <2>1. CASE EnterTransition(c) \/ SkipScan(c)
    BY <1>3, <2>1 DEF EnterTransition, SkipScan
  <2>2. CASE Scan(c)
    BY <1>2, <2>2 DEF Scan, SetCall, CallState
  <2>3. CASE \E t \in Task : PassOver(c, t) \/ MarkRead(c, t)
    BY <1>2, <2>3 DEF PassOver, MarkRead, SetCall, CallState
  <2>4. CASE MarkWrite(c)
    BY <1>2, <2>4 DEF MarkWrite, SetCall, CallState
  <2>5. CASE ScanDone(c) \/ CheckLocal(c) \/ GetStatus(c)
    BY <1>3, <1>4, <2>5 DEF ScanDone, CheckLocal, GetStatus
  <2>6. CASE CancelRead(c) \/ CancelWrite(c)
    BY <1>2, <2>6 DEF CancelRead, CancelWrite, SetCall, CallState
  <2>7. CASE (\E w \in Worker : Launch(c, w)) \/ CancelKill(c) \/ CallFault(c)
    BY <1>4, <2>7 DEF Launch, CancelKill, CallFault
  <2> QED  BY <1>5, <2>1, <2>2, <2>3, <2>4, <2>5, <2>6, <2>7 DEF Acquire, CallStep
<1>6. CASE \E p \in Proc : Crash(p)
  BY <1>6 DEF Crash, Exit, NoCall
<1>7. CASE UNCHANGED call
  BY <1>7
<1> QED
  BY DoneIsCrash, <1>1, <1>5, <1>6, <1>7
     DEF Next, vars, WorkerStep, GraphReturns, Beat, StartRead, StartWrite, Return, EndRead,
         EndWrite, Retire, WorkerFault, BeatCheck, BeatRead, BeatWrite, BeatFault, Dispatch,
         Start, Shutdown, Lapse

\* A worker that goes on stays in its process; a new one is made where one is up.
LEMMA WorkerProcs ==
    ASSUME IndInv, OneServer, [Next]_vars
    PROVE  \A w \in Worker : Live(w)' =>
              \/ Live(w) /\ wk'[w].proc = wk[w].proc
              \/ Serving(wk'[w].proc) /\ up' = up
<1> USE DEF IndInv, TypeOK, Live
<1> DEFINE P == \A w \in Worker : Live(w)' =>
              \/ Live(w) /\ wk'[w].proc = wk[w].proc
              \/ Serving(wk'[w].proc) /\ up' = up
<1>1. ASSUME NEW c \in Client, NEW w \in Worker, Launch(c, w)
      PROVE  P
  BY <1>1 DEF Launch, Spawn, OneServer, Busy, FreeWorker
<1>2. ASSUME NEW p \in Proc, NEW t \in Task, NEW w \in Worker, Dispatch(p, t, w)
      PROVE  P
  BY <1>2 DEF Dispatch, Spawn, FreeWorker
<1>3. ASSUME NEW w \in Worker, NEW r, SetWorker(w, r),
             r = FreeWorker \/ (Live(w) /\ r.proc = wk[w].proc)
      PROVE  P
  BY <1>3 DEF SetWorker, FreeWorker
<1>4. ASSUME NEW c \in Client, CancelKill(c)
      PROVE  P
  <2> DEFINE w == running[call[c].proc][call[c].task]
  <2>1. CASE w = None
    BY <1>4, <2>1 DEF CancelKill
  <2>2. CASE w # None
    <3>1. w \in Worker /\ wk' = [wk EXCEPT ![w] = Cancelled(w)]
      BY <1>4, <2>2 DEF CancelKill, CallShape, Busy
    <3>2. Cancelled(w) = FreeWorker \/ (Live(w) /\ Cancelled(w).proc = wk[w].proc)
      BY <3>1, CancelledShape
    <3> HIDE DEF w
    <3> QED  BY <1>3, <3>1, <3>2 DEF SetWorker
  <2> QED  BY <2>1, <2>2
<1>5. ASSUME NEW w \in Worker, WorkerStep(w)
      PROVE  P
  <2>1. CASE StartRead(w) \/ StartWrite(w) \/ EndRead(w) \/ EndWrite(w)
    BY <1>3, <2>1 DEF StartRead, StartWrite, EndRead, EndWrite, SetWorker, WorkerState
  <2>2. CASE Retire(w) \/ WorkerFault(w)
    BY <1>3, <2>2 DEF Retire, WorkerFault
  <2> QED  BY <1>5, <2>1, <2>2 DEF WorkerStep
<1>6. ASSUME NEW w \in Worker, NEW e \in Ends, Return(w, e)
      PROVE  P
  BY <1>6, ReturnMoves
<1>7. ASSUME NEW p \in Proc, Crash(p)
      PROVE  P
  BY <1>7 DEF Crash, Exit, FreeWorker
<1>8. ASSUME NEW p \in Proc, Shutdown(p)
      PROVE  P
  BY <1>8, CancelledShape DEF Shutdown, FreeWorker
<1>9. CASE UNCHANGED wk
  BY <1>9
<1> QED
  BY DoneIsCrash, <1>1, <1>2, <1>4, <1>5, <1>6, <1>7, <1>8, <1>9
     DEF Next, vars, BeginCall, Poll, Resume, Recover, Cancel, Begin, Acquire, CallStep,
         EnterTransition, Scan, SkipScan, PassOver, MarkRead, MarkWrite, ScanDone, CheckLocal,
         GetStatus, CancelRead, CancelWrite, CallFault, GraphReturns, Beat, BeatCheck, BeatRead,
         BeatWrite, BeatFault, Start, Lapse

\* Servers that run one after the other never overlap.
LEMMA OneServerStep ==
    ASSUME SingleServer, IndInv, OneServer, [Next]_vars
    PROVE  OneServer'
<1> USE DEF IndInv, TypeOK
<1>1. CASE up' = up
  BY <1>1, CallProcs, WorkerProcs DEF OneServer, Serving
<1>2. ASSUME NEW p \in Proc, Start(p)
      PROVE  OneServer'
  BY <1>2 DEF Start, OneServer, Serving, Live, Busy
<1>3. ASSUME NEW p \in Proc, Crash(p)
      PROVE  OneServer'
  BY <1>3 DEF Crash, Exit, OneServer, Serving, Live, LiveAt, Busy, NoCall, FreeWorker
<1>4. ASSUME NEW p \in Proc, Shutdown(p)
      PROVE  OneServer'
  <2>1. up' = [up EXCEPT ![p] = "stopping"] /\ up[p] = "up" /\ call' = call
    BY <1>4 DEF Shutdown
  <2>2. \A w \in Worker : Live(w)' => Live(w) /\ wk'[w].proc = wk[w].proc
    BY <1>4, CancelledShape DEF Shutdown, Live, FreeWorker
  <2> QED  BY <2>1, <2>2 DEF OneServer, Serving, Busy
<1>5. ASSUME NEW p \in Proc, ShutdownDone(p)
      PROVE  OneServer'
  BY <1>3, <1>5, DoneIsCrash
<1> QED
  BY <1>1, <1>2, <1>3, <1>4, <1>5
     DEF Next, vars, BeginCall, Poll, Resume, Recover, Cancel, Begin, Acquire, CallStep,
         EnterTransition, Scan, SkipScan, PassOver, MarkRead, MarkWrite, ScanDone, CheckLocal,
         GetStatus, Launch, Dispatch, CancelRead, CancelWrite, CancelKill, CallFault,
         WorkerStep, StartRead, StartWrite, Return, EndRead, EndWrite, Retire, WorkerFault,
         GraphReturns, Beat, BeatCheck, BeatRead, BeatWrite, BeatFault, Lapse

-------------------------------------------------------------------------------
(* What a step leaves alone. *)

\* A worker whose own state, task and process are left alone stays fine.
LEMMA WorkerKept ==
    ASSUME NEW w \in Worker, WorkerFine(w), wk'[w] = wk[w], hb'[w] = hb[w],
           Live(w) => /\ store'[wk[w].task] = store[wk[w].task]
                      /\ ckpt'[wk[w].task] = ckpt[wk[w].task]
                      /\ Stopping(w) => Stopping(w)'
    PROVE  WorkerFine(w)'
<1>1. CASE Live(w)
  BY <1>1 DEF WorkerFine, Own
<1>2. CASE ~Live(w)
  BY <1>2 DEF WorkerFine, Live, AtWork
<1> QED  BY <1>1, <1>2

\* A free worker is fine.
LEMMA WorkerFreed ==
    ASSUME NEW w \in Worker, wk'[w] = FreeWorker, hb'[w].pc = "off"
    PROVE  WorkerFine(w)' /\ ~Live(w)'
BY DEF WorkerFine, FreeWorker, AtWork, Live

\* What may happen to a record that a call is about to mark.
KeptForMark(t) ==
    \/ store'[t] = store[t]
    \/ store'[t].status = "cancelled" /\ store'[t].lease # "fresh"

\* A call that is left alone, with the tasks it has in hand, stays fine.
LEMMA CallKept ==
    ASSUME TypeOK, CallShape, NEW d \in Client, CallFine(d), call'[d] = call[d],
           \A t \in Task : Marks(d, t) =>
               KeptForMark(t) /\ Given(t)' /\ (Unworked(t) => Unworked(t)'),
           \A t \in Task : call[d].pc = "launch" /\ call[d].task = t =>
               store'[t] = store[t] /\ ckpt'[t] = ckpt[t] /\ Unworked(t)'
    PROVE  CallFine(d)'
<1>1. call[d].pc = "launch" => call[d].task \in Task
  BY DEF CallShape
<1>2. call[d].todo \subseteq Task
  BY DEF TypeOK, CallState
<1>3. call[d].pc \in {"mark", "markPut"} => \A t \in call[d].todo :
          /\ store'[t].status \in Active \cup {"cancelled"} /\ store'[t].lease # "fresh"
          /\ Given(t)'
  BY <1>2 DEF CallFine, Marks, KeptForMark
<1>4. call[d].pc = "markPut" => Unworked(call[d].cur)'
  BY <1>2 DEF CallFine, Marks
<1>5. call[d].pc = "launch" => Unworked(call[d].task)'
  BY <1>1 DEF CallFine
<1> QED  BY <1>1, <1>2, <1>3, <1>4, <1>5 DEF CallFine

\* A call that has ended is fine.
LEMMA CallEnded ==
    ASSUME NEW d \in Client, call'[d] = NoCall
    PROVE  CallFine(d)'
BY DEF CallFine, NoCall

\* A step of one call in its own state.
LEMMA CallFrame ==
    ASSUME IndInv, SoundInv, NEW c \in Client, NEW r, SetCall(c, r),
           UNCHANGED <<store, ckpt, running, wk, hb>>,
           CallFine(c)',
           r.pc \in {"mark", "markPut"} =>
               \/ HoldsRecovery(c) /\ r.todo \subseteq call[c].todo
               \/ /\ \A d \in Client : ~HoldsRecovery(d)
                  /\ \A d \in Client : call[d].pc = "launch" => call[d].task \notin r.todo,
           r.pc = "launch" => \A d \in Client : ~Marks(d, r.task)
    PROVE  SoundInv'
<1> USE DEF IndInv, SoundInv
<1>1. call'[c] = r /\ \A d \in Client \ {c} : call'[d] = call[d]
  BY DEF SetCall, TypeOK
<1>2. \A w \in Worker : WorkerFine(w)'
  BY WorkerKept DEF Stopping
<1>3. \A d \in Client : CallFine(d)'
  <2>1. \A t \in Task : (Given(t) => Given(t)') /\ (Unworked(t) => Unworked(t)')
    BY DEF Given, Unworked, Stopping, Live
  <2>2. \A d \in Client \ {c} : CallFine(d)'
    BY <1>1, <2>1, CallKept DEF CallFine, Marks, KeptForMark
  <2> QED  BY <2>2
<1>4. Alone' /\ \A t \in Task : TaskFine(t)'
  BY DEF Live, Alone, TaskFine
<1>5. Apart'
  BY <1>1 DEF Apart, Marks, HoldsRecovery
<1> QED  BY <1>2, <1>3, <1>4, <1>5


\* A step in the state of one worker and in the record of its task; calls may end.
LEMMA WorkerFrame ==
    ASSUME IndInv, SoundInv, NEW w \in Worker,
           \A u \in Worker \ {w} : wk'[u] = wk[u] /\ hb'[u] = hb[u],
           \/ wk'[w] = FreeWorker
           \/ Live(w) /\ wk'[w].task = wk[w].task /\ wk'[w].proc = wk[w].proc,
           \/ running' = running
           \/ \A u \in Worker \ {w} : Live(u) /\ Stopping(u) => Stopping(u)',
           Stopping(w) => \/ wk'[w] = FreeWorker
                          \/ Stopping(w)',
           Stopping(w) => \A t \in Task : KeptForMark(t),
           Live(w) \/ UNCHANGED <<store, ckpt>>,
           \A t \in Task : t # wk[w].task => store'[t] = store[t] /\ ckpt'[t] = ckpt[t],
           \A d \in Client : call'[d] = call[d] \/ call'[d] = NoCall,
           WorkerFine(w)',
           \A t \in Task : t = wk[w].task => TaskFine(t)'
    PROVE  SoundInv'
<1> USE DEF IndInv, SoundInv
<1>0. \A u \in Worker \ {w} : Live(u) /\ Stopping(u) => Stopping(u)'
  BY DEF Stopping
<1>1. \A u \in Worker \ {w} : WorkerFine(u)'
  <2> SUFFICES ASSUME NEW u \in Worker \ {w} PROVE WorkerFine(u)'
    OBVIOUS
  <2>1. Live(u) => wk[u].task \in Task
    BY DEF WorkerShape
  <2>2. Live(u) /\ Live(w) => wk[u].task # wk[w].task
    BY DEF Alone
  <2> QED  BY <1>0, <2>1, <2>2, WorkerKept
<1>2. \A t \in Task : Unworked(t) => store'[t] = store[t] /\ ckpt'[t] = ckpt[t] /\ Unworked(t)'
  BY DEF Unworked, Live, FreeWorker
<1>4. \A t \in Task : Given(t) => KeptForMark(t) /\ Given(t)'
  <2> SUFFICES ASSUME NEW t \in Task, Given(t) PROVE KeptForMark(t) /\ Given(t)'
    OBVIOUS
  <2>1. \A u \in Worker \ {w} : Live(u) /\ wk[u].task = t => Stopping(u)'
    BY <1>0 DEF Given
  <2>2. Live(w) /\ wk[w].task = t => Stopping(w)
    BY DEF Given
  <2>3. KeptForMark(t)
    BY <2>2 DEF KeptForMark
  <2>4. Live(w)' /\ wk'[w].task = t => Stopping(w)'
    BY <2>2 DEF Live, FreeWorker
  <2> QED  BY <2>1, <2>3, <2>4 DEF Given, Live
<1>3. \A d \in Client : CallFine(d)'
  <2> SUFFICES ASSUME NEW d \in Client, call'[d] = call[d] PROVE CallFine(d)'
    BY CallEnded
  <2>1. \A t \in Task : call[d].pc = "launch" /\ call[d].task = t => Unworked(t)
    BY DEF CallFine
  <2>2. \A t \in Task : Marks(d, t) => Given(t)
    BY DEF CallFine, Marks
  <2> QED  BY <1>2, <1>4, <2>1, <2>2, CallKept
<1>5. Alone'
  BY DEF Alone, Live, FreeWorker
<1>6. Apart'
  BY DEF Apart, Marks, HoldsRecovery, NoCall
<1>7. \A t \in Task : TaskFine(t)'
  BY DEF TaskFine
<1> QED  BY <1>1, <1>3, <1>5, <1>6, <1>7

\* Without faults a read returns the record.
LEMMA SoundRead == Sound => \A t \in Task : ReadMeta(t) = {store[t]}
BY DEF Sound, ReadMeta

-------------------------------------------------------------------------------
(* The steps of a worker and of its heartbeat. *)

\* What a worker has on its way keeps the promises of the record.
LEMMA WorkerWritesFine ==
    ASSUME IndInv, SoundInv, NEW w \in Worker, NEW m \in WorkerWrites(w)
    PROVE  /\ m.recov => m.status = "interrupted"
           /\ m.status = "interrupted" => ckpt[wk[w].task] = "asking"
           /\ m.status # "orphaned"
<1>1. WorkerFine(w)
  BY DEF SoundInv
<1>2. CASE wk[w].pc = "startPut" /\ m = wk[w].put
  BY <1>1, <1>2 DEF WorkerFine
<1>3. CASE wk[w].pc = "endPut" /\ m = wk[w].put
  BY <1>1, <1>3 DEF WorkerFine, EndStatus, AtWork, IndInv, WorkerShape, Ends
<1>4. CASE hb[w].pc = "write" /\ m = hb[w].put
  BY <1>1, <1>4 DEF WorkerFine, Own
<1> QED  BY <1>2, <1>3, <1>4 DEF WorkerWrites

\* The worker's first get_meta: what it is about to put names it as the owner.
LEMMA StartReadSound ==
    ASSUME Sound, IndInv, SoundInv, NEW w \in Worker, StartRead(w)
    PROVE  SoundInv'
<1> USE DEF IndInv, TypeOK
<1>1. /\ wk[w].task \in Task /\ wk[w].proc \in Proc /\ WorkerFine(w)
      /\ wk[w].end \notin Ends /\ wk[w] \in WorkerState
  BY DEF StartRead, WorkerShape, Live, SoundInv
<1> DEFINE put == StartFields(store[wk[w].task], wk[w].proc)
           r == [wk[w] EXCEPT !.pc = "startPut", !.put = put]
<1>2. SetWorker(w, r) /\ wk[w].pc = "spawned" /\ UNCHANGED <<store, ckpt, up, running, hb, call>>
  BY <1>1, SoundRead DEF StartRead
<1>3. put.status = "running" /\ put.owner = wk[w].proc /\ put.lease = "fresh" /\ ~put.recov
  BY <1>1 DEF StartFields, Meta
<1>4. /\ r.pc = "startPut" /\ r.put = put /\ r.task = wk[w].task /\ r.proc = wk[w].proc
      /\ r.mode = wk[w].mode /\ r.end = wk[w].end
  BY <1>1 DEF WorkerState
<1> HIDE DEF put, r
<1>5. wk'[w] = r /\ \A u \in Worker \ {w} : wk'[u] = wk[u]
  BY <1>2 DEF SetWorker
<1>6. WorkerFine(w)'
  BY <1>1, <1>2, <1>3, <1>4, <1>5 DEF WorkerFine, AtWork
<1>7. Live(w) /\ ~Stopping(w)
  BY <1>1, <1>2 DEF Stopping, Live, Ends
<1> QED  BY <1>1, <1>2, <1>4, <1>5, <1>6, <1>7, WorkerFrame DEF SoundInv, TaskFine

\* The worker's first put makes the record its own, and its heartbeat starts.
LEMMA StartWriteSound ==
    ASSUME Sound, IndInv, SoundInv, NEW w \in Worker, StartWrite(w)
    PROVE  SoundInv'
<1> USE DEF IndInv, TypeOK
<1>1. /\ wk[w].task \in Task /\ wk[w].proc \in Proc /\ WorkerFine(w)
      /\ wk[w].end \notin Ends /\ wk[w] \in WorkerState /\ wk[w].pc = "startPut"
  BY DEF StartWrite, WorkerShape, Live, SoundInv
<1> DEFINE t == wk[w].task
           r == [wk[w] EXCEPT !.pc = "exec", !.put = NoMeta]
<1>2. /\ r.pc = "exec" /\ r.task = wk[w].task /\ r.proc = wk[w].proc /\ r.end = wk[w].end
  BY <1>1 DEF WorkerState
<1>3. /\ store'[t] = wk[w].put /\ wk'[w] = r /\ hb'[w].pc = "sleep"
      /\ \A u \in Worker \ {w} : wk'[u] = wk[u] /\ hb'[u] = hb[u]
      /\ \A s \in Task : s # t => store'[s] = store[s] /\ ckpt'[s] = ckpt[s]
      /\ running' = running /\ call' = call
  BY <1>1 DEF StartWrite, SetWorker, NoBeat
<1> HIDE DEF r
<1>4. WorkerFine(w)'
  BY <1>1, <1>2, <1>3 DEF WorkerFine, Own, AtWork, Ends, Active
<1>5. \A s \in Task : s = t => TaskFine(s)'
  BY <1>1, <1>3 DEF WorkerFine, TaskFine
<1>6. Live(w) /\ ~Stopping(w)
  BY <1>1 DEF Stopping, Live, Ends
<1> QED  BY <1>1, <1>2, <1>3, <1>4, <1>5, <1>6, WorkerFrame

\* The graph run of a worker returns: it is interrupted only at a question.
LEMMA ReturnSound ==
    ASSUME Sound, IndInv, SoundInv, NEW w \in Worker, NEW e \in Ends, Return(w, e)
    PROVE  SoundInv'
<1> USE DEF IndInv, TypeOK
<1>1. /\ wk[w].task \in Task /\ wk[w].proc \in Proc /\ WorkerFine(w)
      /\ wk[w].end \notin Ends /\ wk[w] \in WorkerState /\ wk[w].pc = "exec"
  BY DEF Return, WorkerShape, Live, SoundInv
<1> DEFINE t == wk[w].task
           r == [wk[w] EXCEPT !.pc = "endSnap", !.end = e]
<1>2. r.pc = "endSnap" /\ r.task = wk[w].task /\ r.proc = wk[w].proc /\ r.end = e
  BY <1>1 DEF WorkerState
<1>3. /\ store' = store /\ hb' = hb /\ running' = running /\ call' = call /\ wk'[w] = r
      /\ \A u \in Worker \ {w} : wk'[u] = wk[u]
      /\ \A s \in Task : s # t => ckpt'[s] = ckpt[s]
      /\ e = "interrupted" => ckpt'[t] = "asking"
  BY <1>1 DEF Return, SetWorker, TakenAs, Sound
<1> HIDE DEF r
<1>8. ~Stopping(w)
  BY <1>1 DEF Stopping, Ends
<1>4. WorkerFine(w)'
  BY <1>1, <1>2, <1>3, <1>8 DEF WorkerFine, Own, AtWork
<1>5. \A s \in Task : s = t => TaskFine(s)'
  BY <1>1, <1>3 DEF WorkerFine, Own, AtWork, TaskFine, SoundInv
<1>6. Live(w) /\ ~Stopping(w)
  BY <1>1 DEF Stopping, Live, Ends
<1> QED  BY <1>1, <1>2, <1>3, <1>4, <1>5, <1>6, WorkerFrame

\* The worker's last get_meta: what it is about to put is how its run ended.
LEMMA EndReadSound ==
    ASSUME Sound, IndInv, SoundInv, NEW w \in Worker, EndRead(w)
    PROVE  SoundInv'
<1> USE DEF IndInv, TypeOK
<1>1. /\ wk[w].task \in Task /\ wk[w].proc \in Proc /\ WorkerFine(w)
      /\ wk[w].end \in Ends /\ wk[w] \in WorkerState /\ wk[w].pc = "endSnap"
  BY DEF EndRead, WorkerShape, Live, SoundInv
<1> DEFINE m == store[wk[w].task]
           put == EndFields(m, wk[w].end)
           r == [wk[w] EXCEPT !.pc = "endPut", !.put = put]
<1>2. SetWorker(w, r) /\ UNCHANGED <<store, ckpt, up, running, hb, call>>
  BY <1>1, SoundRead DEF EndRead
<1>3. m \in Meta /\ ~m.recov
  BY <1>1 DEF WorkerFine, Own, AtWork
<1>4. /\ put.status = EndStatus(wk[w].end) /\ (put.recov => wk[w].end = "interrupted")
      /\ put.lease = "none"
  BY <1>1, <1>3 DEF EndFields, EndRecov, Meta, Ends
<1>5. /\ r.pc = "endPut" /\ r.put = put /\ r.task = wk[w].task /\ r.proc = wk[w].proc
      /\ r.end = wk[w].end
  BY <1>1 DEF WorkerState
<1> HIDE DEF put, r, m
<1>6. wk'[w] = r /\ \A u \in Worker \ {w} : wk'[u] = wk[u]
  BY <1>2 DEF SetWorker
<1>7. WorkerFine(w)'
  BY <1>1, <1>2, <1>4, <1>5, <1>6 DEF WorkerFine, Own, AtWork, Stopping
<1>8. Live(w) /\ (Stopping(w) => Stopping(w)')
  BY <1>1, <1>2, <1>5, <1>6 DEF Stopping, Live
<1> QED
  BY <1>1, <1>2, <1>5, <1>6, <1>7, <1>8, WorkerFrame DEF SoundInv, TaskFine, KeptForMark

\* The worker's last put: the record says how its run ended.
LEMMA EndWriteSound ==
    ASSUME Sound, IndInv, SoundInv, NEW w \in Worker, EndWrite(w)
    PROVE  SoundInv'
<1> USE DEF IndInv, TypeOK
<1>1. /\ wk[w].task \in Task /\ wk[w].proc \in Proc /\ WorkerFine(w)
      /\ wk[w].end \in Ends /\ wk[w] \in WorkerState /\ wk[w].pc = "endPut"
  BY DEF EndWrite, WorkerShape, Live, SoundInv
<1> DEFINE t == wk[w].task
           r == [wk[w] EXCEPT !.pc = "retire", !.put = NoMeta]
<1>2. r.pc = "retire" /\ r.task = wk[w].task /\ r.proc = wk[w].proc /\ r.end = wk[w].end
  BY <1>1 DEF WorkerState
<1>3. /\ store'[t] = wk[w].put /\ hb' = hb /\ running' = running /\ call' = call /\ wk'[w] = r
      /\ \A u \in Worker \ {w} : wk'[u] = wk[u]
      /\ ckpt' = ckpt /\ \A s \in Task : s # t => store'[s] = store[s]
  BY <1>1 DEF EndWrite, SetWorker
<1> HIDE DEF r
<1>4. /\ wk[w].put.status \notin Active \cup {"orphaned"}
      /\ wk[w].put.status = "interrupted" <=> wk[w].end = "interrupted"
      /\ wk[w].put.recov => wk[w].put.status = "interrupted"
  BY <1>1 DEF WorkerFine, EndStatus, Ends, Active
<1>5. WorkerFine(w)'
  BY <1>1, <1>2, <1>3, <1>4 DEF WorkerFine, Own, AtWork, Stopping
<1>6. \A s \in Task : s = t => TaskFine(s)'
  BY <1>1, <1>3, <1>4 DEF WorkerFine, AtWork, TaskFine
<1>7. Live(w) /\ (Stopping(w) => Stopping(w)')
  BY <1>1, <1>2, <1>3 DEF Stopping, Live
<1>8. Stopping(w) => \A s \in Task : KeptForMark(s)
  BY <1>1, <1>3 DEF Stopping, KeptForMark, WorkerFine, EndStatus
<1> QED  BY <1>1, <1>2, <1>3, <1>5, <1>6, <1>7, <1>8, WorkerFrame

\* The end of a worker leaves the record as it is, or with its last write.
LEMMA FreedSound ==
    ASSUME IndInv, SoundInv, NEW w \in Worker, wk' = [wk EXCEPT ![w] = FreeWorker],
           hb' = [hb EXCEPT ![w] = NoBeat], store' \in StoreAfterCut({w}, {}),
           ckpt' = ckpt,
           \A u \in Worker \ {w} : Live(u) /\ Stopping(u) => Stopping(u)',
           \A d \in Client : call'[d] = call[d] \/ call'[d] = NoCall
    PROVE  SoundInv'
<1> USE DEF IndInv, TypeOK
<1>1. /\ wk'[w] = FreeWorker /\ hb'[w].pc = "off"
      /\ \A u \in Worker \ {w} : wk'[u] = wk[u] /\ hb'[u] = hb[u]
  BY DEF NoBeat
<1>2. \A t \in Task : store'[t] = store[t] \/ (wk[w].task = t /\ store'[t] \in WorkerWrites(w))
  BY DEF StoreAfterCut, Landing
<1>3. store' \in [Task -> Meta] /\ store \in [Task -> Meta]
  BY CutType
<1>4. Live(w) \/ UNCHANGED <<store, ckpt>>
  <2>1. ~Live(w) => WorkerWrites(w) = {}
    BY DEF WorkerShape, Live, WorkerWrites
  <2> QED  BY <1>2, <1>3, <2>1
<1>5. \A t \in Task : t = wk[w].task => TaskFine(t)'
  <2> SUFFICES ASSUME NEW t \in Task, t = wk[w].task PROVE TaskFine(t)'
    OBVIOUS
  <2>1. CASE store'[t] = store[t]
    BY <2>1 DEF SoundInv, TaskFine
  <2>2. CASE store'[t] \in WorkerWrites(w)
    BY <2>2, WorkerWritesFine DEF TaskFine
  <2> QED  BY <1>2, <2>1, <2>2
<1>6. WorkerFine(w)'
  BY <1>1, WorkerFreed
<1>7. Stopping(w) => \A t \in Task : KeptForMark(t)
  <2> SUFFICES ASSUME Stopping(w), NEW t \in Task, store'[t] \in WorkerWrites(w)
               PROVE  KeptForMark(t)
    BY <1>2 DEF KeptForMark
  <2>1. wk[w].pc = "endPut" /\ store'[t] = wk[w].put /\ WorkerFine(w)
    BY DEF Stopping, WorkerWrites, WorkerShape, Ends, SoundInv
  <2> QED  BY <2>1 DEF Stopping, WorkerFine, EndStatus, KeptForMark
<1> QED  BY <1>1, <1>2, <1>4, <1>5, <1>6, <1>7, WorkerFrame

\* A worker that goes leaves its task without a worker.
LEMMA RetireSound ==
    ASSUME IndInv, SoundInv, NEW w \in Worker, Retire(w)
    PROVE  SoundInv'
<1> USE DEF IndInv, TypeOK
<1>1. ASSUME NEW u \in Worker \ {w}, Live(u), Stopping(u)
      PROVE  Stopping(u)'
  <2>1. wk[u].proc \in Proc /\ wk[u].task \in Task /\ wk[u].task # wk[w].task
    BY <1>1 DEF SoundInv, Alone, WorkerShape, Retire, Live
  <2> QED  BY <1>1, <2>1 DEF Retire, SetWorker, Stopping
<1> QED  BY <1>1, FreedSound DEF Retire, SetWorker

\* A heartbeat renews the record of a worker at work, and no other.
LEMMA BeatSound ==
    ASSUME Sound, IndInv, SoundInv, NEW w \in Worker, Beat(w)
    PROVE  SoundInv'
<1> USE DEF IndInv, TypeOK
<1>1. hb[w].pc # "off"
  BY DEF Beat, BeatCheck, BeatRead, BeatWrite, BeatFault
<1>2. /\ wk[w].task \in Task /\ wk[w].proc \in Proc /\ WorkerFine(w) /\ Live(w)
      /\ wk[w] \in WorkerState /\ wk[w].pc \in AtWork
      /\ ~Stopping(w)
  BY <1>1 DEF WorkerShape, SoundInv, WorkerFine, Stopping
<1>3. /\ wk' = wk /\ call' = call /\ running' = running /\ ckpt' = ckpt
      /\ \A u \in Worker \ {w} : hb'[u] = hb[u]
  BY DEF Beat, BeatCheck, BeatRead, BeatWrite, BeatFault, SetBeat
<1>4. ASSUME store' = store, WorkerFine(w)'
      PROVE  SoundInv'
  BY <1>2, <1>3, <1>4, WorkerFrame DEF SoundInv, TaskFine
<1>5. CASE BeatCheck(w)
  <2>1. hb'[w].pc # "write"
    BY <1>1, <1>5 DEF BeatCheck, SetBeat, NoBeat, BeatState
  <2>2. store[wk[w].task].status \in Active => hb'[w].pc # "off"
    <3>1. SUFFICES ASSUME store[wk[w].task].status \in Active
                   PROVE  hb'[w].pc # "off"
      OBVIOUS
    <3>2. store[wk[w].task].status = "running" /\ store[wk[w].task].owner = wk[w].proc
      BY <1>2, <3>1 DEF WorkerFine, Own
    <3> QED  BY <1>2, <1>5, <3>2, SoundRead DEF BeatCheck, SetBeat, BeatState
  <2>3. store' = store
    BY <1>5 DEF BeatCheck
  <2>4. WorkerFine(w)'
    BY <1>1, <1>2, <1>3, <2>1, <2>2, <2>3 DEF WorkerFine, Own, Stopping
  <2> QED  BY <1>4, <2>3, <2>4
<1>6. CASE BeatRead(w)
  <2> DEFINE m == store[wk[w].task]
             put == HeartbeatFields(m)
  <2>1. hb'[w] = [pc |-> "write", put |-> put] /\ store' = store
    BY <1>2, <1>6, SoundRead DEF BeatRead, SetBeat
  <2>2. m \in Meta /\ Own(w, m)
    BY <1>2 DEF WorkerFine
  <2>3. /\ put.recov = m.recov /\ put.owner = m.owner /\ put.lease = "fresh"
        /\ put.status = m.status \/ (put.status = "unknown" /\ m.status = "none")
    <3> DEFINE n == [m EXCEPT !.lease = "fresh"]
    <3>1. /\ n.status = m.status /\ n.recov = m.recov /\ n.owner = m.owner /\ n.lease = "fresh"
          /\ n \in Meta
      BY <2>2 DEF Meta
    <3> DEFINE status == IF n.status = "none" THEN "unknown" ELSE n.status
    <3>2. put = [n EXCEPT !.status = status]
      BY DEF HeartbeatFields, Pick
    <3>3. status = n.status \/ (status = "unknown" /\ n.status = "none")
      OBVIOUS
    <3> HIDE DEF n, status, put, m
    <3> QED  BY <3>1, <3>2, <3>3 DEF Meta
  <2>4. Own(w, put)
    BY <2>2, <2>3 DEF Own, Active
  <2> HIDE DEF put
  <2>5. WorkerFine(w)'
    BY <1>1, <1>2, <1>3, <2>1, <2>3, <2>4 DEF WorkerFine, Own, Stopping
  <2> QED  BY <1>4, <2>1, <2>5
<1>7. CASE BeatWrite(w)
  <2>1. /\ store'[wk[w].task] = hb[w].put /\ hb'[w].pc = "sleep" /\ hb[w].pc = "write"
        /\ \A s \in Task : s # wk[w].task => store'[s] = store[s]
    BY <1>2, <1>7 DEF BeatWrite, SetBeat, NoBeat
  <2>2. WorkerFine(w)'
    BY <1>2, <1>3, <2>1 DEF WorkerFine, Own, Stopping
  <2>3. \A s \in Task : s = wk[w].task => TaskFine(s)'
    BY <1>2, <1>3, <2>1 DEF WorkerFine, Own, TaskFine
  <2> QED  BY <1>2, <1>3, <2>1, <2>2, <2>3, WorkerFrame
<1>8. ~BeatFault(w)
  BY DEF BeatFault, Sound
<1> QED  BY <1>5, <1>6, <1>7, <1>8 DEF Beat

-------------------------------------------------------------------------------
(* The supervision calls. *)

\* A new call has found nothing out yet.
LEMMA BeginSound ==
    ASSUME IndInv, SoundInv, NEW c \in Client, BeginCall(c)
    PROVE  SoundInv'
<1> SUFFICES ASSUME NEW p \in Proc, NEW op, NEW t, NEW pc \in {"rlock", "tlock", "cancelSnap"},
                    Begin(c, p, op, t, pc)
             PROVE  SoundInv'
  BY DEF BeginCall, Poll, Resume, Recover, Cancel
<1> DEFINE r == [NoCall EXCEPT !.pc = pc, !.op = op, !.proc = p, !.task = t]
<1>1. SetCall(c, r) /\ UNCHANGED <<store, ckpt, running, wk, hb>> /\ r.pc = pc
  BY DEF Begin, NoCall
<1> HIDE DEF r
<1>2. call'[c] = r
  BY <1>1 DEF SetCall, IndInv, TypeOK
<1>3. CallFine(c)'
  BY <1>1, <1>2 DEF CallFine
<1> QED  BY <1>1, <1>3, CallFrame

\* A call that goes on without marking or launching anything.
LEMMA CallGoesOn ==
    ASSUME IndInv, SoundInv, NEW c \in Client,
           \/ EndCall(c)
           \/ \E pc \in {"rlock", "check", "get"} : SetCall(c, [call[c] EXCEPT !.pc = pc]),
           UNCHANGED <<store, ckpt, running, wk, hb>>
    PROVE  SoundInv'
<1> USE DEF IndInv, TypeOK
<1>1. CASE EndCall(c)
  BY <1>1, CallEnds, CallEnded, CallFrame DEF EndCall, SetCall, NoCall
<1>2. ASSUME NEW pc \in {"rlock", "check", "get"}, SetCall(c, [call[c] EXCEPT !.pc = pc])
      PROVE  SoundInv'
  <2> DEFINE r == [call[c] EXCEPT !.pc = pc]
  <2>1. r.pc = pc /\ call'[c] = r
    BY <1>2 DEF SetCall, CallState
  <2> HIDE DEF r
  <2>2. CallFine(c)'
    BY <2>1 DEF CallFine
  <2> QED  BY <1>2, <2>1, <2>2, CallFrame DEF r
<1> QED  BY <1>1, <1>2

\* The moves of a call that write nothing and hand nothing on.
LEMMA QuietCallSound ==
    ASSUME Sound, IndInv, SoundInv, NEW c \in Client,
           EnterTransition(c) \/ SkipScan(c) \/ ScanDone(c) \/ CheckLocal(c) \/ CallFault(c)
    PROVE  SoundInv'
BY CallGoesOn DEF EnterTransition, SkipScan, ScanDone, CheckLocal, CallFault, Sound

\* A task whose lease is over has no worker but one that a shutdown has cancelled;
\* nobody is about to launch one.
LEMMA ExpiredIsGiven ==
    ASSUME IndInv, SoundInv, NEW t \in Task, Expired(t)
    PROVE  /\ Given(t)
           /\ \A d \in Client : call[d].pc = "launch" => call[d].task # t
<1> USE DEF IndInv, TypeOK
<1>1. store[t].status \in Active /\ store[t].lease # "fresh"
  BY DEF Expired
<1>2. ASSUME NEW w \in Worker, Live(w), wk[w].task = t
      PROVE  Stopping(w)
  <2>1. WorkerFine(w)
    BY DEF SoundInv
  <2>2. wk[w].pc \in AtWork \cup {"spawned", "startPut"}
    BY <1>2 DEF Live, WorkerState, AtWork
  <2> QED  BY <1>1, <1>2, <2>1, <2>2 DEF WorkerFine
<1>3. \A d \in Client : call[d].pc = "launch" => call[d].task # t
  BY <1>1 DEF SoundInv, CallFine, Active
<1> QED  BY <1>2, <1>3 DEF Given

\* The scan of recover_expired_leases finds tasks nobody goes on working on.
LEMMA ScanSound ==
    ASSUME Sound, IndInv, OneServer, SoundInv, NEW c \in Client, Scan(c)
    PROVE  SoundInv'
<1> USE DEF IndInv, TypeOK
<1> DEFINE found == {t \in Task : Expired(t)}
           r == [call[c] EXCEPT !.pc = "mark", !.todo = found]
<1>1. SetCall(c, r) /\ UNCHANGED <<store, ckpt, up, running, wk, hb>> /\ call[c].pc = "rlock"
      /\ \A d \in Client : call[d].proc = call[c].proc => ~HoldsRecovery(d)
  BY DEF Scan, Sound
<1>2. Busy(c)
  BY <1>1 DEF Busy
<1>3. \A t \in found : /\ Given(t)
                       /\ \A d \in Client : call[d].pc = "launch" => call[d].task # t
  BY ExpiredIsGiven
<1>4. \A t \in found : store[t].status \in Active /\ store[t].lease # "fresh"
  BY DEF Expired
<1>5. \A d \in Client : Busy(d) => call[d].proc = call[c].proc
  BY <1>2 DEF OneServer, Serving, CallShape
<1>6. \A d \in Client : ~HoldsRecovery(d)
  BY <1>1, <1>5 DEF HoldsRecovery, Busy
<1>7. r.pc = "mark" /\ r.todo = found /\ call'[c] = r
  BY <1>1 DEF SetCall, CallState
<1> HIDE DEF found, r
<1>8. CallFine(c)'
  BY <1>1, <1>3, <1>4, <1>7 DEF CallFine, Given, Stopping, Live
<1> QED  BY <1>1, <1>3, <1>6, <1>7, <1>8, CallFrame

\* The call reads a record again before it marks it: the mark is an orphan's.
LEMMA MarkingSound ==
    ASSUME Sound, IndInv, OneServer, SoundInv, NEW c \in Client, NEW t \in Task,
           PassOver(c, t) \/ MarkRead(c, t)
    PROVE  SoundInv'
<1> USE DEF IndInv, TypeOK
<1>1. /\ call[c] \in CallState /\ CallFine(c) /\ HoldsRecovery(c)
      /\ call[c].pc = "mark" /\ t \in call[c].todo
  BY DEF SoundInv, PassOver, MarkRead, HoldsRecovery
<1>2. UNCHANGED <<store, ckpt, running, wk, hb>>
  BY DEF PassOver, MarkRead
<1>3. ASSUME NEW r, SetCall(c, r), r.pc \in {"mark", "markPut"}, r.todo \subseteq call[c].todo,
             r.pc = "markPut" =>
                 r.cur \in r.todo /\ r.put.status = "orphaned" /\ Unworked(r.cur)
      PROVE  SoundInv'
  <2>1. call'[c] = r
    BY <1>3 DEF SetCall
  <2>2. CallFine(c)'
    BY <1>1, <1>2, <1>3, <2>1 DEF CallFine, Given, Stopping, Unworked, Live
  <2> QED  BY <1>1, <1>2, <1>3, <2>2, CallFrame
<1>4. CASE PassOver(c, t)
  <2> DEFINE r == [call[c] EXCEPT !.todo = call[c].todo \ {t}]
  <2>1. r.pc = "mark" /\ r.todo \subseteq call[c].todo
    BY <1>1 DEF CallState
  <2>2. SetCall(c, r)
    BY <1>4 DEF PassOver
  <2> HIDE DEF r
  <2> QED  BY <1>3, <2>1, <2>2
<1>5. CASE MarkRead(c, t)
  <2>1. PICK m \in Meta : SetCall(c, [call[c] EXCEPT !.pc = "markPut", !.cur = t,
                                                    !.put = OrphanFields(m)])
    BY <1>5, ReadType DEF MarkRead
  <2> DEFINE r == [call[c] EXCEPT !.pc = "markPut", !.cur = t, !.put = OrphanFields(m)]
  <2>2. r.pc = "markPut" /\ r.todo = call[c].todo /\ r.cur = t /\ r.put = OrphanFields(m)
    BY <1>1 DEF CallState
  <2>3. OrphanFields(m).status = "orphaned"
    BY DEF OrphanFields, Meta
  <2>4. ASSUME NEW w \in Worker, Live(w), wk[w].task = t
        PROVE  FALSE
    <3>1. Stopping(w) /\ Busy(c)
      BY <1>1, <2>4 DEF CallFine, Given, Busy
    <3>2. wk[w].proc \in Proc /\ wk[w].proc = call[c].proc
      BY <2>4, <3>1 DEF OneServer, WorkerShape, CallShape
    <3> QED  BY <1>5, <2>4, <3>1, <3>2, NoneAssumption DEF MarkRead, HasLocal, Stopping
  <2> HIDE DEF r
  <2> QED  BY <1>1, <1>3, <2>1, <2>2, <2>3, <2>4 DEF r, Unworked
<1> QED  BY <1>4, <1>5

\* The status a resume or a recover reads decides whether it launches; nobody
\* else is marking the task then.
LEMMA GetStatusSound ==
    ASSUME Sound, IndInv, OneServer, SoundInv, NEW c \in Client, GetStatus(c)
    PROVE  SoundInv'
<1> USE DEF IndInv, TypeOK
<1> DEFINE t == call[c].task
           r == [call[c] EXCEPT !.pc = "launch"]
<1>1. t \in Task /\ call[c] \in CallState /\ call[c].pc = "get" /\ Busy(c)
      /\ call[c].proc \in Proc /\ call[c].op \in {"resume", "recover"}
      /\ UNCHANGED <<store, ckpt, up, running, wk, hb>>
  BY DEF GetStatus, CallShape, Busy
<1>2. CASE EndCall(c)
  BY <1>1, <1>2, CallGoesOn
<1>3. CASE SetCall(c, r) /\ store[t].status = Wanted(c)
  <2>1. r.pc = "launch" /\ r.task = t /\ r.op = call[c].op /\ call'[c] = r
    BY <1>1, <1>3 DEF SetCall, CallState
  <2>2. /\ store[t].status \in {"interrupted", "orphaned"}
        /\ call[c].op = "resume" => store[t].status = "interrupted"
    BY <1>3 DEF Wanted
  <2>3. ASSUME NEW w \in Worker, Live(w), wk[w].task = t
        PROVE  FALSE
    <3>1. /\ wk[w].proc \in Proc /\ Serving(wk[w].proc) /\ WorkerFine(w)
          /\ Serving(call[c].proc) /\ wk[w].proc = call[c].proc
      BY <1>1, <2>3 DEF WorkerShape, OneServer, Serving, SoundInv
    <3>2. running[wk[w].proc][t] = None
      BY <1>1, <3>1 DEF NoNewcomer
    <3>3. wk[w].end = "cancelled"
      BY <2>3, <3>2, NoneAssumption DEF WorkerReachable
    <3>4. wk[w].pc \in AtWork
      BY <3>3 DEF WorkerShape, Ends, AtWork
    <3> QED  BY <2>2, <2>3, <3>1, <3>3, <3>4 DEF WorkerFine, Own
  <2>4. \A d \in Client : ~Marks(d, t)
    BY <2>2 DEF SoundInv, CallFine, Marks, Active
  <2>5. CallFine(c)'
    BY <1>1, <2>1, <2>2, <2>3 DEF CallFine, SoundInv, TaskFine, Unworked, Live
  <2> HIDE DEF r
  <2> QED  BY <1>1, <1>3, <2>1, <2>4, <2>5, CallFrame
<1> QED  BY <1>1, <1>2, <1>3, SoundRead DEF GetStatus

\* A mark is written only on a record nobody works on.
LEMMA MarkWriteSound ==
    ASSUME Sound, IndInv, OneServer, SoundInv, NEW c \in Client, MarkWrite(c)
    PROVE  SoundInv'
<1> USE DEF IndInv, TypeOK
<1> DEFINE t == call[c].cur
           r == [call[c] EXCEPT !.pc = "mark", !.cur = None, !.put = NoMeta,
                                !.todo = call[c].todo \ {t}]
<1>1. /\ call[c] \in CallState /\ CallFine(c) /\ t \in Task /\ call[c].pc = "markPut"
      /\ t \in call[c].todo /\ call[c].put.status = "orphaned" /\ HoldsRecovery(c)
  BY DEF MarkWrite, CallShape, SoundInv, CallFine, HoldsRecovery
<1>2. /\ store'[t] = call[c].put /\ \A s \in Task : s # t => store'[s] = store[s]
      /\ call' = [call EXCEPT ![c] = r] /\ UNCHANGED <<ckpt, up, running, wk, hb>>
  BY <1>1 DEF MarkWrite, SetCall
<1>3. r.pc = "mark" /\ r.todo = call[c].todo \ {t}
  BY <1>1 DEF CallState
<1> HIDE DEF r
<1>4. /\ Unworked(t)
      /\ \A s \in Task : (Unworked(s) => Unworked(s)') /\ (Given(s) => Given(s)')
  BY <1>1, <1>2 DEF CallFine, Unworked, Given, Stopping, Live
<1>5. \A w \in Worker : WorkerFine(w)'
  BY <1>2, <1>4, WorkerKept DEF SoundInv, Unworked, WorkerShape, Stopping
<1>6. \A d \in Client : CallFine(d)'
  <2>1. CallFine(c)'
    BY <1>1, <1>2, <1>3, <1>4 DEF CallFine, CallState
  <2>2. ASSUME NEW d \in Client \ {c}
        PROVE  CallFine(d)'
    <3>1. ~Marks(d, t)
      BY <1>1 DEF SoundInv, Apart, Marks, HoldsRecovery
    <3>2. call[d].pc = "launch" => call[d].task # t
      BY <1>1 DEF SoundInv, Apart, Marks
    <3> QED  BY <1>2, <1>4, <3>1, <3>2, CallKept DEF SoundInv, CallFine, Marks, KeptForMark
  <2> QED  BY <2>1, <2>2
<1>7. \A s \in Task : TaskFine(s)'
  BY <1>1, <1>2 DEF SoundInv, TaskFine
<1>8. Alone'
  BY <1>2 DEF SoundInv, Live, Alone
<1>9. Apart'
  BY <1>1, <1>2, <1>3 DEF SoundInv, Apart, Marks, HoldsRecovery
<1> QED  BY <1>5, <1>6, <1>7, <1>8, <1>9 DEF SoundInv

\* The put of cancel carries no lease.
LEMMA CancelReadSound ==
    ASSUME IndInv, SoundInv, NEW c \in Client, CancelRead(c)
    PROVE  SoundInv'
<1> USE DEF IndInv, TypeOK
<1>1. call[c].task \in Task /\ call[c] \in CallState
  BY DEF CancelRead, CallShape
<1>2. PICK m \in Meta : SetCall(c, [call[c] EXCEPT !.pc = "cancelPut", !.put = CancelFields(m)])
  BY <1>1, ReadType DEF CancelRead
<1> DEFINE r == [call[c] EXCEPT !.pc = "cancelPut", !.put = CancelFields(m)]
<1>3. r.pc = "cancelPut" /\ r.put = CancelFields(m)
  BY <1>1 DEF CallState
<1>4. /\ CancelFields(m).status = "cancelled" /\ ~CancelFields(m).recov
      /\ CancelFields(m).lease = "none"
  BY DEF CancelFields, Meta
<1>5. SetCall(c, r) /\ call'[c] = r /\ UNCHANGED <<store, ckpt, running, wk, hb>>
  BY <1>2 DEF CancelRead, SetCall
<1> HIDE DEF r
<1>6. CallFine(c)'
  BY <1>3, <1>4, <1>5 DEF CallFine
<1> QED  BY <1>3, <1>5, <1>6, CallFrame

\* A cancelled record is nobody's, whatever its worker is doing.
LEMMA CancelWriteSound ==
    ASSUME IndInv, SoundInv, NEW c \in Client, CancelWrite(c)
    PROVE  SoundInv'
<1> USE DEF IndInv, TypeOK
<1> DEFINE t == call[c].task
           r == [call[c] EXCEPT !.pc = "cancelKill", !.put = NoMeta]
           m == call[c].put
<1>1. /\ call[c] \in CallState /\ CallFine(c) /\ t \in Task /\ call[c].pc = "cancelPut"
      /\ m.status = "cancelled" /\ ~m.recov /\ m.lease = "none"
  BY DEF CancelWrite, CallShape, SoundInv, CallFine
<1>2. /\ store'[t] = m /\ \A s \in Task : s # t => store'[s] = store[s]
      /\ call' = [call EXCEPT ![c] = r] /\ UNCHANGED <<ckpt, up, running, wk, hb>>
  BY <1>1 DEF CancelWrite, SetCall
<1>3. r.pc = "cancelKill"
  BY <1>1 DEF CallState
<1> HIDE DEF r, m
<1>4. \A w \in Worker : WorkerFine(w)'
  <2> SUFFICES ASSUME NEW w \in Worker PROVE WorkerFine(w)'
    OBVIOUS
  <2>1. WorkerFine(w) /\ (Live(w) => wk[w].task \in Task)
    BY DEF SoundInv, WorkerShape
  <2>2. CASE Live(w) /\ wk[w].task = t
    BY <1>1, <1>2, <2>1, <2>2 DEF WorkerFine, Own, Stopping, Active
  <2>3. CASE ~(Live(w) /\ wk[w].task = t)
    BY <1>2, <2>1, <2>3, WorkerKept DEF Stopping
  <2> QED  BY <2>2, <2>3
<1>5. \A d \in Client : CallFine(d)'
  <2>1. CallFine(c)'
    BY <1>2, <1>3 DEF CallFine
  <2>2. ASSUME NEW d \in Client \ {c}
        PROVE  CallFine(d)'
    <3>1. /\ CallFine(d) /\ call'[d] = call[d] /\ call[d].todo \subseteq Task
          /\ call[d].pc = "launch" => call[d].task \in Task
      BY <1>2 DEF SoundInv, CallShape, CallState
    <3>2. \A s \in Task : \/ store'[s] = store[s]
                          \/ s = t /\ store'[s] = m
      BY <1>2
    <3> QED  BY <1>1, <1>2, <3>1, <3>2 DEF CallFine, Given, Stopping, Unworked, Live
  <2> QED  BY <2>1, <2>2
<1>6. \A s \in Task : TaskFine(s)'
  BY <1>1, <1>2 DEF SoundInv, TaskFine
<1>7. Alone' /\ Apart'
  BY <1>2, <1>3 DEF SoundInv, Live, Alone, Apart, Marks, HoldsRecovery
<1> QED  BY <1>4, <1>5, <1>6, <1>7 DEF SoundInv

\* cancel ends the worker of its task, or leaves its graph run to end.
LEMMA CancelKillSound ==
    ASSUME Sound, IndInv, SoundInv, NEW c \in Client, CancelKill(c)
    PROVE  SoundInv'
<1> USE DEF IndInv, TypeOK
<1> DEFINE p == call[c].proc
           t == call[c].task
<1>0. p \in Proc /\ t \in Task /\ running' = [running EXCEPT ![p][t] = None]
  BY DEF CancelKill, CallShape, Busy
<1>1. EndCall(c) /\ ckpt' = ckpt /\ \A d \in Client : call'[d] = call[d] \/ call'[d] = NoCall
  BY CallEnds DEF CancelKill
<1>2. CASE running[p][t] = None
  <2>1. running' = running
    BY <1>0, <1>2
  <2> QED  BY <1>1, <1>2, <2>1, CallGoesOn DEF CancelKill
<1>3. CASE running[p][t] # None
  <2>1. PICK w \in Worker : w = running[p][t]
    BY <1>0, <1>3
  <2>5. ASSUME NEW u \in Worker \ {w}, Live(u), Stopping(u), wk'[u] = wk[u], hb'[u] = hb[u]
        PROVE  Stopping(u)'
    <3>1. wk[u].proc \in Proc /\ wk[u].task \in Task
      BY <2>5 DEF WorkerShape
    <3> QED  BY <1>0, <2>1, <2>5, <3>1 DEF Stopping
  <2>2. /\ wk' = [wk EXCEPT ![w] = Cancelled(w)]
        /\ IF wk[w].pc = "exec" THEN UNCHANGED <<store, hb>>
           ELSE store' \in StoreAfterCut({w}, {}) /\ hb' = [hb EXCEPT ![w] = NoBeat]
    BY <1>3, <2>1 DEF CancelKill
  <2>3. CASE wk[w].pc # "exec"
    BY <1>1, <2>2, <2>3, <2>5, FreedSound DEF Cancelled
  <2>4. CASE wk[w].pc = "exec"
    <3>1. UNCHANGED <<store, hb>>
      BY <2>2, <2>4
    <3>2. /\ wk'[w].pc = "endSnap" /\ wk'[w].end = "cancelled"
          /\ wk'[w].task = wk[w].task /\ wk'[w].proc = wk[w].proc
          /\ \A u \in Worker \ {w} : wk'[u] = wk[u]
      BY <2>2, <2>4, CancelledShape
    <3>3. WorkerFine(w) /\ Live(w) /\ ~Stopping(w)
      BY <2>4 DEF SoundInv, Live, Stopping, WorkerShape, Ends
    <3>4. WorkerFine(w)'
      BY <1>1, <2>4, <3>1, <3>2, <3>3 DEF WorkerFine, Own, AtWork, Stopping
    <3> QED  BY <1>1, <2>5, <3>1, <3>2, <3>3, <3>4, WorkerFrame DEF SoundInv, TaskFine
  <2> QED  BY <2>3, <2>4
<1> QED  BY <1>2, <1>3

\* The end of create_task: the task had no worker, and has one now.
LEMMA SpawnSound ==
    ASSUME IndInv, SoundInv, NEW w \in Worker, NEW p \in Proc, NEW t \in Task, NEW mode,
           Spawn(w, p, t, mode), Unworked(t), UNCHANGED <<ckpt, hb>>,
           \A s \in Task : s # t => store'[s] = store[s],
           store'[t].status \in Active => store'[t].lease = "fresh",
           mode = "reply" => ckpt[t] = "asking",
           TaskFine(t)',
           \A d \in Client : ~Marks(d, t),
           \A d \in Client : \/ call'[d] = NoCall
                             \/ call'[d] = call[d] /\ ~(call[d].pc = "launch" /\ call[d].task = t)
    PROVE  SoundInv'
<1> USE DEF IndInv, TypeOK
<1>1. /\ ~Live(w) /\ wk'[w].pc = "spawned" /\ wk'[w].proc = p /\ wk'[w].task = t
      /\ wk'[w].mode = mode /\ wk'[w].end = "none"
      /\ \A u \in Worker \ {w} : wk'[u] = wk[u]
  BY DEF Spawn, FreeWorker
<1>0. ASSUME NEW u \in Worker \ {w}, Live(u), Stopping(u)
      PROVE  Stopping(u)'
  <2>1. wk[u].proc \in Proc /\ wk[u].task \in Task /\ wk[u].task # t
    BY <1>0 DEF WorkerShape, Unworked
  <2>2. running' = [running EXCEPT ![p][t] = w]
    BY DEF Spawn
  <2> QED  BY <1>0, <1>1, <2>1, <2>2 DEF Stopping
<1>2. hb[w].pc = "off"
  BY <1>1 DEF WorkerShape
<1>3. \A u \in Worker : WorkerFine(u)'
  <2>1. WorkerFine(w)'
    BY <1>1, <1>2 DEF WorkerFine, AtWork
  <2>2. ASSUME NEW u \in Worker \ {w}
        PROVE  WorkerFine(u)'
    <3>1. Live(u) => wk[u].task \in Task /\ wk[u].task # t
      BY DEF WorkerShape, Unworked
    <3> QED  BY <1>1, <1>0, <3>1, WorkerKept DEF SoundInv
  <2> QED  BY <2>1, <2>2
<1>4. \A s \in Task : s # t => (Unworked(s) => Unworked(s)') /\ (Given(s) => Given(s)')
  BY <1>0, <1>1 DEF Unworked, Given, Live
<1>5. \A d \in Client : CallFine(d)'
  <2> SUFFICES ASSUME NEW d \in Client, call'[d] = call[d],
                      ~(call[d].pc = "launch" /\ call[d].task = t)
               PROVE  CallFine(d)'
    BY CallEnded
  <2> QED  BY <1>4, CallKept DEF SoundInv, CallFine, Marks, KeptForMark
<1>6. Alone'
  BY <1>1 DEF SoundInv, Alone, Unworked, Live
<1>9. Apart'
  <2>1. \A d \in Client : HoldsRecovery(d)' => HoldsRecovery(d)
    BY DEF HoldsRecovery, NoCall
  <2>2. \A d \in Client : call'[d].pc = "launch" =>
                            call[d].pc = "launch" /\ call'[d].task = call[d].task
    BY DEF NoCall
  <2>3. \A d \in Client, s \in Task : Marks(d, s)' => Marks(d, s)
    BY DEF Marks, NoCall
  <2>4. \A d \in Client : call[d].pc = "launch" => call[d].task \in Task
    BY DEF CallShape
  <2> QED  BY <2>1, <2>2, <2>3, <2>4 DEF SoundInv, Apart
<1>8. \A s \in Task : TaskFine(s)'
  BY DEF SoundInv, TaskFine
<1> QED  BY <1>3, <1>5, <1>6, <1>8, <1>9 DEF SoundInv

\* A call starts a worker where there was none.
LEMMA LaunchSound ==
    ASSUME IndInv, OneServer, SoundInv, NEW c \in Client, NEW w \in Worker, Launch(c, w)
    PROVE  SoundInv'
<1> USE DEF IndInv, TypeOK
<1> DEFINE mode == IF call[c].op = "resume" THEN "reply" ELSE "recover"
<1> SUFFICES ASSUME NEW p \in Proc, p = call[c].proc, NEW t \in Task, t = call[c].task
             PROVE  SoundInv'
  BY DEF Launch, CallShape, Busy
<1>1. /\ call[c].pc = "launch" /\ Spawn(w, p, t, mode) /\ EndCall(c)
      /\ UNCHANGED <<store, ckpt, up, hb>>
  BY DEF Launch
<1>2. /\ Serving(p) /\ Unworked(t) /\ store[t].status \notin Active
      /\ mode = "reply" => ckpt[t] = "asking"
  BY <1>1 DEF OneServer, Busy, SoundInv, CallFine, Active
<1>3. \A d \in Client : ~Marks(d, t)
  BY <1>1 DEF SoundInv, Apart
<1>4. ASSUME NEW d \in Client \ {c}, call[d].pc = "launch"
      PROVE  FALSE
  <2>1. /\ HoldsTransition(c) /\ HoldsTransition(d) /\ call[d].proc \in Proc
        /\ Serving(call[d].proc)
    BY <1>1, <1>4 DEF HoldsTransition, CallShape, OneServer, Busy
  <2>2. call[d].proc = call[c].proc
    BY <1>2, <2>1 DEF OneServer, Serving
  <2> QED  BY <1>4, <2>1, <2>2 DEF TransitionExclusive
<1>5. call'[c] = NoCall /\ \A d \in Client \ {c} : call'[d] = call[d]
  BY <1>1, CallEnds
<1>6. TaskFine(t)'
  BY <1>1 DEF SoundInv, TaskFine
<1> HIDE DEF mode
<1> QED  BY <1>1, <1>2, <1>3, <1>4, <1>5, <1>6, SpawnSound

\* A dispatch starts a worker on a task without a record.
LEMMA DispatchSound ==
    ASSUME IndInv, SoundInv, NEW p \in Proc, NEW t \in Task, NEW w \in Worker,
           Dispatch(p, t, w)
    PROVE  SoundInv'
<1> USE DEF IndInv, TypeOK
<1>1. /\ store[t].status = "none" /\ Spawn(w, p, t, "first")
      /\ store'[t] = PendingFields(p) /\ \A s \in Task : s # t => store'[s] = store[s]
      /\ UNCHANGED <<ckpt, up, hb, call>>
  BY NoMetaType DEF Dispatch
<1>2. PendingFields(p).status = "pending" /\ PendingFields(p).lease = "fresh"
  BY DEF PendingFields, NoMeta
<1>3. Unworked(t)
  BY <1>1 DEF Unworked, Recorded
<1>4. \A d \in Client : ~Marks(d, t) /\ ~(call[d].pc = "launch" /\ call[d].task = t)
  BY <1>1 DEF SoundInv, CallFine, Marks, Active
<1>5. TaskFine(t)'
  BY <1>1, <1>2 DEF TaskFine
<1> QED  BY <1>1, <1>2, <1>3, <1>4, <1>5, SpawnSound

-------------------------------------------------------------------------------
(* Servers and time. *)

\* The one server dies with all its calls, workers and heartbeats.
LEMMA CrashSound ==
    ASSUME IndInv, OneServer, SoundInv, NEW p \in Proc, Crash(p)
    PROVE  SoundInv'
<1> USE DEF IndInv, TypeOK
<1> DEFINE cut == {c \in Client : call[c].proc = p}
<1>1. Serving(p)
  BY DEF Crash, Exit, Serving
<1>2. \A w \in Worker : Live(w) => w \in LiveAt(p)
  BY <1>1 DEF OneServer, LiveAt, WorkerShape
<1>3. \A c \in Client : Busy(c) => c \in cut
  BY <1>1 DEF OneServer, Serving, CallShape
<1>4. \A w \in Worker : ~Live(w)' /\ hb'[w].pc = "off"
  BY <1>2 DEF Crash, Exit, LiveAt, Live, FreeWorker, NoBeat, WorkerShape
<1>5. \A c \in Client : call'[c].pc = "idle"
  BY <1>3 DEF Crash, Exit, Busy, NoCall
<1>6. /\ \A w \in Worker : WorkerFine(w)'
      /\ Alone'
  BY <1>4 DEF WorkerFine, Alone, Live, AtWork
<1>7. (\A c \in Client : CallFine(c)') /\ Apart'
  BY <1>5 DEF CallFine, Apart, Marks, HoldsRecovery
<1>8. ASSUME NEW t \in Task
      PROVE  TaskFine(t)'
  <2>1. store'[t] \in Landing(t, LiveAt(p), cut) /\ ckpt' = ckpt
    BY DEF Crash, Exit, StoreAfterCut
  <2>2. CASE store'[t] = store[t]
    BY <2>1, <2>2 DEF SoundInv, TaskFine
  <2>3. CASE \E w \in LiveAt(p) : wk[w].task = t /\ store'[t] \in WorkerWrites(w)
    BY <2>1, <2>3, WorkerWritesFine DEF TaskFine, LiveAt
  <2>4. CASE \E c \in cut : store'[t] \in CallWrites(c, t)
    BY <2>4 DEF SoundInv, CallFine, CallWrites, TaskFine
  <2> QED  BY <2>1, <2>2, <2>3, <2>4 DEF Landing
<1> QED  BY <1>6, <1>7, <1>8 DEF SoundInv

\* A shutdown leaves of the workers the ones whose graph was running, cancelled,
\* with their handles and without a heartbeat.
LEMMA ShutdownStops ==
    ASSUME IndInv, OneServer, NEW p \in Proc, Shutdown(p), NEW w \in Worker, Live(w)'
    PROVE  /\ Live(w) /\ wk[w].pc = "exec" /\ wk'[w].pc = "endSnap" /\ wk[w].task \in Task
           /\ wk'[w].task = wk[w].task /\ wk'[w].proc = wk[w].proc
           /\ hb'[w].pc = "off" /\ Stopping(w)'
<1> USE DEF IndInv, TypeOK
<1>1. Serving(p) /\ wk'[w] = (IF w \in LiveAt(p) THEN Cancelled(w) ELSE wk[w])
  BY DEF Shutdown, Serving
<1>2. Live(w)
  BY <1>1 DEF LiveAt, Live
<1>3. w \in LiveAt(p) /\ wk[w].proc = p /\ wk[w].task \in Task
  BY <1>1, <1>2 DEF OneServer, LiveAt, WorkerShape
<1>4. wk[w].pc = "exec" /\ wk'[w] = [wk[w] EXCEPT !.pc = "endSnap", !.end = "cancelled"]
  BY <1>1, <1>3 DEF Cancelled, Live, FreeWorker
<1>5. /\ wk'[w].pc = "endSnap" /\ wk'[w].end = "cancelled"
      /\ wk'[w].task = wk[w].task /\ wk'[w].proc = wk[w].proc
  BY <1>4 DEF WorkerState
<1>6. hb'[w].pc = "off"
  BY <1>3 DEF Shutdown, NoBeat
<1>7. running[p][wk[w].task] = w
  <2>1. wk[w].end # "cancelled"
    BY <1>4 DEF WorkerShape, Ends
  <2> QED  BY <1>2, <1>3, <2>1 DEF WorkerReachable
<1>8. Cancelled(w) # FreeWorker
  <2>1. wk'[w] = Cancelled(w) /\ FreeWorker.pc = "free"
    BY <1>1, <1>3 DEF FreeWorker
  <2> QED  BY <1>5, <2>1
<1>9. running'[p][wk[w].task] = w
  BY <1>3, <1>7, <1>8, NoneAssumption DEF Shutdown, StillRunning
<1> QED  BY <1>2, <1>3, <1>4, <1>5, <1>6, <1>9 DEF Stopping

\* A shutdown cancels the workers and ends the heartbeats; calls go on.
LEMMA ShutdownSound ==
    ASSUME IndInv, OneServer, SoundInv, NEW p \in Proc, Shutdown(p)
    PROVE  SoundInv'
<1> USE DEF IndInv, TypeOK
<1>1. UNCHANGED <<ckpt, call>>
  BY DEF Shutdown
<1>2. ASSUME NEW t \in Task
      PROVE  \/ store'[t] = store[t]
             \/ \E w \in LiveAt(p) : wk[w].task = t /\ store'[t] \in WorkerWrites(w)
  BY DEF Shutdown, StoreAfterCut, Landing
<1>3. \A t \in Task : TaskFine(t)'
  BY <1>1, <1>2, WorkerWritesFine DEF SoundInv, TaskFine, LiveAt
<1>4. ASSUME NEW w \in Worker
      PROVE  WorkerFine(w)'
  <2>1. CASE Live(w)'
    <3>1. /\ wk[w].pc = "exec" /\ wk[w].task \in Task /\ Live(w) /\ Stopping(w)'
          /\ wk'[w].task = wk[w].task /\ wk'[w].proc = wk[w].proc
          /\ wk'[w].pc = "endSnap" /\ hb'[w].pc = "off"
      BY <2>1, ShutdownStops
    <3>2. WorkerFine(w)
      BY DEF SoundInv
    <3>3. Own(w, store'[wk[w].task])
      <4>1. CASE store'[wk[w].task] = store[wk[w].task]
        BY <3>1, <3>2, <4>1 DEF WorkerFine, AtWork
      <4>2. ASSUME NEW v \in LiveAt(p), wk[v].task = wk[w].task,
                   store'[wk[w].task] \in WorkerWrites(v)
            PROVE  Own(w, store'[wk[w].task])
        <5>1. v = w
          BY <3>1, <4>2 DEF SoundInv, Alone, LiveAt
        <5>2. hb[w].pc = "write" /\ store'[wk[w].task] = hb[w].put
          BY <3>1, <4>2, <5>1 DEF WorkerWrites
        <5> QED  BY <3>1, <3>2, <5>2 DEF WorkerFine, AtWork
      <4> QED  BY <1>2, <3>1, <4>1, <4>2
    <3>4. wk'[w].end = "cancelled"
      BY <3>1 DEF Stopping
    <3> QED  BY <1>1, <3>1, <3>3, <3>4 DEF WorkerFine, Own, AtWork
  <2>2. CASE ~Live(w)'
    <3>1. hb'[w].pc = "off"
      BY <2>2 DEF Shutdown, LiveAt, Live, NoBeat, WorkerShape
    <3> QED  BY <2>2, <3>1 DEF WorkerFine, AtWork, Live
  <2> QED  BY <2>1, <2>2
<1>5. ASSUME NEW t \in Task
      PROVE  /\ Given(t)'
             /\ Unworked(t) => store'[t] = store[t] /\ Unworked(t)'
  <2>1. Given(t)'
    BY ShutdownStops DEF Given
  <2>2. Unworked(t) => Unworked(t)'
    BY ShutdownStops DEF Unworked
  <2> QED  BY <1>2, <2>1, <2>2 DEF Unworked, LiveAt
<1>6. ASSUME NEW t \in Task, Given(t)
      PROVE  KeptForMark(t)
  <2>1. ASSUME NEW w \in LiveAt(p), wk[w].task = t, store'[t] \in WorkerWrites(w)
        PROVE  KeptForMark(t)
    <3>1. Stopping(w) /\ WorkerFine(w)
      BY <1>6, <2>1 DEF Given, LiveAt, SoundInv
    <3>2. wk[w].pc = "endPut" /\ store'[t] = wk[w].put
      BY <2>1, <3>1 DEF Stopping, WorkerWrites, WorkerShape, Ends, LiveAt
    <3> QED  BY <3>1, <3>2 DEF Stopping, WorkerFine, EndStatus, KeptForMark
  <2> QED  BY <1>2, <2>1 DEF KeptForMark
<1>7. ASSUME NEW c \in Client
      PROVE  CallFine(c)'
  <2>1. CallFine(c) /\ call'[c] = call[c]
    BY <1>1 DEF SoundInv
  <2>2. \A t \in Task : Marks(c, t) => Given(t)
    BY <2>1 DEF CallFine, Marks
  <2>3. \A t \in Task : call[c].pc = "launch" /\ call[c].task = t => Unworked(t)
    BY <2>1 DEF CallFine
  <2> QED  BY <1>1, <1>5, <1>6, <2>1, <2>2, <2>3, CallKept
<1>8. Alone'
  BY ShutdownStops DEF SoundInv, Alone
<1>9. Apart'
  BY <1>1 DEF SoundInv, Apart, Marks, HoldsRecovery
<1> QED  BY <1>3, <1>4, <1>7, <1>8, <1>9 DEF SoundInv

\* A server that starts leaves the rest of the invariant alone.
LEMMA StartSound ==
    ASSUME IndInv, SoundInv, NEW p \in Proc, Start(p)
    PROVE  SoundInv'
BY DEF Start, SoundInv, WorkerFine, CallFine, TaskFine, Own, Stopping, Live, Alone, Apart, Marks,
       HoldsRecovery, Unworked, Given

\* A lease lapses only where no worker that runs renews it.
LEMMA LapseSound ==
    ASSUME Sound, IndInv, SoundInv, NEW t \in Task, Lapse(t)
    PROVE  SoundInv'
<1> USE DEF IndInv, TypeOK
<1> DEFINE m == [store[t] EXCEPT !.lease = "lapsed"]
<1>1. store' = [store EXCEPT ![t] = m] /\ UNCHANGED <<ckpt, up, running, wk, hb, call>>
      /\ \A w \in Worker : ~Renewing(w, t)
  BY DEF Lapse, Sound
<1>2. /\ m.status = store[t].status /\ m.owner = store[t].owner /\ m.recov = store[t].recov
      /\ m.lease = "lapsed"
  BY DEF Meta
<1> HIDE DEF m
<1>3. store'[t] = m /\ \A s \in Task : s # t => store'[s] = store[s]
  BY <1>1
<1>4. ASSUME NEW w \in Worker
      PROVE  WorkerFine(w)'
  <2>1. WorkerFine(w) /\ (Live(w) => wk[w].task \in Task)
    BY DEF SoundInv, WorkerShape
  <2>2. CASE Live(w) /\ wk[w].task = t
    <3>1. wk[w].pc \notin {"spawned", "startPut"} /\ hb[w].pc = "off"
      BY <1>1, <2>2 DEF Renewing, BeatState
    <3> QED  BY <1>1, <1>2, <1>3, <2>1, <2>2, <3>1 DEF WorkerFine, Own, Stopping
  <2>3. CASE ~(Live(w) /\ wk[w].task = t)
    BY <1>1, <1>3, <2>1, <2>3, WorkerKept DEF Stopping
  <2> QED  BY <2>2, <2>3
<1>5. ASSUME NEW d \in Client
      PROVE  CallFine(d)'
  <2>1. /\ CallFine(d) /\ call[d].todo \subseteq Task
        /\ call[d].pc = "launch" => call[d].task \in Task
    BY DEF SoundInv, CallShape, CallState
  <2>2. \A s \in Task : /\ store'[s].status = store[s].status
                        /\ store'[s].lease = store[s].lease \/ store'[s].lease = "lapsed"
    BY <1>2, <1>3
  <2> QED  BY <1>1, <2>1, <2>2 DEF CallFine, Given, Stopping, Unworked, Live
<1>6. \A s \in Task : TaskFine(s)'
  BY <1>1, <1>2, <1>3 DEF SoundInv, TaskFine
<1>7. Alone' /\ Apart'
  BY <1>1 DEF SoundInv, Live, Alone, Apart, Marks, HoldsRecovery
<1> QED  BY <1>4, <1>5, <1>6, <1>7 DEF SoundInv

\* Every step of the one server keeps the invariant.
LEMMA SoundStep ==
    ASSUME Sound, IndInv, OneServer, SoundInv, [Next]_vars
    PROVE  SoundInv'
<1>1. ASSUME NEW c \in Client, BeginCall(c) \/ Acquire(c) \/ CallStep(c)
      PROVE  SoundInv'
  BY <1>1, BeginSound, QuietCallSound, ScanSound, MarkingSound, GetStatusSound, MarkWriteSound,
     LaunchSound, CancelReadSound, CancelWriteSound, CancelKillSound DEF Acquire, CallStep
<1>2. ASSUME NEW w \in Worker, WorkerStep(w) \/ GraphReturns(w) \/ Beat(w)
      PROVE  SoundInv'
  <2>1. ~WorkerFault(w)
    BY DEF WorkerFault, Sound
  <2> QED
    BY <1>2, <2>1, StartReadSound, StartWriteSound, EndReadSound, EndWriteSound, RetireSound,
       ReturnSound, BeatSound DEF WorkerStep, GraphReturns
<1>3. ASSUME NEW p \in Proc, Start(p) \/ Crash(p) \/ Shutdown(p) \/ ShutdownDone(p)
      PROVE  SoundInv'
  BY <1>3, DoneIsCrash, StartSound, CrashSound, ShutdownSound
<1>4. CASE UNCHANGED vars
  BY <1>4 DEF vars, SoundInv, WorkerFine, CallFine, TaskFine, Own, Stopping, Live,
              Alone, Apart, Marks, HoldsRecovery, Unworked, Given
<1> QED  BY <1>1, <1>2, <1>3, <1>4, DispatchSound, LapseSound DEF Next

\* It holds before the first server starts.
LEMMA SoundInit == Init => OneServer /\ SoundInv
BY DEF Init, OneServer, SoundInv, Serving, Live, Busy, FreeWorker, NoBeat, NoCall, NoMeta,
       Alone, Apart, Marks, HoldsRecovery, WorkerFine, CallFine, TaskFine, AtWork

-------------------------------------------------------------------------------
(* The theorems about one server at a time.                                    *)

\* Servers that run one after the other never overlap, nor do their workers.
LEMMA OneServerAlways ==
    ASSUME SingleServer
    PROVE  Spec => []OneServer
<1>1. IndInv /\ OneServer /\ [Next]_vars => OneServer'
  BY OneServerStep
<1> QED  BY <1>1, SoundInit, IndInvHolds, PTL DEF Spec

\* While servers run one after the other over one store, two graph runs never
\* share the checkpoint thread of a task, even when store accesses fail and
\* leases run out (supervisor.py:146-149, 416, 459).
THEOREM OneExecutorHolds ==
    ASSUME SingleServer
    PROVE  Spec => []OneExecutor
<1>1. IndInv /\ OneServer => OneExecutor
  <2> SUFFICES ASSUME IndInv, OneServer, NEW v \in Worker, NEW w \in Worker,
                      wk[v].pc = "exec", wk[w].pc = "exec", wk[v].task = wk[w].task
               PROVE  v = w
    BY DEF OneExecutor
  <2>1. /\ Live(v) /\ wk[v].proc \in Proc /\ wk[v].end # "cancelled"
        /\ Live(w) /\ wk[w].proc \in Proc /\ wk[w].end # "cancelled"
    BY DEF IndInv, WorkerShape, Live, Ends
  <2>2. wk[v].proc = wk[w].proc
    BY <2>1 DEF OneServer
  <2> QED  BY <2>1, <2>2 DEF IndInv, WorkerReachable
<1> QED  BY <1>1, IndInvHolds, OneServerAlways, PTL

\* One server at a time, a punctual heartbeat and a store that answers: the
\* invariant of workers, calls and records holds.
THEOREM SoundInvHolds ==
    ASSUME Sound
    PROVE  Spec => []SoundInv
<1>1. IndInv /\ OneServer /\ SoundInv /\ [Next]_vars => SoundInv'
  BY SoundStep
<1>2. Spec => []OneServer
  BY OneServerAlways DEF Sound
<1> QED  BY <1>1, <1>2, SoundInit, IndInvHolds, PTL DEF Spec

\* Then a record never claims that a task can be taken over when its status
\* says it is over (supervisor.py:275-283, 365, 432).
THEOREM RecoverableStatusHolds ==
    ASSUME Sound
    PROVE  Spec => []RecoverableStatus
<1>1. SoundInv => RecoverableStatus
  BY DEF SoundInv, TaskFine, RecoverableStatus
<1> QED  BY <1>1, SoundInvHolds, PTL

\* Then a reply meets a graph that waits at its interrupt: one question, one
\* reply (supervisor.py:405-447).
THEOREM ReplyMeetsQuestionHolds ==
    ASSUME Sound
    PROVE  Spec => ReplyMeetsQuestion
<1>1. SoundInv /\ [Next]_vars =>
        [\A w \in Worker :
            wk[w].pc = "startPut" /\ wk'[w].pc = "exec" /\ wk[w].mode = "reply"
            => ckpt[wk[w].task] = "asking"]_vars
  BY DEF SoundInv, WorkerFine
<1> QED  BY <1>1, SoundInvHolds, PTL DEF Spec, ReplyMeetsQuestion

\* Who makes a task an orphan had it to mark.
LEMMA OrphanedByAMark ==
    ASSUME IndInv, OneServer, SoundInv, Sound, [Next]_vars, NEW t \in Task,
           store[t].status # "orphaned", store'[t].status = "orphaned"
    PROVE  \E c \in Client : Marks(c, t)
<1> USE DEF IndInv, TypeOK
<1>1. ASSUME NEW c \in Client, CallStep(c)
      PROVE  \E d \in Client : Marks(d, t)
  <2>1. CASE MarkWrite(c)
    BY <2>1 DEF MarkWrite, SoundInv, CallFine, Marks, CallShape
  <2>2. CASE CancelWrite(c)
    BY <2>2 DEF CancelWrite, SoundInv, CallFine, CallShape
  <2>3. CASE CancelKill(c)
    <3>p. PICK p \in Proc : call[c].proc = p
      BY <2>3 DEF CancelKill, CallShape, Busy
    <3>k. PICK k \in Task : call[c].task = k
      BY <2>3 DEF CancelKill, CallShape
    <3>r. /\ running[p][k] \in Worker \cup {None}
          /\ running[p][k] # None
          /\ store' \in StoreAfterCut({running[p][k]}, {})
      BY <2>3, <3>p, <3>k DEF CancelKill
    <3>1. PICK w \in Worker : store' \in StoreAfterCut({w}, {})
      BY <3>r
    <3>2. store'[t] \in WorkerWrites(w)
      BY <3>1 DEF StoreAfterCut, Landing
    <3> QED  BY <3>2, WorkerWritesFine
  <2>4. CASE store' = store
    BY <2>4
  <2> QED
    BY <1>1, <2>1, <2>2, <2>3, <2>4
       DEF CallStep, SkipScan, PassOver, MarkRead, ScanDone, CheckLocal, GetStatus, Launch,
           CancelRead, CallFault
<1>2. ASSUME NEW w \in Worker, WorkerStep(w) \/ Beat(w)
      PROVE  FALSE
  <2>1. \/ store' = store
        \/ store'[t] = store[t]
        \/ store'[t] \in WorkerWrites(w)
    <3>1. CASE StartWrite(w)
      BY <3>1 DEF StartWrite, WorkerWrites, WorkerShape, Live
    <3>2. CASE EndWrite(w)
      BY <3>2 DEF EndWrite, WorkerWrites, WorkerShape, Live
    <3>3. CASE Retire(w)
      BY <3>3 DEF Retire, StoreAfterCut, Landing
    <3>4. CASE BeatWrite(w)
      BY <3>4 DEF BeatWrite, WorkerWrites, WorkerShape
    <3> QED
      BY <1>2, <3>1, <3>2, <3>3, <3>4
         DEF WorkerStep, Beat, StartRead, EndRead, WorkerFault, BeatCheck, BeatRead, BeatFault
  <2> QED  BY <2>1, WorkerWritesFine
<1>3. ASSUME NEW p \in Proc, Crash(p)
      PROVE  \E c \in Client : Marks(c, t)
  <2>1. store'[t] \in Landing(t, LiveAt(p), {c \in Client : call[c].proc = p})
    BY <1>3 DEF Crash, Exit, StoreAfterCut
  <2>2. ASSUME NEW w \in Worker, store'[t] \in WorkerWrites(w)
        PROVE  FALSE
    BY <2>2, WorkerWritesFine
  <2>3. PICK c \in Client : store'[t] \in CallWrites(c, t)
    BY <2>1, <2>2 DEF Landing, LiveAt
  <2> QED  BY <2>3 DEF CallWrites, SoundInv, CallFine, Marks
<1>4. ASSUME NEW p \in Proc, Shutdown(p)
      PROVE  FALSE
  <2>1. store'[t] \in Landing(t, LiveAt(p), {})
    BY <1>4 DEF Shutdown, StoreAfterCut
  <2> QED  BY <2>1, WorkerWritesFine DEF Landing, LiveAt
<1>5. ASSUME NEW p \in Proc, NEW s \in Task, NEW w \in Worker, Dispatch(p, s, w)
      PROVE  FALSE
  BY <1>5 DEF Dispatch, PendingFields, NoMeta
<1>6. ASSUME NEW s \in Task, Lapse(s)
      PROVE  FALSE
  BY <1>6 DEF Lapse, Meta
<1>7. store' # store
  OBVIOUS
<1> QED
  BY DoneIsCrash, <1>1, <1>2, <1>3, <1>4, <1>5, <1>6, <1>7
     DEF Next, vars, BeginCall, Poll, Resume, Recover, Cancel, Begin, Acquire, EnterTransition,
         Scan, GraphReturns, Return, Start

\* Then a lease scan touches no live task and no valid lease: what becomes an
\* orphan had a lease that was over and no worker at work on it
\* (supervisor.py:340-367).
THEOREM OrphaningSparesLiveHolds ==
    ASSUME Sound
    PROVE  Spec => OrphaningSparesLive
<1>1. IndInv /\ OneServer /\ SoundInv /\ [Next]_vars =>
        [\A t \in Task :
            store[t].status # "orphaned" /\ store'[t].status = "orphaned" =>
               /\ store[t].lease # "fresh"
               /\ \A w \in Worker : wk[w].task = t => wk[w].pc # "exec"]_vars
  <2> SUFFICES ASSUME IndInv, OneServer, SoundInv, [Next]_vars, NEW t \in Task,
                      store[t].status # "orphaned", store'[t].status = "orphaned"
               PROVE  /\ store[t].lease # "fresh"
                      /\ \A w \in Worker : wk[w].task = t => wk[w].pc # "exec"
    OBVIOUS
  <2>1. PICK c \in Client : Marks(c, t)
    BY OrphanedByAMark
  <2>2. store[t].lease # "fresh" /\ Given(t)
    BY <2>1 DEF SoundInv, CallFine, Marks
  <2>3. \A w \in Worker : wk[w].pc = "exec" => Live(w) /\ wk[w].end # "cancelled"
    BY DEF IndInv, WorkerShape, Live, Ends
  <2> QED  BY <2>2, <2>3 DEF Given, Stopping
<1>2. Spec => []OneServer
  BY OneServerAlways DEF Sound
<1> QED  BY <1>1, <1>2, SoundInvHolds, IndInvHolds, PTL DEF Spec, OrphaningSparesLive

====
