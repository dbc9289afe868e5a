-------------------------------- MODULE Library --------------------------------
(***************************************************************************)
(* The paper library: PDFs are parsed into chunks on disk, the chunks are  *)
(* written to the vector store, merged into the file the sparse index is   *)
(* built from, and the catalog says which papers can be searched           *)
(* (web/api/routers/{pdf,index,background,retrieval}.py, indexer/).        *)
(*                                                                         *)
(* A handler runs in one step of the event loop and starts a thread; the   *)
(* threads (here: jobs) interleave with each other and with handlers       *)
(* wherever they touch something shared, and each such access is a step.   *)
(* Redis answers; its loss, the cold backup and task rows that expire      *)
(* under a thread that is still at work are left out.                      *)
(***************************************************************************)
EXTENDS Naturals, FiniteSets, TLC

CONSTANTS
    Paper,        \* papers, by the name their files and chunks have
    Name,         \* what a caller may call a paper
    Sanitize,     \* _sanitize_paper_name: the paper that a name stands for
    Content,      \* contents of a PDF, by their hash
    Id,           \* chunk numbers within a paper
    Text,         \* what a chunk may say
    Chunks,       \* the text of each chunk that a PDF is cut into, or None
    Job,          \* background threads
    None,         \* nothing
    StoreFaults,  \* TRUE: the vector store may fail and not say so
    Crowded       \* TRUE: a hundred newer tasks may stand before a task row

ASSUME NothingAssumption == None \notin Paper \cup Name \cup Content \cup Text
ASSUME NameAssumption == Sanitize \in [Name -> Paper] /\ Crowded \in BOOLEAN
ASSUME ChunksAssumption ==
    /\ Chunks \in [Content -> [Id -> Text \cup {None}]]
    /\ \A x \in Content : \E i \in Id : Chunks[x][i] # None
ASSUME FiniteAssumption == IsFiniteSet(Id)

VARIABLES
    pdf,      \* the PDF on disk under each name
    rag,      \* rag_chunks.json of each paper: the content it was parsed from
    store,    \* the vector store: the chunks under each paper's prefix
    catalog,  \* dedup:paper:{name}
    owner,    \* dedup:hash:{sha256}
    merged,   \* all_rag_chunks.json
    served,   \* what the cached RetrievalService was built from
    loading,  \* what a request is building it from, under _service_lock
    job       \* the threads and their task rows

libVars == <<pdf, rag, store, catalog, owner, merged, served, loading>>
vars == <<pdf, rag, store, catalog, owner, merged, served, loading, job>>

-------------------------------------------------------------------------------
Count(units) == Cardinality({i \in Id : units[i] # None})
Empty == [i \in Id |-> None]
Snapshot == [Paper -> Content \cup {None}]
Store == [Paper -> [Id -> Text \cup {None}]]

Entry == [there : BOOLEAN, indexed : BOOLEAN, count : 0 .. Cardinality(Id),
          hash : Content \cup {None}]
NoEntry == [there |-> FALSE, indexed |-> FALSE, count |-> 0, hash |-> None]

Kind == {"ingest", "parse", "index", "reconcile"}
Step == {"locate", "parse", "write", "check", "read", "scan",
         "upsert", "delete", "merge", "save", "drop", "register", "finish",
         "list", "patch"}
Active == {"pending", "running"}

NoJob == [kind |-> "none", name |-> None, paper |-> None, pc |-> "idle",
          row |-> "none", cont |-> None, scan |-> [p \in Paper |-> Empty],
          snap |-> [p \in Paper |-> None], meta |-> FALSE, hash |-> None,
          todo |-> {}, sole |-> FALSE]
JobState ==
    [kind  : Kind \cup {"none"},
     name  : Name \cup {None},    \* what an ingest was asked for
     paper : Paper \cup {None},
     pc    : Step \cup {"idle"},
     row   : {"none", "done", "failed"} \cup Active,  \* status of its task
     cont  : Content \cup {None},  \* the content it is working on
     scan  : Store,                \* get_existing_hashes
     snap  : Snapshot,             \* the chunk files it has read
     meta  : BOOLEAN,              \* it has metadata to register
     hash  : Content \cup {None},  \* content_hash in that metadata
     todo  : SUBSET Paper,         \* entries that disagree with the store
     sole  : BOOLEAN]              \* no other thread ran beside it (history)

TypeOK ==
    /\ pdf \in Snapshot /\ rag \in Snapshot /\ store \in Store
    /\ catalog \in [Paper -> Entry] /\ owner \in [Content -> Paper \cup {None}]
    /\ merged \in Snapshot
    /\ served \in Snapshot \cup {None} /\ loading \in Snapshot \cup {None}
    /\ job \in [Job -> JobState]

Init ==
    /\ pdf = [p \in Paper |-> None]
    /\ rag = [p \in Paper |-> None]
    /\ store = [p \in Paper |-> Empty]
    /\ catalog = [p \in Paper |-> NoEntry]
    /\ owner = [x \in Content |-> None]
    /\ merged = [p \in Paper |-> None]
    /\ served = None /\ loading = None
    /\ job = [j \in Job |-> NoJob]

Busy(j) == job[j].pc # "idle"
SetJob(j, rec) == job' = [job EXCEPT ![j] = rec]
Goto(j, pc) == SetJob(j, [job[j] EXCEPT !.pc = pc])

\* is_duplicate: the entry a content hash leads to.
Existing(x) == IF owner[x] = None THEN NoEntry ELSE catalog[owner[x]]

-------------------------------------------------------------------------------
(* Handlers. *)

\* A slot whose last task is over, or was never used.
Free(j) == ~Busy(j) /\ job[j].row \notin Active
Launch(j, kind, n, p, pc) ==
    /\ Free(j)
    /\ job' = [k \in Job |->
                 IF k = j
                 THEN [NoJob EXCEPT !.kind = kind, !.name = n, !.paper = p,
                                    !.pc = pc, !.row = "pending",
                                    !.sole = \A l \in Job : ~Busy(l)]
                 ELSE [job[k] EXCEPT !.sole = FALSE]]

\* process_pdf: a duplicate's file is removed again, whatever it has replaced.
Upload(p, x) ==
    /\ IF Existing(x).there
       THEN pdf' = [pdf EXCEPT ![p] = None] /\ UNCHANGED job
       ELSE /\ pdf' = [pdf EXCEPT ![p] = x]
            /\ \E j \in Job : Launch(j, "parse", None, p, "parse")
    /\ UNCHANGED <<rag, store, catalog, owner, merged, served, loading>>

\* The download tool saves a paper.
Arrive(p, x) ==
    /\ pdf[p] = None
    /\ pdf' = [pdf EXCEPT ![p] = x]
    /\ UNCHANGED <<rag, store, catalog, owner, merged, served, loading, job>>

ProcessLocal(p) ==
    /\ pdf[p] # None /\ ~Existing(pdf[p]).there
    /\ \E j \in Job : Launch(j, "parse", None, p, "parse")
    /\ UNCHANGED libVars

\* _task_list(100): every row, unless newer tasks crowd it out.
Listed == IF Crowded THEN SUBSET Job ELSE {Job}

\* Broken: a task that waits for its thread is not looked for.
UnderWayOnceRunning(n, rows) == \E j \in rows : job[j].kind = "ingest"
    /\ job[j].name = n /\ job[j].row = "running"
\* agent_ingest: an ingest asked for in the same words that is not over is
\* reused.  Another name of the same paper is not recognised.
UnderWay(n, rows) == \E j \in rows : job[j].kind = "ingest"
    /\ job[j].name = n /\ job[j].row \in Active

Ingest(n) ==
    /\ \E rows \in Listed : ~UnderWay(n, rows)
    /\ \E j \in Job : Launch(j, "ingest", n, Sanitize[n], "locate")
    /\ UNCHANGED libVars

IndexRun(p) ==
    /\ rag[p] # None
    /\ \E j \in Job : Launch(j, "index", None, p, "read")
    /\ UNCHANGED libVars

Reconcile ==
    /\ \E j \in Job : Launch(j, "reconcile", None, None, "scan")
    /\ UNCHANGED libVars

-------------------------------------------------------------------------------
(* Search: the retrieval service is built once, under a lock. *)

Load ==
    /\ served = None /\ loading = None
    /\ loading' = merged
    /\ UNCHANGED <<pdf, rag, store, catalog, owner, merged, served, job>>

Loaded ==
    /\ loading # None
    /\ served' = loading /\ loading' = None
    /\ UNCHANGED <<pdf, rag, store, catalog, owner, merged, job>>

-------------------------------------------------------------------------------
(* Threads: from the PDF to the chunks on disk. *)

At(j, pc) == job[j].pc = pc
Doing(j) == IF job[j].row = "pending" THEN "running" ELSE job[j].row
End(j) == SetJob(j, NoJob)   \* nothing reads the row of a task that is over

\* _run_ingest: an indexed duplicate ends it, chunks on disk are used again.
Locate(j) ==
    LET p == job[j].paper
        e == Existing(pdf[p])
    IN
    /\ At(j, "locate")
    /\ CASE pdf[p] = None -> End(j)
         [] pdf[p] # None /\ e.there /\ e.indexed -> End(j)
         [] OTHER ->
              SetJob(j, [job[j] EXCEPT !.row = "running",
                           !.pc = IF rag[p] = None THEN "parse" ELSE "read",
                           !.meta = rag[p] # None /\ e.there,
                           !.hash = IF rag[p] = None THEN None ELSE e.hash])
    /\ UNCHANGED libVars

\* _run_pipeline reads the PDF and, minutes later, writes the chunks.  It may
\* fail on the way; the status says so, and the thread goes on to its caller.
Parse(j) ==
    LET x == pdf[job[j].paper] IN
    /\ At(j, "parse")
    /\ IF x = None
       THEN SetJob(j, [job[j] EXCEPT !.pc = "check", !.row = "failed"])
       ELSE SetJob(j, [job[j] EXCEPT !.pc = "write", !.row = Doing(j),
                                     !.cont = x])
    /\ UNCHANGED libVars

WriteChunks(j) ==
    /\ At(j, "write")
    /\ rag' = [rag EXCEPT ![job[j].paper] = job[j].cont]
    /\ SetJob(j, [job[j] EXCEPT !.pc = "check", !.meta = TRUE, !.cont = None,
                    !.hash = job[j].cont,
                    !.row = IF job[j].kind = "parse" THEN "done" ELSE @])
    /\ UNCHANGED <<pdf, store, catalog, owner, merged, served, loading>>

ParseFails(j) ==
    /\ At(j, "write")
    /\ SetJob(j, [job[j] EXCEPT !.pc = "check", !.row = "failed"])
    /\ UNCHANGED libVars

\* The ingest stops if its task has failed; an upload goes on to register.
Check(j) ==
    /\ At(j, "check")
    /\ IF job[j].row = "failed" THEN End(j)
       ELSE Goto(j, IF job[j].kind = "parse" THEN "register" ELSE "read")
    /\ UNCHANGED libVars

-------------------------------------------------------------------------------
(* Threads: from the chunks on disk to the vector store. *)

\* _run_indexing, up to the embeddings.
Read(j) ==
    /\ At(j, "read")
    /\ SetJob(j, [job[j] EXCEPT !.pc = "scan", !.row = "running",
                                !.cont = rag[job[j].paper]])
    /\ UNCHANGED libVars

\* get_existing_hashes, of the whole store.  It answers an error with {}.
Scanned == {store} \cup
           (IF StoreFaults THEN {[p \in Paper |-> Empty]} ELSE {})
Scan(j) ==
    /\ At(j, "scan")
    /\ \E hashes \in Scanned :
          SetJob(j, [job[j] EXCEPT !.scan = hashes,
                       !.pc = IF job[j].kind = "reconcile" THEN "list"
                                                           ELSE "upsert"])
    /\ UNCHANGED libVars

\* Broken: a chunk that is there is taken to be up to date.
ChangedNewOnly(j) == {i \in Id : /\ Chunks[job[j].cont][i] # None
                                 /\ job[j].scan[job[j].paper][i] = None}

\* sync: what is new or has changed, and what the paper no longer has.
Changed(j) == {i \in Id : /\ Chunks[job[j].cont][i] # None
                          /\ Chunks[job[j].cont][i] # job[j].scan[job[j].paper][i]}
Orphaned(j) == {i \in Id : /\ Chunks[job[j].cont][i] = None
                           /\ job[j].scan[job[j].paper][i] # None}

SetChunks(p, S, units) ==
    store' = [store EXCEPT ![p] = [i \in Id |-> IF i \in S THEN units[i]
                                                           ELSE @[i]]]

Merge(j) == SetJob(j, [job[j] EXCEPT !.pc = "merge", !.scan = NoJob.scan])

\* apply: without anything to write it does not come to the orphans.  A write
\* that fails is counted, and the count is not looked at.
Upsert(j) ==
    /\ At(j, "upsert")
    /\ \E S \in IF StoreFaults THEN SUBSET Changed(j) ELSE {Changed(j)} :
          SetChunks(job[j].paper, S, Chunks[job[j].cont])
    /\ IF Changed(j) = {} THEN Merge(j) ELSE Goto(j, "delete")
    /\ UNCHANGED <<pdf, rag, catalog, owner, merged, served, loading>>

Delete(j) ==
    /\ At(j, "delete")
    /\ SetChunks(job[j].paper, Orphaned(j), Empty)
    /\ Merge(j)
    /\ UNCHANGED <<pdf, rag, catalog, owner, merged, served, loading>>

DeleteFails(j) ==
    /\ At(j, "delete") /\ Orphaned(j) # {}
    /\ End(j)
    /\ UNCHANGED libVars

-------------------------------------------------------------------------------
(* Threads: from the chunks on disk to search, and to the catalog. *)

MergeRead(j) ==
    /\ At(j, "merge")
    /\ SetJob(j, [job[j] EXCEPT !.pc = "save", !.snap = rag])
    /\ UNCHANGED libVars

MergeWrite(j) ==
    /\ At(j, "save")
    /\ merged' = job[j].snap
    /\ SetJob(j, [job[j] EXCEPT !.pc = "drop", !.snap = NoJob.snap])
    /\ UNCHANGED <<pdf, rag, store, catalog, owner, served, loading>>

\* Broken: the lock is not taken.
InvalidateUnlocked(j) ==
    /\ At(j, "drop")
    /\ served' = None
    /\ IF job[j].kind = "parse" THEN End(j) ELSE Goto(j, "register")
    /\ UNCHANGED <<pdf, rag, store, catalog, owner, merged, loading>>

\* invalidate_retrieval_service waits for whoever is building one.
Invalidate(j) ==
    /\ At(j, "drop") /\ loading = None
    /\ served' = None
    /\ IF job[j].kind = "parse" THEN End(j) ELSE Goto(j, "register")
    /\ UNCHANGED <<pdf, rag, store, catalog, owner, merged, loading>>

SetEntry(p, e) == catalog' = [catalog EXCEPT ![p] = e]
Own(x, p) == owner' = IF x = None THEN owner ELSE [owner EXCEPT ![x] = p]

\* register_paper, of a paper that has only been parsed.
RegisterParsed(j) ==
    LET p == job[j].paper IN
    /\ At(j, "register") /\ job[j].kind = "parse"
    /\ SetEntry(p, [there |-> TRUE, indexed |-> FALSE, count |-> 0,
                    hash |-> job[j].hash])
    /\ Own(job[j].hash, p)
    /\ Goto(j, "merge")
    /\ UNCHANGED <<pdf, rag, store, merged, served, loading>>

\* register_indexed with metadata, mark_indexed without.
RegisterIndexed(j) ==
    LET p == job[j].paper
        x == IF job[j].meta THEN job[j].hash ELSE catalog[p].hash
    IN
    /\ At(j, "register") /\ job[j].kind # "parse"
    /\ SetEntry(p, [there |-> TRUE, indexed |-> TRUE,
                    count |-> Count(Chunks[job[j].cont]), hash |-> x])
    /\ Own(IF job[j].meta THEN x ELSE None, p)
    /\ Goto(j, "finish")
    /\ UNCHANGED <<pdf, rag, store, merged, served, loading>>

Finish(j) ==
    /\ At(j, "finish")
    /\ End(j)
    /\ UNCHANGED libVars

-------------------------------------------------------------------------------
(* Threads: the reconciliation of the catalog with the vector store. *)

Found(j, p) == Count(job[j].scan[p])
\* Broken: no chunks are enough.
ShouldBeIndexedAnyway(j, p) == Found(j, p) >= 0
ShouldBeIndexed(j, p) == Found(j, p) > 0

Disagrees(j, p) == catalog[p].there /\
    \/ catalog[p].indexed # ShouldBeIndexed(j, p)
    \/ catalog[p].count # Found(j, p)

List(j) ==
    /\ At(j, "list")
    /\ SetJob(j, [job[j] EXCEPT !.pc = "patch", !.row = "running",
                    !.todo = {p \in Paper : Disagrees(j, p)}])
    /\ UNCHANGED libVars

\* patch_paper reads the entry again, and sets the two fields.
Patch(j) ==
    /\ At(j, "patch")
    /\ \E p \in job[j].todo :
          /\ SetEntry(p, [catalog[p] EXCEPT !.indexed = ShouldBeIndexed(j, p),
                                            !.count = Found(j, p)])
          /\ SetJob(j, [job[j] EXCEPT !.todo = @ \ {p}])
    /\ UNCHANGED <<pdf, rag, store, owner, merged, served, loading>>

Reconciled(j) ==
    /\ At(j, "patch") /\ job[j].todo = {}
    /\ End(j)
    /\ UNCHANGED libVars

-------------------------------------------------------------------------------
(* The process and the task rows. *)

\* The server is started again: its threads are daemons, the rows of their
\* tasks stay.  Only those of ingests are ever looked for.
Left(j) == IF job[j].kind = "ingest" /\ job[j].row \in Active
           THEN [NoJob EXCEPT !.kind = "ingest", !.name = job[j].name,
                              !.paper = job[j].paper, !.row = job[j].row]
           ELSE NoJob
Restart ==
    /\ job' = [j \in Job |-> IF Busy(j) THEN Left(j) ELSE job[j]]
    /\ served' = None /\ loading' = None
    /\ UNCHANGED <<pdf, rag, store, catalog, owner, merged>>

\* _TASK_TTL after the last update.
Expire(j) ==
    /\ ~Busy(j) /\ job[j].row \in Active
    /\ SetJob(j, NoJob)
    /\ UNCHANGED libVars

-------------------------------------------------------------------------------
Handler == \/ \E p \in Paper : \/ \E x \in Content : Upload(p, x) \/ Arrive(p, x)
                               \/ ProcessLocal(p) \/ IndexRun(p)
           \/ \E n \in Name : Ingest(n)
           \/ Reconcile
Thread(j) ==
    \/ Locate(j) \/ Parse(j) \/ WriteChunks(j) \/ ParseFails(j) \/ Check(j)
    \/ Read(j) \/ Scan(j) \/ Upsert(j) \/ Delete(j) \/ DeleteFails(j)
    \/ MergeRead(j) \/ MergeWrite(j) \/ Invalidate(j)
    \/ RegisterParsed(j) \/ RegisterIndexed(j) \/ Finish(j)
    \/ List(j) \/ Patch(j) \/ Reconciled(j)

Next ==
    \/ Handler \/ Load \/ Loaded
    \/ \E j \in Job : Thread(j) \/ Expire(j)
    \/ Restart

Spec == Init /\ [][Next]_vars

-------------------------------------------------------------------------------
(* Properties. *)

\* No two threads that were asked for one paper in the same words take it into
\* the library at the same time, whatever fails, is started again or expires
\* (agent_ingest, background.py:201-223), unless a hundred newer tasks hide the
\* row of the first.  Two names of one paper do start two ingests of its files:
\* the comment there speaks of the same paper, the code compares what was
\* asked for.  One that has failed only returns.
Writing(j) == /\ job[j].kind = "ingest"
              /\ job[j].pc \notin {"idle", "locate"}
              /\ ~(At(j, "check") /\ job[j].row = "failed")
OneIngest == ~Crowded =>
    \A j, k \in Job :
        Writing(j) /\ Writing(k) /\ job[j].name = job[k].name => j = k

\* Search never keeps an index that a finished merge has made obsolete: between
\* merges and their invalidation, the cached service is that of the merged file
\* (invalidate_retrieval_service, retrieval.py:79-91).
ServedFresh ==
    (\A j \in Job : ~At(j, "drop")) =>
        served \in {None, merged} /\ loading \in {None, merged}

\* What the catalog calls indexed can be found: some chunk of the paper is in
\* the store, whatever runs beside it (catalog.py:17).
IndexedIsThere == \A p \in Paper : catalog[p].indexed => Count(store[p]) > 0

\* An ingest that had the library to itself has delivered when it reports
\* success: every chunk is in the store as it is on disk, the catalog says so,
\* and search is not served without it (_run_ingest, background.py:92-161).
SoleIngestDelivers ==
    \A j \in Job : At(j, "finish") /\ job[j].sole =>
        LET p == job[j].paper IN
        /\ catalog[p].indexed
        /\ \A i \in Id : Chunks[rag[p]][i] \in {None, store[p][i]}
        /\ merged[p] = rag[p]
        /\ served # None => served[p] = rag[p]

\* A reconciliation that ran alone leaves the catalog in agreement with the
\* store (reconcile.py:14-15).
SoleReconcileAgrees ==
    \A j \in Job : At(j, "patch") /\ job[j].todo = {} /\ job[j].sole =>
        \A p \in Paper : catalog[p].there =>
            /\ catalog[p].indexed = (Count(store[p]) > 0)
            /\ catalog[p].count = Count(store[p])

\* A run that had the library to itself leaves it in agreement.
SoleRunAgrees == SoleIngestDelivers /\ SoleReconcileAgrees

\* VIOLATED.  "The vector store unreachable: leave things as they are, never
\* touch the data" (reconcile.py:61): no paper that is in the store loses its
\* flag to a reconciliation that runs alone.
OutageHarmless ==
    [][\A j \in Job, p \in Paper :
          /\ At(j, "patch") /\ job[j].sole
          /\ catalog[p].indexed /\ ~catalog'[p].indexed
          => Count(store[p]) = 0]_vars

-----------------------------------------------------------------------------
\* For TLC: the second content has one chunk less than the first, and says
\* another thing.
TwoContents == [x \in Content |-> [i \in Id |-> CASE x = "x1" /\ i = 1 -> "a" [] x = "x1" -> "b"
                                                 [] i = 1 -> "c" [] OTHER -> None]]

\* Two names of one paper.
OnePaper == [n \in Name |-> CHOOSE p \in Paper : TRUE]

\* The threads are alike, and so are the names.
Symmetry == Permutations(Job) \cup Permutations(Name)
================================================================================
